-------------------------------- MODULE Smp --------------------------------
(***************************************************************************)
(* The spin-table dispatcher of src/smp.c: how the boot CPU starts the     *)
(* secondary CPUs, hands them functions to run, waits for the results and  *)
(* stops them again.  One process is the boot CPU, which runs the smp_*    *)
(* functions; the others are the secondaries, which run cpu_reset          *)
(* (start.S) and smp_secondary_entry.  Every access to memory that the     *)
(* other side also writes is a step of its own; the dmb/dsb barriers of    *)
(* the code make the accesses sequentially consistent.                     *)
(*                                                                         *)
(* Secondary CPU c has index c and an MPIDR which is also written c: the   *)
(* boot CPU has neither a slot nor an MPIDR here.  0 stands for "none".    *)
(***************************************************************************)
EXTENDS Integers, FiniteSets

CONSTANTS
    N,           \* number of secondary CPUs
    Socs,        \* the systems it may run on: see Soc
    BusyRelease, \* smp_get_release_addr may be called for a CPU with a call in flight
    MaxStarts,   \* bound: calls of smp_start_secondaries
    MaxCalls,    \* bound: calls of smp_call4
    MaxModes     \* bound: calls of smp_set_wfe_mode

CPUs == 1..N
Ids == 1..MaxCalls

\* What the code distinguishes of a system:
\*   chip       which start path is used
\*   retention  deep WFI keeps the register state (utils.c: supports_arch_retention)
\*   fastIpi    IPIs are addressed by MPIDR (fast_ipi) and not by AIC CPU number
\*   unsafeWfi  cpu_features->unsafe_wfi
\*   badRvbar   CPUs whose reset vector is locked to something else
\*   lateEntry  a released CPU may enter after the boot CPU gave up on it
Soc == [chip : {"generic", "t8140", "t8142", "t8152"}, retention : BOOLEAN, fastIpi : BOOLEAN,
        unsafeWfi : BOOLEAN, badRvbar : SUBSET CPUs, lateEntry : BOOLEAN]

ASSUME ConstantsAssumption ==
    /\ N \in Nat \ {0}
    /\ Socs \subseteq Soc
    /\ BusyRelease \in BOOLEAN
    /\ MaxStarts \in Nat /\ MaxCalls \in Nat /\ MaxModes \in Nat

VARIABLES
    mpidr, flag, target, args, retval,  \* spin_table[i]
    rsMpidr,                            \* smp_reset_stacks[i].mpidr
    target_cpu, reset_stack,            \* set up for the CPU being started
    wfe_mode,
    stop,                               \* cpu_stop_state[i]
    started, failed,                    \* smp_started_mask, smp_start_fail_mask
    event, ipi,                         \* hardware: event register, pending IPI
    pc, index, sp, fn, arg,             \* secondary CPUs
    boot,                               \* boot CPU: pc and locals
    soc,                                \* the system it runs on
    nstart, ncall, nmode,               \* bound counters
    post, ran                           \* history: last call of a slot, runs of a call

table == <<mpidr, flag, target, args, retval>>
shared == <<rsMpidr, target_cpu, reset_stack, wfe_mode>>
secondary == <<pc, index, sp, fn, arg>>
masks == <<started, failed>>
bounds == <<nstart, ncall, nmode>>
history == <<post, ran>>
vars == <<table, shared, stop, masks, event, ipi, secondary, boot, soc, bounds, history>>

Chip == soc.chip
Retention == soc.retention
FastIpi == soc.fastIpi
UnsafeWfi == soc.unsafeWfi
BadRvbar == soc.badRvbar
LateEntry == soc.lateEntry

Dummy == 0            \* dummy_stack: the shared reset stack
Fn == "fn"            \* some function handed to smp_call4
Sleep == "sleep"      \* cpu_sleep
None == "none"        \* spin_table[i].target == 0

\* smp_start_cpu, smp_stop_cpu: memset(&spin_table[i], 0, sizeof(struct spin_table))
ClearSlot(i) ==
    /\ mpidr' = [mpidr EXCEPT ![i] = 0]
    /\ flag' = [flag EXCEPT ![i] = 0]
    /\ target' = [target EXCEPT ![i] = None]
    /\ args' = [args EXCEPT ![i] = 0]
    /\ retval' = [retval EXCEPT ![i] = 0]

\* The boot CPU between two calls of the smp_* functions: what returned last, and with what
Return(op, ret, val) ==
    [pc |-> "idle", i |-> 0, fn |-> None, flag |-> 0, mode |-> FALSE, deep |-> FALSE,
     failed |-> FALSE, then |-> "idle", op |-> op, ret |-> ret, val |-> val]

NoLocals == Return("none", 0, 0)

Init ==
    /\ soc \in Socs
    /\ mpidr = [i \in CPUs |-> 0]
    /\ flag = [i \in CPUs |-> 0]
    /\ target = [i \in CPUs |-> None]
    /\ args = [i \in CPUs |-> 0]
    /\ retval = [i \in CPUs |-> 0]
    /\ rsMpidr = [i \in CPUs |-> IF Chip = "t8142" THEN i ELSE 0]
    /\ target_cpu = 0
    /\ reset_stack = Dummy
    /\ wfe_mode = (Chip \in {"t8142", "t8152"})
    /\ stop = [i \in CPUs |-> [pending |-> FALSE, deep |-> FALSE, flag |-> 0]]
    /\ started = {} /\ failed = {}
    /\ event = [c \in CPUs |-> FALSE]
    /\ ipi = [c \in CPUs |-> FALSE]
    /\ pc = [c \in CPUs |-> "off"]
    /\ index = [c \in CPUs |-> 0]
    /\ sp = [c \in CPUs |-> Dummy]
    /\ fn = [c \in CPUs |-> None]
    /\ arg = [c \in CPUs |-> 0]
    /\ boot = NoLocals
    /\ nstart = 0 /\ ncall = 0 /\ nmode = 0
    /\ post = [i \in CPUs |-> 0]
    /\ ran = [id \in Ids |-> 0]

-----------------------------------------------------------------------------
(* Secondary CPUs                                                          *)

Step(c, from, to) ==
    /\ pc[c] = from
    /\ pc' = [pc EXCEPT ![c] = to]

\* The slots whose published MPIDR is c's
Published(c) == {i \in CPUs : rsMpidr[i] = c}

First(S) == CHOOSE i \in S : \A j \in S : i <= j

\* (mutant) the MPIDR table is not consulted
CpuResetShared(c) ==
    /\ Step(c, "reset", "entry")
    /\ sp' = [sp EXCEPT ![c] = reset_stack]
    /\ UNCHANGED <<table, shared, stop, masks, event, ipi, index, fn, arg, boot, bounds, history>>

\* start.S, cpu_reset: a T8152 core computes its stack from its MPIDR, the others look their
\* MPIDR up in smp_reset_stacks and fall back to the shared _reset_stack
CpuReset(c) ==
    /\ Step(c, "reset", "entry")
    /\ sp' = [sp EXCEPT ![c] = CASE Chip = "t8152" -> c
                                 [] Chip # "t8152" /\ Published(c) # {} -> First(Published(c))
                                 [] OTHER -> reset_stack]
    /\ UNCHANGED <<table, shared, stop, masks, event, ipi, index, fn, arg, boot, bounds, history>>

\* (mutant) target_cpu is trusted on every entry
EntryIndexStale(c) ==
    /\ Step(c, "entry", "publish")
    /\ index' = [index EXCEPT ![c] = target_cpu]
    /\ UNCHANGED <<table, shared, stop, masks, event, ipi, sp, fn, arg, boot, bounds, history>>

\* smp_secondary_entry: which slot is mine
EntryIndex(c) ==
    /\ Step(c, "entry", "publish")
    /\ index' = [index EXCEPT ![c] = CASE Published(c) # {} -> First(Published(c))
                                       [] Published(c) = {} /\ Chip = "t8152" -> c
                                       [] OTHER -> target_cpu]
    /\ UNCHANGED <<table, shared, stop, masks, event, ipi, sp, fn, arg, boot, bounds, history>>

EntryPublish(c) ==
    /\ Step(c, "publish", "flag")
    /\ rsMpidr' = [rsMpidr EXCEPT ![index[c]] = c]
    /\ UNCHANGED <<table, target_cpu, reset_stack, wfe_mode, stop, masks, event, ipi, index, sp,
                   fn, arg, boot, bounds, history>>

EntryFlag(c) ==
    /\ Step(c, "flag", "poll")
    /\ mpidr' = [mpidr EXCEPT ![index[c]] = c]
    /\ flag' = [flag EXCEPT ![index[c]] = @ + 1]
    /\ UNCHANGED <<target, args, retval, shared, stop, masks, event, ipi, index, sp, fn, arg,
                   boot, bounds, history>>

\* while (!(target = me->target))
Poll(c) ==
    /\ Step(c, "poll", IF target[index[c]] = None THEN "mode" ELSE "ack")
    /\ fn' = [fn EXCEPT ![c] = target[index[c]]]
    /\ UNCHANGED <<table, shared, stop, masks, event, ipi, index, sp, arg, boot, bounds, history>>

\* if (wfe_mode)
ReadMode(c) ==
    /\ Step(c, "mode", IF wfe_mode THEN "wfe" ELSE "wfi")
    /\ UNCHANGED <<table, shared, stop, masks, event, ipi, index, sp, fn, arg, boot, bounds,
                   history>>

\* wfe returns once the event register is set, and clears it
Wfe(c) ==
    /\ Step(c, "wfe", "poll")
    /\ event[c]
    /\ event' = [event EXCEPT ![c] = FALSE]
    /\ UNCHANGED <<table, shared, stop, masks, ipi, index, sp, fn, arg, boot, bounds, history>>

\* deep_wfi: a pending IPI makes the WFI return at once, else the core sleeps
DeepWfi(c) ==
    /\ Step(c, "wfi", IF ipi[c] THEN "ipi" ELSE "wfisleep")
    /\ UNCHANGED <<table, shared, stop, masks, event, ipi, index, sp, fn, arg, boot, bounds,
                   history>>

\* An IPI wakes it; without architectural retention it comes back through the reset vector
WfiWake(c) ==
    /\ Step(c, "wfisleep", IF Retention THEN "ipi" ELSE "reset")
    /\ ipi[c]
    /\ UNCHANGED <<table, shared, stop, masks, event, ipi, index, sp, fn, arg, boot, bounds,
                   history>>

\* msr(SYS_IMP_APL_IPI_SR_EL1, 1), or AIC_IPI_ACK
IpiAck(c) ==
    /\ Step(c, "ipi", "poll")
    /\ ipi' = [ipi EXCEPT ![c] = FALSE]
    /\ UNCHANGED <<table, shared, stop, masks, event, index, sp, fn, arg, boot, bounds, history>>

\* me->flag++ before the call
CallAck(c) ==
    /\ Step(c, "ack", "call")
    /\ flag' = [flag EXCEPT ![index[c]] = @ + 1]
    /\ UNCHANGED <<mpidr, target, args, retval, shared, stop, masks, event, ipi, index, sp, fn,
                   arg, boot, bounds, history>>

\* The call reads me->args; cpu_sleep does not return
CallEnter(c) ==
    /\ Step(c, "call", IF fn[c] = Sleep THEN "asleep" ELSE "run")
    /\ arg' = [arg EXCEPT ![c] = args[index[c]]]
    /\ ran' = [id \in Ids |-> IF id = args[index[c]] THEN ran[id] + 1 ELSE ran[id]]
    /\ UNCHANGED <<table, shared, stop, masks, event, ipi, index, sp, fn, boot, bounds, post>>

\* The function returns: its result is told apart by the arguments it was given
CallReturn(c) ==
    /\ Step(c, "run", "clear")
    /\ retval' = [retval EXCEPT ![index[c]] = arg[c]]
    /\ UNCHANGED <<mpidr, flag, target, args, shared, stop, masks, event, ipi, index, sp, fn, arg,
                   boot, bounds, history>>

\* me->target = 0
CallClear(c) ==
    /\ Step(c, "clear", "poll")
    /\ target' = [target EXCEPT ![index[c]] = None]
    /\ fn' = [fn EXCEPT ![c] = None]
    /\ arg' = [arg EXCEPT ![c] = 0]
    /\ UNCHANGED <<mpidr, flag, args, retval, shared, stop, masks, event, ipi, index, sp, boot,
                   bounds, history>>

\* cpu_sleep: the WFI after a PMGR stop request powers the core off
PowerOff(c) ==
    /\ Step(c, "asleep", "off")
    /\ event' = [event EXCEPT ![c] = FALSE]
    /\ ipi' = [ipi EXCEPT ![c] = FALSE]
    /\ index' = [index EXCEPT ![c] = 0]
    /\ sp' = [sp EXCEPT ![c] = Dummy]
    /\ fn' = [fn EXCEPT ![c] = None]
    /\ UNCHANGED <<table, shared, stop, masks, arg, boot, bounds, history>>

Dispatcher(c) ==
    \/ CpuReset(c) \/ EntryIndex(c) \/ EntryPublish(c) \/ EntryFlag(c)
    \/ Poll(c) \/ ReadMode(c) \/ Wfe(c) \/ DeepWfi(c) \/ WfiWake(c) \/ IpiAck(c)
    \/ CallAck(c) \/ CallEnter(c) \/ CallClear(c) \/ PowerOff(c)

Secondary(c) == Dispatcher(c) \/ CallReturn(c)

-----------------------------------------------------------------------------
(* Boot CPU.  boot.pc is the place, boot.i the CPU it deals with and       *)
(* boot.then where a nested smp_call4 or smp_set_wfe_mode returns to;      *)
(* boot.op, boot.ret and boot.val are the last function that returned, its *)
(* status and its result.                                                  *)

Timeout == -2         \* SMP_TIMEOUT

Goto(from, b) ==
    /\ boot.pc = from
    /\ boot' = b

\* (mutant) only the last CPU's failure is returned
NextCpuForgets(loop, failing) ==
    IF boot.i < N
    THEN [boot EXCEPT !.pc = loop, !.i = @ + 1]
    ELSE Return(loop, IF failing THEN -1 ELSE 0, 0)

\* The next iteration of the loop over the CPUs in smp_start_secondaries and
\* smp_stop_secondaries, or their return
NextCpu(loop, failing) ==
    IF boot.i < N
    THEN [boot EXCEPT !.pc = loop, !.i = @ + 1, !.failed = @ \/ failing]
    ELSE Return(loop, IF boot.failed \/ failing THEN -1 ELSE 0, 0)

\* smp_send_ipi: a fast IPI goes to the MPIDR recorded in the slot
IpiDest(i) == IF FastIpi THEN mpidr[i] ELSE i

Sev == [c \in CPUs |-> TRUE]

\* smp_start_secondaries; smp_start_t8152 refuses after an earlier failure
StartSecondaries ==
    /\ nstart < MaxStarts
    /\ nstart' = nstart + 1
    /\ Goto("idle", IF Chip = "t8152" /\ failed # {}
                    THEN Return("start", -1, 0)
                    ELSE [NoLocals EXCEPT !.pc = IF UnsafeWfi THEN "mode" ELSE "start", !.i = 1,
                                      !.mode = TRUE, !.then = "start"])
    /\ UNCHANGED <<table, shared, stop, masks, event, ipi, secondary, ncall, nmode, history>>

\* Only T8140 and T8152 report that a CPU did not start
StartReports == Chip \in {"t8140", "t8152"}

\* smp_start_cpu: already running, or the reset vector is refused
StartCheck ==
    /\ Goto("start", CASE flag[boot.i] # 0 -> NextCpu("start", FALSE)
                       [] flag[boot.i] = 0 /\ boot.i \notin BadRvbar ->
                              [boot EXCEPT !.pc = "start_setup"]
                       [] flag[boot.i] = 0 /\ boot.i \in BadRvbar ->
                              IF Chip = "t8152" THEN Return("start", -1, 0)
                              ELSE NextCpu("start", StartReports))
    /\ failed' = IF flag[boot.i] = 0 /\ boot.i \in BadRvbar /\ Chip = "t8152"
                 THEN failed \cup {boot.i} ELSE failed
    /\ UNCHANGED <<table, shared, stop, started, event, ipi, secondary, bounds, history>>

\* The slot is cleared, target_cpu and _reset_stack set up; T8152 has nothing to set up
StartSetup ==
    /\ Goto("start_setup", [boot EXCEPT !.pc = "start_release"])
    /\ IF Chip = "t8152"
       THEN UNCHANGED <<table, shared, history>>
       ELSE /\ ClearSlot(boot.i)
            /\ post' = [post EXCEPT ![boot.i] = 0]
            /\ target_cpu' = boot.i
            /\ reset_stack' = boot.i
            /\ UNCHANGED <<rsMpidr, wfe_mode, ran>>
    /\ UNCHANGED <<stop, masks, event, ipi, secondary, bounds>>

\* The PMGR start registers are written: the core leaves reset, or is dead and stays off
StartRelease ==
    /\ Goto("start_release", [boot EXCEPT !.pc = "start_poll"])
    /\ \E dead \in BOOLEAN :
          pc' = [pc EXCEPT ![boot.i] = IF @ = "off" /\ ~dead THEN "reset" ELSE @]
    /\ event' = IF Chip = "t8152" THEN Sev ELSE event
    /\ UNCHANGED <<table, shared, stop, masks, ipi, index, sp, fn, arg, bounds, history>>

\* The flag is seen within 100 polls (T8152: 1000)
StartOk ==
    /\ Goto("start_poll", NextCpu("start", FALSE))
    /\ flag[boot.i] # 0
    /\ reset_stack' = IF Chip = "t8152" THEN reset_stack ELSE Dummy
    /\ started' = IF Chip = "t8152" THEN started \cup {boot.i} ELSE started
    /\ UNCHANGED <<table, rsMpidr, target_cpu, wfe_mode, stop, failed, event, ipi, secondary,
                   bounds, history>>

\* It is not: T8152 gives up, the others go on with the next CPU
StartTimeout ==
    /\ Goto("start_poll", IF Chip = "t8152" THEN Return("start", -1, 0)
                          ELSE NextCpu("start", StartReports))
    /\ flag[boot.i] = 0
    /\ LateEntry \/ pc[boot.i] = "off"
    /\ reset_stack' = IF Chip = "t8152" THEN reset_stack ELSE Dummy
    /\ failed' = IF Chip = "t8152" THEN failed \cup {boot.i} ELSE failed
    /\ UNCHANGED <<table, rsMpidr, target_cpu, wfe_mode, stop, started, event, ipi, secondary,
                   bounds, history>>

\* smp_call4 called by the boot CPU for some function
Call(i) ==
    /\ ncall < MaxCalls
    /\ Goto("idle", [NoLocals EXCEPT !.pc = "call", !.i = i, !.fn = Fn, !.then = "call"])
    /\ UNCHANGED <<table, shared, stop, masks, event, ipi, secondary, bounds, history>>

\* smp_call4: a dead CPU and a slot with a call in flight are refused
CallRefuse ==
    /\ Goto("call", IF boot.then = "call" THEN Return("call", -1, 0) ELSE NextCpu("stop", TRUE))
    /\ flag[boot.i] = 0 \/ target[boot.i] # None
    /\ stop' = IF boot.then = "stop" THEN [stop EXCEPT ![boot.i].pending = FALSE] ELSE stop
    /\ UNCHANGED <<table, shared, masks, event, ipi, secondary, bounds, history>>

\* (mutant) a call in flight is overwritten
CallPrepareBusy ==
    /\ Goto("call", [boot EXCEPT !.pc = "call_target", !.flag = flag[boot.i]])
    /\ flag[boot.i] # 0
    /\ ncall' = IF boot.fn = Fn THEN ncall + 1 ELSE ncall
    /\ args' = [args EXCEPT ![boot.i] = IF boot.fn = Fn THEN ncall + 1 ELSE 0]
    /\ post' = [post EXCEPT ![boot.i] = IF boot.fn = Fn THEN ncall + 1 ELSE 0]
    /\ UNCHANGED <<mpidr, flag, target, retval, shared, stop, masks, event, ipi, secondary,
                   nstart, nmode, ran>>

\* Otherwise the flag is noted and the arguments are written
CallPrepare ==
    /\ Goto("call", [boot EXCEPT !.pc = "call_target", !.flag = flag[boot.i]])
    /\ flag[boot.i] # 0 /\ target[boot.i] = None
    /\ ncall' = IF boot.fn = Fn THEN ncall + 1 ELSE ncall
    /\ args' = [args EXCEPT ![boot.i] = IF boot.fn = Fn THEN ncall + 1 ELSE 0]
    /\ post' = [post EXCEPT ![boot.i] = IF boot.fn = Fn THEN ncall + 1 ELSE 0]
    /\ UNCHANGED <<mpidr, flag, target, retval, shared, stop, masks, event, ipi, secondary,
                   nstart, nmode, ran>>

CallTarget ==
    /\ Goto("call_target", [boot EXCEPT !.pc = "call_kick"])
    /\ target' = [target EXCEPT ![boot.i] = boot.fn]
    /\ UNCHANGED <<mpidr, flag, args, retval, shared, stop, masks, event, ipi, secondary, bounds,
                   history>>

\* SEV or an IPI, by the current mode
CallKick ==
    /\ Goto("call_kick", [boot EXCEPT !.pc = "call_wait"])
    /\ event' = IF wfe_mode THEN Sev ELSE event
    /\ ipi' = [c \in CPUs |-> ipi[c] \/ (~wfe_mode /\ c = IpiDest(boot.i))]
    /\ UNCHANGED <<table, shared, stop, masks, secondary, bounds, history>>

\* The flag has moved: acknowledged
CallOk ==
    /\ Goto("call_wait", IF boot.then = "call" THEN Return("call", 0, 0)
                         ELSE [boot EXCEPT !.pc = "stop_ack"])
    /\ flag[boot.i] # boot.flag
    /\ UNCHANGED <<table, shared, stop, masks, event, ipi, secondary, bounds, history>>

\* A second has passed: SMP_TIMEOUT, and the call stays in the slot
CallTimeout ==
    /\ Goto("call_wait", IF boot.then = "call" THEN Return("call", Timeout, 0)
                         ELSE [boot EXCEPT !.pc = "stop_ack"])
    /\ flag[boot.i] = boot.flag
    /\ UNCHANGED <<table, shared, stop, masks, event, ipi, secondary, bounds, history>>

\* smp_wait, smp_wait_timed
Wait(i) ==
    /\ Goto("idle", IF flag[i] = 0 THEN Return("wait", -1, 0)
                    ELSE [NoLocals EXCEPT !.pc = "wait", !.i = i])
    /\ UNCHANGED <<table, shared, stop, masks, event, ipi, secondary, bounds, history>>

\* (mutant) the result is taken once the call is acknowledged, not once it is complete
WaitDoneEarly ==
    /\ Goto("wait", [Return("wait", 0, retval[boot.i]) EXCEPT !.i = boot.i])
    /\ UNCHANGED <<table, shared, stop, masks, event, ipi, secondary, bounds, history>>

WaitDone ==
    /\ Goto("wait", [Return("wait", 0, retval[boot.i]) EXCEPT !.i = boot.i])
    /\ target[boot.i] = None
    /\ UNCHANGED <<table, shared, stop, masks, event, ipi, secondary, bounds, history>>

WaitTimeout ==
    /\ Goto("wait", Return("wait", Timeout, 0))
    /\ target[boot.i] # None
    /\ UNCHANGED <<table, shared, stop, masks, event, ipi, secondary, bounds, history>>

\* smp_set_wfe_mode: modes that the chip cannot do are refused
SetWfeMode(new) ==
    /\ nmode < MaxModes
    /\ nmode' = nmode + 1
    /\ Goto("idle", IF ~new /\ (UnsafeWfi \/ Chip = "t8152") THEN Return("mode", 0, 0)
                    ELSE [NoLocals EXCEPT !.pc = "mode", !.then = "idle",
                                      !.mode = new \/ Chip = "t8142"])
    /\ UNCHANGED <<table, shared, stop, masks, event, ipi, secondary, nstart, ncall, history>>

ModeStore ==
    /\ Goto("mode", [boot EXCEPT !.pc = IF Chip = "t8142" THEN "mode_sev" ELSE "mode_ipi"])
    /\ wfe_mode' = boot.mode
    /\ UNCHANGED <<table, rsMpidr, target_cpu, reset_stack, stop, masks, event, ipi, secondary,
                   bounds, history>>

\* (mutant) CPUs in WFI are not told of the new mode
ModeIpiNone ==
    /\ Goto("mode_ipi", [boot EXCEPT !.pc = "mode_sev"])
    /\ UNCHANGED <<table, shared, stop, masks, event, ipi, secondary, bounds, history>>

\* Every live CPU gets an IPI; T8152 has no IPIs and sends an event instead
ModeIpi ==
    /\ Goto("mode_ipi", [boot EXCEPT !.pc = "mode_sev"])
    /\ IF Chip = "t8152"
       THEN UNCHANGED ipi
       ELSE ipi' = [c \in CPUs |-> ipi[c] \/ \E i \in CPUs : flag[i] # 0 /\ IpiDest(i) = c]
    /\ UNCHANGED <<table, shared, stop, masks, event, secondary, bounds, history>>

ModeSev ==
    /\ Goto("mode_sev", IF boot.then = "idle" THEN Return("mode", 0, 0)
                        ELSE [boot EXCEPT !.pc = boot.then])
    /\ event' = Sev
    /\ UNCHANGED <<table, shared, stop, masks, ipi, secondary, bounds, history>>

\* smp_get_release_addr
GetReleaseAddr(i) ==
    /\ Goto("idle", Return("release", 0, 0))
    /\ BusyRelease \/ target[i] = None
    /\ args' = [args EXCEPT ![i] = 0]
    /\ UNCHANGED <<mpidr, flag, target, retval, shared, stop, masks, event, ipi, secondary,
                   bounds, history>>

\* smp_stop_secondaries: WFE mode first, then each CPU; T8152 cannot stop
StopSecondaries(deep) ==
    /\ Goto("idle", IF Chip = "t8152" THEN Return("stop", -1, 0)
                    ELSE [NoLocals EXCEPT !.pc = "mode", !.mode = TRUE, !.then = "stop", !.i = 1,
                                      !.deep = deep])
    /\ UNCHANGED <<table, shared, stop, masks, event, ipi, secondary, bounds, history>>

\* smp_stop_cpu
StopCheck ==
    /\ Goto("stop", CASE flag[boot.i] = 0 -> NextCpu("stop", FALSE)
                      [] flag[boot.i] # 0 /\ stop[boot.i].pending -> [boot EXCEPT !.pc = "stop_ack"]
                      [] OTHER -> [boot EXCEPT !.pc = "stop_wait"])
    /\ UNCHANGED <<table, shared, stop, masks, event, ipi, secondary, bounds, history>>

\* The slot is or becomes free: note the flag, request the stop, dispatch cpu_sleep
StopPost ==
    /\ Goto("stop_wait", [boot EXCEPT !.pc = "call", !.fn = Sleep, !.then = "stop"])
    /\ target[boot.i] = None
    /\ stop' = [stop EXCEPT ![boot.i] = [pending |-> TRUE, deep |-> boot.deep,
                                         flag |-> flag[boot.i]]]
    /\ UNCHANGED <<table, shared, masks, event, ipi, secondary, bounds, history>>

StopBusy ==
    /\ Goto("stop_wait", NextCpu("stop", TRUE))
    /\ target[boot.i] # None
    /\ UNCHANGED <<table, shared, stop, masks, event, ipi, secondary, bounds, history>>

StopAcked ==
    /\ Goto("stop_ack", [boot EXCEPT !.pc = "stop_check"])
    /\ flag[boot.i] # stop[boot.i].flag
    /\ UNCHANGED <<table, shared, stop, masks, event, ipi, secondary, bounds, history>>

StopUnacked ==
    /\ Goto("stop_ack", NextCpu("stop", TRUE))
    /\ flag[boot.i] = stop[boot.i].flag
    /\ UNCHANGED <<table, shared, stop, masks, event, ipi, secondary, bounds, history>>

\* A core that only waits for an event, an interrupt or for power
Settled(c) ==
    \/ pc[c] \in {"off", "asleep"}
    \/ pc[c] = "wfe" /\ ~event[c]
    \/ pc[c] = "wfisleep" /\ ~ipi[c]

\* (mutant) the acknowledgement is taken for the power-off
StopDoneUnchecked ==
    /\ Goto("stop_check", NextCpu("stop", FALSE))
    /\ ClearSlot(boot.i)
    /\ stop' = [stop EXCEPT ![boot.i].pending = FALSE]
    /\ post' = [post EXCEPT ![boot.i] = 0]
    /\ UNCHANGED <<shared, masks, event, ipi, secondary, bounds, ran>>

\* A deep sleep is presumed after udelay(10000), in which the core runs until it has to wait;
\* otherwise the power state is read from impl_reg + 0x100
StopDone ==
    /\ Goto("stop_check", NextCpu("stop", FALSE))
    /\ IF stop[boot.i].deep THEN Settled(boot.i) ELSE pc[boot.i] = "off"
    /\ ClearSlot(boot.i)
    /\ stop' = [stop EXCEPT ![boot.i].pending = FALSE]
    /\ post' = [post EXCEPT ![boot.i] = 0]
    /\ UNCHANGED <<shared, masks, event, ipi, secondary, bounds, ran>>

StopFailed ==
    /\ Goto("stop_check", NextCpu("stop", TRUE))
    /\ ~stop[boot.i].deep /\ pc[boot.i] # "off"
    /\ UNCHANGED <<table, shared, stop, masks, event, ipi, secondary, bounds, history>>

Boot ==
    \/ StartSecondaries \/ StartCheck \/ StartSetup \/ StartRelease \/ StartOk \/ StartTimeout
    \/ \E i \in CPUs : Call(i) \/ Wait(i) \/ GetReleaseAddr(i)
    \/ CallRefuse \/ CallPrepare \/ CallTarget \/ CallKick \/ CallOk \/ CallTimeout
    \/ WaitDone \/ WaitTimeout
    \/ \E b \in BOOLEAN : SetWfeMode(b) \/ StopSecondaries(b)
    \/ ModeStore \/ ModeIpi \/ ModeSev
    \/ StopCheck \/ StopPost \/ StopBusy \/ StopAcked \/ StopUnacked \/ StopDone \/ StopFailed

Next == (Boot \/ \E c \in CPUs : Secondary(c)) /\ UNCHANGED soc

Spec == Init /\ [][Next]_vars

\* Each secondary executes its own instructions (a function it was given need not return) and
\* the boot CPU carries on with the dispatch or mode change it is in: neither ever blocks there
FairSpec ==
    /\ Spec
    /\ \A c \in CPUs : WF_vars(Dispatcher(c) /\ UNCHANGED soc)
    /\ WF_vars((CallTarget \/ CallKick \/ ModeStore \/ ModeIpi \/ ModeSev) /\ UNCHANGED soc)

-----------------------------------------------------------------------------
(* Properties                                                              *)

Places == {"off", "reset", "entry", "publish", "flag", "poll", "mode", "wfe", "wfi", "wfisleep",
           "ipi", "ack", "call", "run", "clear", "asleep"}

BootPlaces == {"idle", "start", "start_setup", "start_release", "start_poll", "call",
               "call_target", "call_kick", "call_wait", "wait", "mode", "mode_ipi", "mode_sev",
               "stop", "stop_wait", "stop_ack", "stop_check"}

Functions == {None, Fn, Sleep}
CpuOrNone == 0..N
IdOrNone == 0..MaxCalls

BootLocals ==
    [pc : BootPlaces, i : CpuOrNone, fn : Functions, flag : Nat, mode : BOOLEAN, deep : BOOLEAN,
     failed : BOOLEAN, then : {"idle", "start", "call", "stop"},
     op : {"none", "start", "call", "wait", "mode", "release", "stop"}, ret : {0, -1, Timeout},
     val : IdOrNone]

\* The spin table, the reset-stack table and the CPUs' local state have the types the
\* declarations of smp.c give them
TypeOK ==
    /\ soc \in Socs
    /\ mpidr \in [CPUs -> CpuOrNone]
    /\ flag \in [CPUs -> Nat]
    /\ target \in [CPUs -> Functions]
    /\ args \in [CPUs -> IdOrNone]
    /\ retval \in [CPUs -> IdOrNone]
    /\ rsMpidr \in [CPUs -> CpuOrNone]
    /\ target_cpu \in CpuOrNone /\ reset_stack \in CpuOrNone /\ wfe_mode \in BOOLEAN
    /\ stop \in [CPUs -> [pending : BOOLEAN, deep : BOOLEAN, flag : Nat]]
    /\ started \subseteq CPUs /\ failed \subseteq CPUs
    /\ event \in [CPUs -> BOOLEAN] /\ ipi \in [CPUs -> BOOLEAN]
    /\ pc \in [CPUs -> Places]
    /\ index \in [CPUs -> CpuOrNone] /\ sp \in [CPUs -> CpuOrNone]
    /\ fn \in [CPUs -> Functions] /\ arg \in [CPUs -> IdOrNone]
    /\ boot \in BootLocals
    /\ nstart \in 0..MaxStarts /\ ncall \in IdOrNone /\ nmode \in 0..MaxModes
    /\ post \in [CPUs -> IdOrNone] /\ ran \in [Ids -> Nat]

\* A secondary that is past EntryIndex works on its own slot of the spin table, also when it
\* enters after smp_start_cpu has given up on it and has moved on to the next CPU
OwnSlot == \A c \in CPUs : pc[c] \notin {"off", "reset", "entry"} => index[c] = c

\* A secondary runs on its own stack, never on the one of the CPU being started meanwhile nor
\* on the shared dummy stack
OwnStack == \A c \in CPUs : pc[c] \notin {"off", "reset"} => sp[c] = c

\* A function runs at most once per accepted smp_call4, and with the arguments of the last
\* accepted call of its slot, whatever timeouts, retries and refused calls came in between
CallIntegrity ==
    /\ \A c \in CPUs : pc[c] \in {"run", "clear"} => arg[c] = post[c]
    /\ \A id \in Ids : ran[id] <= 1

\* When smp_wait reports success for a CPU that was given a call, the value it returns is the
\* result of that call and not of an earlier one
WaitResult ==
    boot.pc = "idle" /\ boot.op = "wait" /\ boot.ret = 0 =>
        (post[boot.i] # 0 => boot.val = post[boot.i])

\* A call runs once, with its own arguments, and smp_wait returns the result of the call that ran
\* last, whatever timed out, was retried or came late (smp_call4, smp_wait)
CallsSound == CallIntegrity /\ WaitResult

\* A call in flight is never overwritten: its target and arguments stay until its own CPU has
\* run it and clears the slot, or until a CPU that went to sleep is written off
InFlightPreserved ==
    [][\A i \in CPUs : target[i] # None =>
          \/ target'[i] = target[i] /\ args'[i] = args[i]
          \/ pc[i] = "clear" /\ args'[i] = args[i]
          \/ pc[i] \in {"asleep", "off"} /\ flag'[i] = 0]_vars

\* A CPU that smp_is_alive denies (so that smp_start_cpu would restart it and smp_call4 refuses
\* it) is not in the dispatch loop: it is off, asleep for good or still on its way in.  (A CPU
\* that enters only when it is already being started again has its entry wiped by the restart.)
DeadIsOut ==
    ~LateEntry => \A i \in CPUs : flag[i] = 0 =>
        pc[i] \in {"off", "asleep", "reset", "entry", "publish", "flag"}

\* smp_start_secondaries returns success on T8140 and T8152 only with every CPU alive: the
\* kernel handoff relies on it (payload.c)
StartReportsAll ==
    StartReports /\ boot.pc = "idle" /\ boot.op = "start" /\ boot.ret = 0 =>
        \A i \in CPUs : flag[i] # 0

\* A posted call is taken by its CPU: neither a change of the wake-up mode nor a wake-up sent
\* just before the CPU starts to wait is lost
CallTaken ==
    \A i \in CPUs : target[i] # None ~> (target[i] = None \/ pc[i] \in {"run", "asleep", "off"})
=============================================================================
