-------------------------------- MODULE Hv --------------------------------
(***************************************************************************)
(* The hypervisor's CPUs: the big lock bhl, exception entry and exit       *)
(* (hv_exc.c), the rendezvous, CPU switching and pinning, guest IPIs, and  *)
(* the life of a guest session from hv_start to hv_join_cpus (hv.c).       *)
(*                                                                         *)
(* The rendezvous polls 1000000 times and then panics.  The bound is taken *)
(* to be enough for a CPU that can leave the guest, so the panic is what   *)
(* happens in the states that RendezvousAnswered excludes.  An exception   *)
(* that hv_handle_msr_unlocked handles without the lock matters here only  *)
(* when it acknowledges an IPI.  stolen_time is a version number: every    *)
(* change gives a new value, up to MaxStolen.  No guard reads it.          *)
(***************************************************************************)
EXTENDS Integers, FiniteSets

CONSTANTS N,            \* CPUs are 0 (boot_cpu_idx) to N
          HostOps,      \* the proxy operations the host uses
          JoinTimeouts, \* whether smp_wait may give up on a CPU in hv_join_cpus
          PromptSpin,   \* a host round trip is long enough for every CPU that polls hv_want_cpu
          LateStart,    \* the host may start a CPU while hv_join_cpus goes through them
          AllStarted,   \* start in a session in which every CPU is in the guest
          MaxProxy,     \* bound on proxied exceptions and guest IPIs together
          MaxOps,       \* bound on host operations
          MaxSends,     \* bound on guest IPIs
          MaxSessions,  \* bound on calls of hv_start
          MaxStolen     \* bound on the values of stolen_time

ASSUME ConstantsAssumption ==
    /\ N \in Nat \ {0}
    /\ HostOps \subseteq {"switch", "pin", "exit", "start", "stealing", "time", "leave"}
    /\ JoinTimeouts \in BOOLEAN /\ PromptSpin \in BOOLEAN /\ LateStart \in BOOLEAN
    /\ AllStarted \in BOOLEAN
    /\ MaxProxy \in Nat /\ MaxOps \in Nat /\ MaxSends \in Nat /\ MaxSessions \in Nat
    /\ MaxStolen \in Nat

Boot == 0
CPUs == 0..N
NoCpu == -1

VARIABLES
    bhl,            \* the holder of the big lock, or NoCpu
    in_guest,       \* hv_cpus_in_guest
    started,        \* hv_started_cpus
    should_exit,    \* hv_should_exit
    pinned,         \* hv_pinned_cpu
    want,           \* hv_want_cpu
    time_stealing,
    stolen,         \* stolen_time
    cntvoff,        \* each CPU's CNTVOFF_EL2
    ipi_sr,         \* CPUs with a hardware IPI pending
    ipi_queued,     \* CPUs with a guest IPI on its way (pcpu.ipi_queued)
    ipi_pending,    \* CPUs with a guest IPI to see (pcpu.ipi_pending)
    vf,             \* CPUs whose HCR_EL2.VF asserts a virtual FIQ
    tick,           \* CPUs whose tick timer has expired
    pc, why, mine, then, inner, \* each CPU's place and locals
    slot,           \* each CPU's spin_table entry: hv_enter_secondary posted or running
    shutdown_failed, join,      \* hv_join_cpus: the CPU waited for, whether one failed
    nproxy, nops, nsends, nsessions

lock == <<bhl, in_guest>>
session == <<started, should_exit, slot, shutdown_failed, join, nsessions>>
switching == <<pinned, want>>
time == <<time_stealing, stolen, cntvoff>>
irqs == <<ipi_sr, ipi_queued, ipi_pending, vf, tick>>
locals == <<why, mine, then, inner>>
counts == <<nproxy, nops, nsends>>
vars == <<lock, session, switching, time, irqs, locals, pc, counts>>

Secondaries == CPUs \ {Boot}

Init ==
    /\ bhl = NoCpu
    /\ in_guest = IF AllStarted THEN CPUs ELSE {}
    /\ started = IF AllStarted THEN CPUs ELSE {}
    /\ should_exit = {}
    /\ pinned = NoCpu /\ want = NoCpu
    /\ time_stealing = TRUE
    /\ stolen = 0
    /\ cntvoff = [c \in CPUs |-> 0]
    /\ ipi_sr = {} /\ ipi_queued = {} /\ ipi_pending = {} /\ vf = {} /\ tick = {}
    /\ pc = [c \in CPUs |-> IF AllStarted THEN "guest" ELSE IF c = Boot THEN "host" ELSE "parked"]
    /\ why = [c \in CPUs |-> "none"]
    /\ mine = [c \in CPUs |-> FALSE]
    /\ then = [c \in CPUs |-> "none"]
    /\ inner = [c \in CPUs |-> "none"]
    /\ slot = [c \in CPUs |-> IF AllStarted /\ c # Boot THEN "running" ELSE "idle"]
    /\ shutdown_failed = FALSE
    /\ join = [cpu |-> 0, failed |-> FALSE]
    /\ nproxy = 0 /\ nops = 0 /\ nsends = 0
    /\ nsessions = IF AllStarted THEN 1 ELSE 0

-----------------------------------------------------------------------------
(* Helpers *)

Step(c, from, to) ==
    /\ pc[c] = from
    /\ pc' = [pc EXCEPT ![c] = to]

\* spin_lock(&bhl) and spin_unlock(&bhl): nothing here locks it twice
Lock(c) == bhl = NoCpu /\ bhl' = c
Unlock(c) == bhl' = NoCpu

\* hv_update_fiq, as far as the guest's IPI goes
UpdateFiq(c, pending) == vf' = IF c \in pending THEN vf \cup {c} ELSE vf \ {c}

\* (bound) one more proxied exception or guest IPI
Room == nproxy + nsends < MaxProxy

\* The CPU that polls for HV events
Interruptible == IF pinned = NoCpu THEN Boot ELSE pinned

-----------------------------------------------------------------------------
(* The guest and its environment *)

\* The tick timer expires.  One that expires inside the hypervisor is seen on the return.
Tick(c) ==
    /\ pc[c] = "guest" /\ c \notin tick
    /\ tick' = tick \cup {c}
    /\ UNCHANGED <<lock, session, switching, time, ipi_sr, ipi_queued, ipi_pending, vf, locals, pc,
                   counts>>

\* The guest writes IPI_SR: hv_handle_msr_unlocked, then hv_update_fiq
GuestIpiAck(c) ==
    /\ pc[c] = "guest" /\ c \in ipi_pending
    /\ ipi_pending' = ipi_pending \ {c}
    /\ UpdateFiq(c, ipi_pending')
    /\ UNCHANGED <<lock, session, switching, time, ipi_sr, ipi_queued, tick, locals, pc, counts>>

\* The guest writes IPI_RR: hv_exc_sync finds nothing to do without the lock
GuestSend(c) ==
    /\ Step(c, "guest", "entry")
    /\ nsends < MaxSends /\ Room /\ nsends' = nsends + 1
    /\ why' = [why EXCEPT ![c] = "send"]
    /\ UNCHANGED <<lock, session, switching, time, irqs, mine, then, inner, nproxy, nops>>

\* An exception for the host: hv_exc_irq, hv_exc_serr, or what hv_exc_sync does not handle
Trap(c) ==
    /\ Step(c, "guest", "entry")
    /\ Room /\ nproxy' = nproxy + 1
    /\ why' = [why EXCEPT ![c] = "trap"]
    /\ UNCHANGED <<lock, session, switching, time, irqs, mine, then, inner, nops, nsends>>

\* (mutant) a CPU that should leave takes its interrupts as usual
FiqNoExit(c) ==
    /\ c \in tick \cup ipi_sr
    /\ Step(c, "guest", "fiq")
    /\ tick' = tick \ {c}
    /\ why' = [why EXCEPT ![c] = IF c \in tick THEN "tick" ELSE "fiq"]
    /\ mine' = [mine EXCEPT ![c] = Interruptible = c]
    /\ UNCHANGED <<lock, session, switching, time, ipi_sr, ipi_queued, ipi_pending, vf, then, inner,
                   counts>>

\* hv_exc_fiq: hv_maybe_exit, then acknowledge the tick and read hv_pinned_cpu
Fiq(c) ==
    /\ c \in tick \cup ipi_sr
    /\ \/ /\ c \in should_exit
          /\ Step(c, "guest", "leave")
          /\ UNCHANGED <<tick, why, mine>>
       \/ /\ c \notin should_exit
          /\ Step(c, "guest", "fiq")
          /\ tick' = tick \ {c}
          /\ why' = [why EXCEPT ![c] = IF c \in tick THEN "tick" ELSE "fiq"]
          /\ mine' = [mine EXCEPT ![c] = Interruptible = c]
    /\ UNCHANGED <<lock, session, switching, time, ipi_sr, ipi_queued, ipi_pending, vf, then, inner,
                   counts>>

\* (mutant) a CPU that is wanted takes the fast path too
FiqFastWanted(c) ==
    /\ ~mine[c] /\ c \notin ipi_sr
    /\ Step(c, "fiq", "guest")
    /\ UpdateFiq(c, ipi_pending)
    /\ why' = [why EXCEPT ![c] = "none"]
    /\ UNCHANGED <<lock, session, switching, time, ipi_sr, ipi_queued, ipi_pending, tick, mine, then,
                   inner, counts>>

\* The fast path of a CPU that only had a tick
FiqFast(c) ==
    /\ ~mine[c] /\ c \notin ipi_sr /\ want = NoCpu
    /\ Step(c, "fiq", "guest")
    /\ UpdateFiq(c, ipi_pending)
    /\ why' = [why EXCEPT ![c] = "none"]
    /\ UNCHANGED <<lock, session, switching, time, ipi_sr, ipi_queued, ipi_pending, tick, mine, then,
                   inner, counts>>

FiqSlow(c) ==
    /\ mine[c] \/ c \in ipi_sr \/ want # NoCpu
    /\ Step(c, "fiq", "entry")
    /\ UNCHANGED <<lock, session, switching, time, irqs, locals, counts>>

-----------------------------------------------------------------------------
(* Entry and exit *)

\* hv_exc_entry: out of the guest, then the lock
ExcEntry(c) ==
    /\ Step(c, "entry", "locking")
    /\ in_guest' = in_guest \ {c}
    /\ UNCHANGED <<bhl, session, switching, time, irqs, locals, counts>>

\* The reason decides what happens under the lock
Handler(k) == CASE k = "send" -> "send"
                [] k = "trap" -> "px_wait"
                [] k \in {"tick", "fiq"} -> "fiq_tick"

\* (mutant) go on without the lock
ExcLockFree(c) ==
    /\ Step(c, "locking", Handler(why[c]))
    /\ then' = [then EXCEPT ![c] = IF why[c] = "trap" THEN "exit" ELSE "none"]
    /\ UNCHANGED <<lock, session, switching, time, irqs, why, mine, inner, counts>>

ExcLock(c) ==
    /\ Lock(c)
    /\ Step(c, "locking", Handler(why[c]))
    /\ then' = [then EXCEPT ![c] = IF why[c] = "trap" THEN "exit" ELSE "none"]
    /\ UNCHANGED <<in_guest, session, switching, time, irqs, why, mine, inner, counts>>

\* hv_handle_msr: queue the guest's IPI for d and send it
SendIpi(c) ==
    /\ Step(c, "send", "exit")
    /\ \E d \in CPUs :
        /\ ipi_queued' = ipi_queued \cup {d}
        /\ ipi_sr' = ipi_sr \cup {d}
    /\ UNCHANGED <<lock, session, switching, time, ipi_pending, vf, tick, locals, counts>>

\* hv_tick on the interruptible CPU: the host has sent something
FiqTick(c) ==
    /\ \/ /\ why[c] = "tick" /\ mine[c] /\ pinned \in {NoCpu, c}
          /\ Room /\ nproxy' = nproxy + 1
          /\ Step(c, "fiq_tick", "px_wait")
          /\ then' = [then EXCEPT ![c] = "fiq_timer"]
       \/ /\ Step(c, "fiq_tick", "fiq_timer")
          /\ UNCHANGED <<then, nproxy>>
    /\ UNCHANGED <<lock, session, switching, time, irqs, why, mine, inner, nops, nsends>>

\* The virtual timer or the uncore PMU wants the host's attention
FiqTimer(c) ==
    /\ \/ /\ Room /\ nproxy' = nproxy + 1
          /\ Step(c, "fiq_timer", "px_wait")
          /\ then' = [then EXCEPT ![c] = "fiq_ipi"]
       \/ /\ Step(c, "fiq_timer", "fiq_ipi")
          /\ UNCHANGED <<then, nproxy>>
    /\ UNCHANGED <<lock, session, switching, time, irqs, why, mine, inner, nops, nsends>>

\* (mutant) acknowledge the IPI without looking for one that is queued
FiqIpiDrop(c) ==
    /\ Step(c, "fiq_ipi", "sw_check")
    /\ then' = [then EXCEPT ![c] = "exit"]
    /\ ipi_sr' = ipi_sr \ {c}
    /\ UNCHANGED <<lock, session, switching, time, ipi_queued, ipi_pending, vf, tick, why, mine, inner,
                   counts>>

\* Acknowledge the IPI and hand a queued one to the guest
FiqIpi(c) ==
    /\ Step(c, "fiq_ipi", "sw_check")
    /\ then' = [then EXCEPT ![c] = "exit"]
    /\ ipi_sr' = ipi_sr \ {c}
    /\ IF c \in ipi_sr /\ c \in ipi_queued
       THEN ipi_pending' = ipi_pending \cup {c} /\ ipi_queued' = ipi_queued \ {c}
       ELSE UNCHANGED <<ipi_pending, ipi_queued>>
    /\ UNCHANGED <<lock, session, switching, time, vf, tick, why, mine, inner, counts>>

\* hv_exc_exit, to the unlock
ExcExit(c) ==
    /\ Step(c, "exit", "exit_check")
    /\ Unlock(c)
    /\ UpdateFiq(c, ipi_pending)
    /\ cntvoff' = [cntvoff EXCEPT ![c] = stolen]
    /\ why' = [why EXCEPT ![c] = "none"]
    /\ mine' = [mine EXCEPT ![c] = FALSE]
    /\ then' = [then EXCEPT ![c] = "none"]
    /\ inner' = [inner EXCEPT ![c] = "none"]
    /\ UNCHANGED <<in_guest, session, switching, time_stealing, stolen, ipi_sr, ipi_queued,
                   ipi_pending, tick, counts>>

\* hv_maybe_exit
ExitCheck(c) ==
    /\ Step(c, "exit_check", IF c \in should_exit THEN "leave" ELSE "exit_mark")
    /\ UNCHANGED <<lock, session, switching, time, irqs, locals, counts>>

ExitGuest(c) ==
    /\ Step(c, "exit_mark", "guest")
    /\ in_guest' = in_guest \cup {c}
    /\ UNCHANGED <<bhl, session, switching, time, irqs, locals, counts>>

-----------------------------------------------------------------------------
(* The proxy.  then is where hv_exc_proxy returns to, inner where          *)
(* _hv_exc_proxy does.                                                     *)

\* hv_exc_proxy waits while another CPU is pinned or any CPU is switched to
Blocked(c) == pinned \notin {NoCpu, c} \/ want # NoCpu

\* A CPU that is switched to takes the request and runs the proxy
TakeSwitch(c, from) ==
    /\ want = c /\ want' = NoCpu
    /\ Step(c, from, "proxy_rdv")
    /\ inner' = [inner EXCEPT ![c] = from]
    /\ UNCHANGED <<lock, session, pinned, time, irqs, why, mine, then, counts>>

\* Another CPU is wanted: give it the lock
Yield(c, from, to) ==
    /\ want # c
    /\ Step(c, from, to)
    /\ Unlock(c)
    /\ UNCHANGED <<in_guest, session, switching, time, irqs, locals, counts>>

PxWait(c) ==
    \/ Blocked(c) /\ TakeSwitch(c, "px_wait")
    \/ Blocked(c) /\ Yield(c, "px_wait", "px_spin")
    \/ /\ ~Blocked(c)
       /\ Step(c, "px_wait", "proxy_rdv")
       /\ inner' = [inner EXCEPT ![c] = "sw_check"]
       /\ UNCHANGED <<lock, session, switching, time, irqs, why, mine, then, counts>>

PxSpin(c) ==
    /\ ~Blocked(c)
    /\ Step(c, "px_spin", "px_lock")
    /\ UNCHANGED <<lock, session, switching, time, irqs, locals, counts>>

PxLock(c) ==
    /\ Lock(c)
    /\ Step(c, "px_lock", "px_wait")
    /\ UNCHANGED <<in_guest, session, switching, time, irqs, locals, counts>>

\* hv_maybe_switch_cpu
SwCheck(c) ==
    \/ want # NoCpu /\ TakeSwitch(c, "sw_check")
    \/ want # NoCpu /\ Yield(c, "sw_check", "sw_spin")
    \/ /\ want = NoCpu
       /\ Step(c, "sw_check", then[c])
       /\ UNCHANGED <<lock, session, switching, time, irqs, locals, counts>>

SwSpin(c) ==
    /\ want = NoCpu
    /\ Step(c, "sw_spin", "sw_lock")
    /\ UNCHANGED <<lock, session, switching, time, irqs, locals, counts>>

SwLock(c) ==
    /\ Lock(c)
    /\ Step(c, "sw_lock", "sw_check")
    /\ UNCHANGED <<in_guest, session, switching, time, irqs, locals, counts>>

\* (mutant) the other CPUs are not interrupted
RendezvousQuiet(c, from, wait, to) ==
    \/ /\ Step(c, from, IF in_guest = {} THEN to ELSE wait)
       /\ UNCHANGED <<lock, session, switching, time, irqs, locals, counts>>
    \/ /\ in_guest = {}
       /\ Step(c, wait, to)
       /\ UNCHANGED <<lock, session, switching, time, irqs, locals, counts>>

\* hv_rendezvous, called before the proxy runs, by hv_switch_cpu and before hv_exit_guest
Rendezvous(c, from, wait, to) ==
    \/ /\ in_guest = {}
       /\ Step(c, from, to)
       /\ UNCHANGED <<lock, session, switching, time, irqs, locals, counts>>
    \/ /\ in_guest # {}
       /\ Step(c, from, wait)
       /\ ipi_sr' = ipi_sr \cup (started \ {c})
       /\ UNCHANGED <<lock, session, switching, time, ipi_queued, ipi_pending, vf, tick, locals,
                      counts>>
    \/ /\ in_guest = {}
       /\ Step(c, wait, to)
       /\ UNCHANGED <<lock, session, switching, time, irqs, locals, counts>>

\* _hv_exc_proxy, up to uartproxy_run
ProxyEnter(c) ==
    \/ /\ time_stealing
       /\ Rendezvous(c, "proxy_rdv", "proxy_wait", "proxy")
    \/ /\ ~time_stealing
       /\ Step(c, "proxy_rdv", "proxy")
       /\ UNCHANGED <<lock, session, switching, time, irqs, locals, counts>>

\* EXC_RET_HANDLED
HostReturn(c) ==
    /\ Step(c, "proxy", inner[c])
    /\ stolen' = IF time_stealing /\ stolen < MaxStolen THEN stolen + 1 ELSE stolen
    /\ UNCHANGED <<lock, session, switching, time_stealing, cntvoff, irqs, locals, counts>>

\* EXC_EXIT_GUEST
HostLeave(c) ==
    /\ "leave" \in HostOps
    /\ Step(c, "proxy", "leave_rdv")
    /\ UNCHANGED <<lock, started, should_exit, slot, shutdown_failed, join, nsessions, switching, time,
                   irqs, locals, counts>>

LeaveRendezvous(c) == Rendezvous(c, "leave_rdv", "leave_wait", "leave_unlock")

LeaveUnlock(c) ==
    /\ Step(c, "leave_unlock", "leave")
    /\ Unlock(c)
    /\ why' = [why EXCEPT ![c] = "none"]
    /\ mine' = [mine EXCEPT ![c] = FALSE]
    /\ then' = [then EXCEPT ![c] = "none"]
    /\ inner' = [inner EXCEPT ![c] = "none"]
    /\ UNCHANGED <<in_guest, session, switching, time, irqs, counts>>

HostOp(c, op) ==
    /\ op \in HostOps
    /\ nops < MaxOps /\ nops' = nops + 1
    /\ pc[c] = "proxy"

\* No CPU that polls hv_want_cpu and hv_pinned_cpu has still to see that it may go on
SpinsSeen == \A d \in CPUs : /\ pc[d] = "px_spin" => Blocked(d)
                             /\ pc[d] = "sw_spin" => want # NoCpu

\* hv_switch_cpu
HostSwitch(c, d) ==
    /\ HostOp(c, "switch")
    /\ PromptSpin => SpinsSeen
    /\ d \in started
    /\ want' = d
    /\ pc' = [pc EXCEPT ![c] = "switch_rdv"]
    /\ UNCHANGED <<lock, session, pinned, time, irqs, locals, nproxy, nsends>>

SwitchRendezvous(c) == Rendezvous(c, "switch_rdv", "switch_wait", "proxy")

\* hv_pin_cpu
HostPin(c, d) ==
    /\ HostOp(c, "pin")
    /\ pinned' = d
    /\ UNCHANGED <<lock, session, want, time, irqs, locals, pc, nproxy, nsends>>

\* hv_exit_cpu, for any CPU: one that is not started yet leaves as soon as it is
HostExitCpu(c, d) ==
    /\ HostOp(c, "exit")
    /\ should_exit' = should_exit \cup {d}
    /\ UNCHANGED <<lock, started, slot, shutdown_failed, join, nsessions, switching, time, irqs,
                   locals, pc, nproxy, nsends>>

\* hv_set_time_stealing
HostStealing(c, b) ==
    /\ HostOp(c, "stealing")
    /\ time_stealing' = b
    /\ UNCHANGED <<lock, session, switching, stolen, cntvoff, irqs, locals, pc, nproxy, nsends>>

\* hv_add_time
HostAddTime(c) ==
    /\ HostOp(c, "time")
    /\ stolen' = IF stolen < MaxStolen THEN stolen + 1 ELSE stolen
    /\ UNCHANGED <<lock, session, switching, time_stealing, cntvoff, irqs, locals, pc, nproxy, nsends>>

\* Where the boot CPU is in hv_join_cpus's loop or done with it
Joining == {"join_check", "join_wait", "join_clear", "host"}

\* hv_start_secondary: a CPU that is busy refuses hv_init_secondary, an idle one takes it (which
\* sets its HCR_EL2) and is then sent to the guest; that call may be acknowledged or not
HostStart(c, d) ==
    /\ HostOp(c, "start")
    /\ LateStart \/ pc[Boot] \notin Joining
    /\ slot[d] = "idle"
    /\ started' = started \cup {d}
    /\ in_guest' = in_guest \cup {d}
    /\ slot' = [slot EXCEPT ![d] = "posted"]
    /\ vf' = vf \ {d}
    /\ UNCHANGED <<bhl, should_exit, shutdown_failed, join, nsessions, switching, time, ipi_sr,
                   ipi_queued, ipi_pending, tick, locals, pc, nproxy, nsends>>

-----------------------------------------------------------------------------
(* The session *)

\* The dispatcher calls hv_enter_secondary
EnterSecondary(d) ==
    /\ slot[d] = "posted" /\ slot' = [slot EXCEPT ![d] = "running"]
    /\ Step(d, "parked", "guest")
    /\ UNCHANGED <<lock, started, should_exit, shutdown_failed, join, nsessions, switching,
                   time, irqs, locals, counts>>

\* hv_enter_secondary after hv_exit_guest: lock, forget the CPU, unlock
LeaveSecondary(d) ==
    /\ bhl = NoCpu
    /\ Step(d, "leave", "left")
    /\ in_guest' = in_guest \ {d}
    /\ started' = started \ {d}
    /\ UNCHANGED <<bhl, should_exit, slot, shutdown_failed, join, nsessions, switching, time,
                   irqs, locals, counts>>

\* and returns to the dispatcher
Park(d) ==
    /\ Step(d, "left", "parked")
    /\ slot' = [slot EXCEPT ![d] = "idle"]
    /\ tick' = tick \ {d}
    /\ UNCHANGED <<lock, started, should_exit, shutdown_failed, join, nsessions, switching,
                   time, ipi_sr, ipi_queued, ipi_pending, vf, locals, counts>>

\* hv_start (after hv_init, which sets HCR_EL2)
HvStart ==
    /\ ~shutdown_failed
    /\ nsessions < MaxSessions /\ nsessions' = nsessions + 1
    /\ Step(Boot, "host", "guest")
    /\ should_exit' = {}
    /\ started' = {Boot} /\ in_guest' = {Boot}
    /\ pinned' = NoCpu /\ want' = NoCpu
    /\ vf' = vf \ {Boot}
    /\ UNCHANGED <<bhl, slot, shutdown_failed, join, time, ipi_sr, ipi_queued, ipi_pending, tick,
                   locals, counts>>

\* hv_init and hv_start join a session that failed to stop before they do anything else
HvCleanup ==
    /\ shutdown_failed
    /\ Step(Boot, "host", "join_flag")
    /\ UNCHANGED <<lock, session, switching, time, irqs, locals, counts>>

\* hv_start after hv_exit_guest
BootOut ==
    /\ Step(Boot, "leave", "boot_lock")
    /\ in_guest' = in_guest \ {Boot}
    /\ UNCHANGED <<bhl, session, switching, time, irqs, locals, counts>>

BootStopped ==
    /\ bhl = NoCpu
    /\ Step(Boot, "boot_lock", "join_flag")
    /\ started' = started \ {Boot}
    /\ tick' = tick \ {Boot}
    /\ UNCHANGED <<lock, should_exit, slot, shutdown_failed, join, nsessions, switching, time,
                   ipi_sr, ipi_queued, ipi_pending, vf, locals, counts>>

\* hv_join_cpus up to its loop: all CPUs are told, and the watchdog's loop may not stop in time
JoinFlag ==
    /\ bhl = NoCpu
    /\ Step(Boot, "join_flag", "join_check")
    /\ should_exit' = CPUs
    /\ \E failed \in BOOLEAN :
        /\ failed => JoinTimeouts
        /\ join' = [cpu |-> 1, failed |-> failed]
    /\ UNCHANGED <<lock, started, slot, shutdown_failed, nsessions, switching, time, irqs, locals,
                   counts>>

JoinCheck ==
    /\ bhl = NoCpu
    /\ join.cpu \in CPUs
    /\ IF join.cpu \in started
       THEN Step(Boot, "join_check", "join_wait") /\ UNCHANGED join
       ELSE Step(Boot, "join_check", "join_check") /\ join' = [join EXCEPT !.cpu = @ + 1]
    /\ UNCHANGED <<lock, started, should_exit, slot, shutdown_failed, nsessions, switching,
                   time, irqs, locals, counts>>

\* smp_wait returns
JoinWaited ==
    /\ Step(Boot, "join_wait", "join_clear")
    /\ slot[join.cpu] = "idle"
    /\ UNCHANGED <<lock, session, switching, time, irqs, locals, counts>>

JoinClear ==
    /\ bhl = NoCpu
    /\ Step(Boot, "join_clear", "join_check")
    /\ started' = started \ {join.cpu}
    /\ join' = [join EXCEPT !.cpu = @ + 1]
    /\ UNCHANGED <<lock, should_exit, slot, shutdown_failed, nsessions, switching, time, irqs,
                   locals, counts>>

\* (mutant) a CPU that did not leave is not reported
JoinTimeoutQuiet ==
    /\ JoinTimeouts
    /\ Step(Boot, "join_wait", "join_check")
    /\ slot[join.cpu] # "idle"
    /\ join' = [join EXCEPT !.cpu = @ + 1]
    /\ UNCHANGED <<lock, started, should_exit, slot, shutdown_failed, nsessions, switching,
                   time, irqs, locals, counts>>

\* smp_wait gives up
JoinTimeout ==
    /\ JoinTimeouts
    /\ Step(Boot, "join_wait", "join_check")
    /\ slot[join.cpu] # "idle"
    /\ join' = [cpu |-> join.cpu + 1, failed |-> TRUE]
    /\ UNCHANGED <<lock, started, should_exit, slot, shutdown_failed, nsessions, switching,
                   time, irqs, locals, counts>>

JoinDone ==
    /\ join.cpu = N + 1
    /\ Step(Boot, "join_check", "host")
    /\ shutdown_failed' = join.failed
    /\ join' = [cpu |-> 0, failed |-> FALSE]
    /\ UNCHANGED <<lock, started, should_exit, slot, nsessions, switching, time, irqs, locals,
                   counts>>

-----------------------------------------------------------------------------

\* What a CPU does on its own inside the hypervisor
Run(c) ==
    \/ FiqFast(c) \/ FiqSlow(c) \/ ExcEntry(c) \/ ExcLock(c) \/ SendIpi(c)
    \/ FiqTick(c) \/ FiqTimer(c) \/ FiqIpi(c) \/ ExcExit(c) \/ ExitCheck(c) \/ ExitGuest(c)
    \/ PxWait(c) \/ PxSpin(c) \/ PxLock(c) \/ SwCheck(c) \/ SwSpin(c) \/ SwLock(c)
    \/ ProxyEnter(c) \/ LeaveRendezvous(c) \/ LeaveUnlock(c) \/ SwitchRendezvous(c)

RunSecondary(d) == EnterSecondary(d) \/ LeaveSecondary(d) \/ Park(d)

RunBoot ==
    \/ BootOut \/ BootStopped
    \/ JoinFlag \/ JoinCheck \/ JoinWaited \/ JoinClear \/ JoinDone

Guest(c) == GuestIpiAck(c) \/ GuestSend(c) \/ Trap(c)

Host(c) ==
    \/ HostLeave(c) \/ HostAddTime(c)
    \/ \E d \in CPUs : HostSwitch(c, d) \/ HostExitCpu(c, d)
    \/ \E d \in CPUs \cup {NoCpu} : HostPin(c, d)
    \/ \E b \in BOOLEAN : HostStealing(c, b)
    \/ \E d \in Secondaries : HostStart(c, d)

Next ==
    \/ \E c \in CPUs : Run(c) \/ Guest(c) \/ Host(c) \/ HostReturn(c) \/ Tick(c) \/ Fiq(c)
    \/ \E d \in Secondaries : RunSecondary(d)
    \/ RunBoot \/ HvStart \/ HvCleanup \/ JoinTimeout

Spec == Init /\ [][Next]_vars

\* A CPU inside the hypervisor keeps running, its timer ticks, interrupts are taken and the host
\* answers.  The lock is not fair: nothing says that a CPU that wants it gets it.
Fairness ==
    /\ \A c \in CPUs : WF_vars(Run(c)) /\ WF_vars(HostReturn(c)) /\ WF_vars(Tick(c)) /\ WF_vars(Fiq(c))
    /\ \A d \in Secondaries : WF_vars(RunSecondary(d))
    /\ WF_vars(RunBoot)

FairSpec == Spec /\ Fairness

-----------------------------------------------------------------------------
(* Properties *)

Places == {"guest", "fiq", "entry", "locking", "send", "fiq_tick", "fiq_timer", "fiq_ipi", "exit",
           "exit_check", "exit_mark", "px_wait", "px_spin", "px_lock", "sw_check", "sw_spin",
           "sw_lock", "proxy_rdv", "proxy_wait", "proxy", "switch_rdv", "switch_wait", "leave_rdv",
           "leave_wait", "leave_unlock", "leave", "left", "parked", "host", "boot_lock", "join_flag",
           "join_check", "join_wait", "join_clear"}

\* Where a CPU holds the lock
Locked == {"send", "fiq_tick", "fiq_timer", "fiq_ipi", "exit", "px_wait", "sw_check", "proxy_rdv",
           "proxy_wait", "proxy", "switch_rdv", "switch_wait", "leave_rdv", "leave_wait",
           "leave_unlock"}

\* The state has its type: the sets are sets of CPUs and the variables name CPUs that exist
TypeOK ==
    /\ bhl \in CPUs \cup {NoCpu} /\ pinned \in CPUs \cup {NoCpu} /\ want \in CPUs \cup {NoCpu}
    /\ in_guest \subseteq CPUs /\ started \subseteq CPUs /\ should_exit \subseteq CPUs
    /\ ipi_sr \subseteq CPUs /\ ipi_queued \subseteq CPUs /\ ipi_pending \subseteq CPUs
    /\ vf \subseteq CPUs /\ tick \subseteq CPUs
    /\ time_stealing \in BOOLEAN /\ stolen \in Nat /\ cntvoff \in [CPUs -> Nat]
    /\ pc \in [CPUs -> Places]
    /\ why \in [CPUs -> {"none", "send", "trap", "tick", "fiq"}]
    /\ mine \in [CPUs -> BOOLEAN]
    /\ then \in [CPUs -> {"none", "exit", "fiq_timer", "fiq_ipi"}]
    /\ inner \in [CPUs -> {"none", "px_wait", "sw_check"}]
    /\ slot \in [CPUs -> {"idle", "posted", "running"}]
    /\ shutdown_failed \in BOOLEAN
    /\ join \in [cpu : 0..N + 1, failed : BOOLEAN]
    /\ nproxy \in Nat /\ nops \in Nat /\ nsends \in Nat /\ nsessions \in Nat

\* The CPU in a locked section is the holder of bhl, so one CPU at most runs a handler or the
\* proxy, through every yield to a CPU that is switched to and every exit from the guest
LockedAlone == \A c \in CPUs : pc[c] \in Locked <=> bhl = c

\* A CPU that executes guest code is announced in hv_cpus_in_guest: a rendezvous never overlooks
\* one that is running
GuestMarked == \A c \in CPUs : pc[c] \in {"guest", "fiq"} => c \in in_guest

\* A guest IPI that is queued has its hardware IPI still to come: no FIQ acknowledges the
\* interrupt and leaves the guest's IPI behind (hv_handle_msr against hv_exc_fiq)
IpiNotLost == ipi_queued \subseteq ipi_sr

\* hv_start finds no CPU of an earlier session in the guest or on its way there ("Keep shared
\* guest state intact until a previous session has joined", hv_init)
SessionJoined ==
    pc[Boot] = "host" /\ ~shutdown_failed =>
        \A d \in Secondaries : pc[d] \in {"parked", "left"} /\ slot[d] # "posted"

\* A CPU in the guest is announced as long as it is there, so that a rendezvous overlooks none, and hv_start finds
\* no CPU of an earlier session there or on its way (hv_cpus_in_guest, hv_init)
SessionSafe == GuestMarked /\ SessionJoined

\* Two CPUs in the guest have the same time offset ("make sure they all exit to the guest with
\* a consistent time offset", _hv_exc_proxy)
TimeConsistent == \A c, d \in CPUs : pc[c] = "guest" /\ pc[d] = "guest" => cntvoff[c] = cntvoff[d]

\* A CPU that waits in a rendezvous holds bhl, so no CPU it waits for may be waiting for bhl: it
\* would end in "HV: Failed to rendezvous" (hv_rendezvous)
RendezvousAnswered ==
    \A c, d \in CPUs : pc[c] \in {"proxy_wait", "switch_wait", "leave_wait"} /\ d \in in_guest
                       => pc[d] # "leave"

\* A CPU that is switched to reaches the proxy, wherever it is (hv_switch_cpu, hv_maybe_switch_cpu), except in
\* the inner loop of hv_exc_proxy, which waits for hv_want_cpu to be -1 whoever is wanted: there it waits, and
\* every other CPU for it, for ever
SwitchServed == \A d \in CPUs : want = d /\ pc[d] # "px_spin" ~> want # d

\* Every rendezvous ends before the next begins: each CPU in the guest is brought into the hypervisor
\* (hv_rendezvous)
RendezvousEnds ==
    LET waiting == \E c \in CPUs : pc[c] \in {"proxy_wait", "switch_wait", "leave_wait"}
    IN  waiting ~> ~waiting

\* hv_join_cpus gets every CPU out of the guest and comes back to the host
JoinEnds == pc[Boot] = "join_flag" ~> pc[Boot] = "host"
=============================================================================
