------------------------------ MODULE HvProof ------------------------------
(***************************************************************************)
(* Proofs about Hv, for any number of CPUs, any set of host operations and *)
(* any bounds.                                                             *)
(***************************************************************************)
EXTENDS Hv, TLAPS

\* Where a CPU is in _hv_exc_proxy
Proxying == {"proxy_rdv", "proxy_wait", "proxy", "switch_rdv", "switch_wait", "leave_rdv",
             "leave_wait"}

\* The return addresses are set where they are used
Returns ==
    /\ \A c \in CPUs : pc[c] \in {"fiq", "entry", "locking"} => why[c] # "none"
    /\ \A c \in CPUs : pc[c] \in Proxying => inner[c] # "none"
    /\ \A c \in CPUs : pc[c] \in Proxying \cup {"px_wait", "px_spin", "px_lock", "sw_check", "sw_spin",
                                               "sw_lock"} => then[c] # "none"

\* hv_join_cpus looks at CPUs that exist
JoinRange ==
    /\ pc[Boot] = "join_check" => join.cpu \in 1..N + 1
    /\ pc[Boot] \in {"join_wait", "join_clear"} => join.cpu \in 1..N

LockInv == TypeOK /\ LockedAlone /\ Returns /\ JoinRange /\ IpiNotLost

\* The first session, or none, satisfies the invariant
LEMMA LockInit == Init => LockInv
  <1> SUFFICES ASSUME Init PROVE LockInv
    BY Zenon
  <1> USE ConstantsAssumption
  <1>1. TypeOK
    <2>1. 0 \in CPUs
      BY DEF CPUs
    <2>2. pc \in [CPUs -> Places] /\ slot \in [CPUs -> {"idle", "posted", "running"}]
      BY Zenon DEF Init, Places
    <2>3. cntvoff \in [CPUs -> Nat] /\ mine \in [CPUs -> BOOLEAN]
      BY Zenon DEF Init
    <2>4. why \in [CPUs -> {"none", "send", "trap", "tick", "fiq"}]
      BY Zenon DEF Init
    <2>5. then \in [CPUs -> {"none", "exit", "fiq_timer", "fiq_ipi"}]
      BY Zenon DEF Init
    <2>6. inner \in [CPUs -> {"none", "px_wait", "sw_check"}]
      BY Zenon DEF Init
    <2>7. join \in [cpu : 0..N + 1, failed : BOOLEAN]
      BY DEF Init
    <2>8. nsessions \in Nat /\ in_guest \subseteq CPUs /\ started \subseteq CPUs
      BY Zenon DEF Init
    <2> QED
      BY <2>1, <2>2, <2>3, <2>4, <2>5, <2>6, <2>7, <2>8, ZenonT(30) DEF Init, TypeOK
  <1>2. LockedAlone
    BY DEF Init, LockedAlone, Locked, CPUs, NoCpu
  <1>3. Returns /\ JoinRange /\ IpiNotLost
    BY DEF Init, Returns, Proxying, JoinRange, IpiNotLost, Boot, CPUs
  <1> QED
    BY <1>1, <1>2, <1>3, Zenon DEF LockInv

\* A CPU that goes from place to place in or out of the locked sections keeps the lock as it is
LEMMA KeepLock ==
    ASSUME pc \in [CPUs -> Places], LockedAlone, NEW c \in CPUs, NEW x \in Places, pc' = [pc EXCEPT ![c] = x],
           bhl' = bhl, pc[c] \in Locked <=> x \in Locked
    PROVE  LockedAlone'
  BY Zenon DEF LockedAlone

\* A step that does not lead into hv_join_cpus's loop does not matter to it
LEMMA KeepJoin ==
    ASSUME pc \in [CPUs -> Places], JoinRange, NEW c \in CPUs, NEW x, pc' = [pc EXCEPT ![c] = x], join' = join,
           x \notin {"join_check", "join_wait", "join_clear"}
    PROVE  JoinRange'
  <1>1. Boot \in CPUs
    BY ConstantsAssumption DEF Boot, CPUs
  <1> QED
    BY <1>1, Zenon DEF JoinRange

\* hv_rendezvous waits or goes on, holding the lock, and only sends interrupts
LEMMA RendezvousMoves ==
    ASSUME NEW c \in CPUs, NEW from, NEW wait, NEW to, Rendezvous(c, from, wait, to)
    PROVE  /\ pc[c] \in {from, wait}
           /\ pc' = [pc EXCEPT ![c] = wait] \/ pc' = [pc EXCEPT ![c] = to]
           /\ ipi_sr' = ipi_sr \/ ipi_sr' = ipi_sr \cup (started \ {c})
           /\ UNCHANGED <<lock, session, switching, time, ipi_queued, ipi_pending, vf, tick, locals,
                          counts>>
  BY Zenon DEF Rendezvous, Step, irqs

\* hv_exc_entry goes on with a handler
LEMMA HandlerLocked ==
    ASSUME NEW k \in {"send", "trap", "tick", "fiq"}
    PROVE  Handler(k) \in {"send", "px_wait", "fiq_tick"}
  BY Zenon DEF Handler

\* --- Each part of the invariant is kept by every step

\* Every step keeps the types
LEMMA TypeStep == LockInv /\ [Next]_vars => TypeOK'
  <1> SUFFICES ASSUME LockInv, [Next]_vars PROVE TypeOK'
    BY Zenon
  <1> USE ConstantsAssumption DEF LockInv, TypeOK, Places
  <1>1. CASE UNCHANGED vars
    BY <1>1, ZenonT(30) DEF vars, counts, irqs, locals, lock, session, switching, time
  <1>2. ASSUME NEW c \in CPUs, Run(c) PROVE TypeOK'
    <2>1. CASE FiqFast(c)
      BY <2>1 DEF FiqFast, Step, UpdateFiq, counts, lock, session, switching, time
    <2>2. CASE FiqSlow(c)
      BY <2>2, Zenon DEF FiqSlow, Step, counts, irqs, locals, lock, session, switching, time
    <2>3. CASE ExcEntry(c)
      BY <2>3, Zenon DEF ExcEntry, Step, counts, irqs, locals, session, switching, time
    <2>4. CASE ExcLock(c)
      <3>1. why[c] \in {"send", "trap", "tick", "fiq"}
        BY <2>4, Zenon DEF ExcLock, Step, Returns
      <3>2. Handler(why[c]) \in {"send", "px_wait", "fiq_tick"}
        BY <3>1, HandlerLocked, Zenon
      <3> QED
        BY <2>4, <3>2, ZenonT(30) DEF ExcLock, Step, Lock, irqs, session, switching, time, counts
    <2>5. CASE SendIpi(c)
      BY <2>5 DEF SendIpi, Step, counts, locals, lock, session, switching, time
    <2>6. CASE FiqTick(c)
      BY <2>6 DEF FiqTick, Step, irqs, lock, session, switching, time
    <2>7. CASE FiqTimer(c)
      BY <2>7 DEF FiqTimer, Step, irqs, lock, session, switching, time
    <2>8. CASE FiqIpi(c)
      BY <2>8 DEF FiqIpi, Step, counts, lock, session, switching, time
    <2>9. CASE ExcExit(c)
      BY <2>9 DEF ExcExit, Step, Unlock, UpdateFiq, counts, session, switching
    <2>10. CASE ExitCheck(c)
      BY <2>10, Zenon DEF ExitCheck, Step, counts, irqs, locals, lock, session, switching, time
    <2>11. CASE ExitGuest(c)
      BY <2>11 DEF ExitGuest, Step, counts, irqs, locals, session, switching, time
    <2>12. CASE PxWait(c)
      BY <2>12 DEF PxWait, Step, TakeSwitch, counts, irqs, lock, session, time, Yield, Unlock,
             locals, switching, Blocked
    <2>13. CASE PxSpin(c)
      BY <2>13, Zenon DEF PxSpin, Step, Blocked, counts, irqs, locals, lock, session, switching, time
    <2>14. CASE PxLock(c)
      BY <2>14, Zenon DEF PxLock, Step, Lock, counts, irqs, locals, session, switching, time
    <2>15. CASE SwCheck(c)
      <3>1. CASE want = NoCpu
        BY <2>15, <3>1 DEF SwCheck, TakeSwitch, Yield, Step, Returns, lock, session, switching, time, irqs, locals, counts, Unlock
      <3>2. CASE TakeSwitch(c, "sw_check")
        BY <3>2, Zenon DEF TakeSwitch, Step, lock, session, time, irqs, counts
      <3>3. CASE Yield(c, "sw_check", "sw_spin")
        BY <3>3, Zenon DEF Yield, Step, Unlock, session, switching, time, irqs, locals, counts
      <3> QED
        BY <2>15, <3>1, <3>2, <3>3, Zenon DEF SwCheck
    <2>16. CASE SwSpin(c)
      BY <2>16, Zenon DEF SwSpin, Step, counts, irqs, locals, lock, session, switching, time
    <2>17. CASE SwLock(c)
      BY <2>17, Zenon DEF SwLock, Step, Lock, counts, irqs, locals, session, switching, time
    <2>18. CASE ProxyEnter(c)
      <3>1. CASE ~time_stealing
        BY <2>18, <3>1 DEF ProxyEnter, Step, lock, session, switching, time, irqs, locals, counts
      <3>2. CASE Rendezvous(c, "proxy_rdv", "proxy_wait", "proxy")
        BY <3>2, RendezvousMoves DEF lock, session, switching, time, locals, counts
      <3> QED
        BY <2>18, <3>1, <3>2, Zenon DEF ProxyEnter
    <2>19. CASE LeaveRendezvous(c)
      BY <2>19, RendezvousMoves DEF LeaveRendezvous, lock, session, switching, time, locals, counts
    <2>20. CASE LeaveUnlock(c)
      BY <2>20, Zenon DEF LeaveUnlock, Step, Unlock, counts, irqs, session, switching, time
    <2>21. CASE SwitchRendezvous(c)
      BY <2>21, RendezvousMoves DEF SwitchRendezvous, lock, session, switching, time, locals, counts
    <2> QED
      BY ZenonT(30), <1>2, <2>1, <2>2, <2>3, <2>4, <2>5, <2>6, <2>7, <2>8, <2>9, <2>10, <2>11, <2>12, <2>13,
         <2>14, <2>15, <2>16, <2>17, <2>18, <2>19, <2>20, <2>21 DEF Run
  <1>3. ASSUME NEW c \in CPUs, Guest(c) \/ Tick(c) \/ Fiq(c) \/ HostReturn(c) PROVE TypeOK'
    <2>1. CASE GuestIpiAck(c)
      BY <2>1, Zenon DEF GuestIpiAck, UpdateFiq, counts, locals, lock, session, switching, time
    <2>2. CASE GuestSend(c)
      BY <2>2 DEF GuestSend, Step, irqs, lock, session, switching, time
    <2>3. CASE Trap(c)
      BY <2>3 DEF Trap, Step, irqs, lock, session, switching, time
    <2>4. CASE Tick(c)
      BY <2>4, ZenonT(30) DEF Tick, counts, locals, lock, session, switching, time
    <2>5. CASE Fiq(c)
      <3>1. tick' \subseteq CPUs /\ why' \in [CPUs -> {"none", "send", "trap", "tick", "fiq"}]
        BY <2>5 DEF Fiq, Step
      <3>2. pc' \in [CPUs -> Places]
        BY <2>5 DEF Fiq, Step
      <3>3. mine' \in [CPUs -> BOOLEAN]
        <4>1. mine' = mine \/ mine' = [mine EXCEPT ![c] = TRUE] \/ mine' = [mine EXCEPT ![c] = FALSE]
          BY <2>5, Zenon DEF Fiq
        <4> QED
          BY <4>1, ZenonT(30)
      <3> QED
        BY <2>5, <3>1, <3>2, <3>3, Zenon DEF Fiq, lock, session, switching, time, counts
    <2>6. CASE HostReturn(c)
      BY <2>6 DEF HostReturn, Step, Returns, Proxying, lock, session, switching, irqs, locals, counts
    <2> QED
      BY <1>3, <2>1, <2>2, <2>3, <2>4, <2>5, <2>6, Zenon DEF Guest
  <1>4. ASSUME NEW c \in CPUs, Host(c) PROVE TypeOK'
    <2>1. CASE HostLeave(c)
      BY <2>1, Zenon DEF HostLeave, Step, counts, irqs, locals, lock, switching, time
    <2>2. CASE HostAddTime(c)
      BY <2>2 DEF HostAddTime, HostOp, irqs, locals, lock, session, switching, time
    <2>3. ASSUME NEW d \in CPUs, HostSwitch(c, d) PROVE TypeOK'
      BY <2>3 DEF HostSwitch, HostOp, irqs, locals, lock, session, time
    <2>4. ASSUME NEW d \in CPUs, HostExitCpu(c, d) PROVE TypeOK'
      BY <2>4 DEF HostExitCpu, HostOp, irqs, locals, lock, switching, time
    <2>5. ASSUME NEW d \in CPUs \cup {NoCpu}, HostPin(c, d) PROVE TypeOK'
      BY <2>5 DEF HostPin, HostOp, irqs, locals, lock, session, time
    <2>6. ASSUME NEW b \in BOOLEAN, HostStealing(c, b) PROVE TypeOK'
      BY <2>6 DEF HostStealing, HostOp, irqs, locals, lock, session, switching
    <2>7. ASSUME NEW d \in Secondaries, HostStart(c, d) PROVE TypeOK'
      BY <2>7 DEF HostStart, HostOp, Secondaries, switching, time, locals
    <2> QED
      BY <1>4, <2>1, <2>2, <2>3, <2>4, <2>5, <2>6, <2>7, ZenonT(30) DEF Host
  <1>5. ASSUME NEW d \in Secondaries, RunSecondary(d) PROVE TypeOK'
    <2>1. CASE EnterSecondary(d)
      BY <2>1, ZenonT(30) DEF EnterSecondary, Step, counts, irqs, locals, lock, switching, time
    <2>2. CASE LeaveSecondary(d)
      BY <2>2, ZenonT(30) DEF LeaveSecondary, Step, counts, irqs, locals, switching, time
    <2>3. CASE Park(d)
      BY <2>3, ZenonT(30) DEF Park, Step, counts, locals, lock, switching, time
    <2> QED
      BY <1>5, <2>1, <2>2, <2>3, Zenon DEF RunSecondary, Secondaries
  <1>6. ASSUME RunBoot \/ HvStart \/ HvCleanup \/ JoinTimeout PROVE TypeOK'
    <2>1. CASE BootOut
      BY <2>1, ZenonT(30) DEF BootOut, Step, counts, irqs, locals, session, switching, time
    <2>2. CASE BootStopped
      BY <2>2, ZenonT(30) DEF BootStopped, Step, counts, locals, lock, switching, time
    <2>3. CASE JoinFlag
      BY <2>3, SMTT(30) DEF JoinFlag, Step, JoinRange, Boot, CPUs, lock, switching, time, irqs, locals, counts
    <2>4. CASE JoinCheck
      <3>1. join.cpu \in 0..N /\ N \in Nat
        BY <2>4, ConstantsAssumption, Zenon DEF JoinCheck, Step, JoinRange, CPUs
      <3>2. join' = join \/ join' = [join EXCEPT !.cpu = join.cpu + 1]
        BY <2>4, Zenon DEF JoinCheck
      <3>3. join.cpu + 1 \in 0..N + 1
        BY <3>1
      <3>4. join' \in [cpu : 0..N + 1, failed : BOOLEAN]
        BY <3>2, <3>3
      <3>5. pc' = [pc EXCEPT ![Boot] = "join_wait"] \/ pc' = [pc EXCEPT ![Boot] = "join_check"]
        BY <2>4, Zenon DEF JoinCheck, Step
      <3>6. pc' \in [CPUs -> Places]
        BY <3>5 DEF Places
      <3>7. started' \subseteq CPUs
        BY <2>4, Zenon DEF JoinCheck
      <3> QED
        BY <2>4, <3>4, <3>6, <3>7, Zenon DEF JoinCheck, lock, switching, time, irqs, locals, counts
    <2>5. CASE JoinWaited
      BY <2>5, ZenonT(30) DEF JoinWaited, Step, counts, irqs, locals, lock, session, switching, time
    <2>6. CASE JoinClear
      <3>1. join.cpu \in 0..N /\ N \in Nat
        BY <2>6, ConstantsAssumption DEF JoinClear, Step, JoinRange, CPUs
      <3>2. join' = join \/ join' = [join EXCEPT !.cpu = join.cpu + 1]
        BY <2>6, Zenon DEF JoinClear
      <3>3. join.cpu + 1 \in 0..N + 1
        BY <3>1
      <3>4. join' \in [cpu : 0..N + 1, failed : BOOLEAN]
        BY <3>2, <3>3, ZenonT(30)
      <3>5. pc' = [pc EXCEPT ![Boot] = "join_wait"] \/ pc' = [pc EXCEPT ![Boot] = "join_check"]
        BY <2>6, Zenon DEF JoinClear, Step
      <3>6. pc' \in [CPUs -> Places]
        BY <3>5 DEF Places
      <3>7. started' \subseteq CPUs
        BY <2>6, Zenon DEF JoinClear
      <3> QED
        BY <2>6, <3>4, <3>6, <3>7, Zenon DEF JoinClear, lock, switching, time, irqs, locals, counts
    <2>7. CASE JoinDone
      <3>1. join' \in [cpu : 0..N + 1, failed : BOOLEAN] /\ join.failed \in BOOLEAN
        BY <2>7 DEF JoinDone, JoinRange, CPUs
      <3>2. pc' \in [CPUs -> Places]
        BY <2>7, Zenon DEF JoinDone, Step, Boot, CPUs
      <3> QED
        BY <2>7, <3>1, <3>2, Zenon DEF JoinDone, lock, switching, time, irqs, locals, counts
    <2>8. CASE HvStart
      BY <2>8, SMTT(30) DEF HvStart, Step, Boot, CPUs, NoCpu, time, locals, counts
    <2>9. CASE HvCleanup
      BY <2>9, ZenonT(30) DEF HvCleanup, Step, counts, irqs, locals, lock, session, switching, time
    <2>10. CASE JoinTimeout
      <3>1. join' \in [cpu : 0..N + 1, failed : BOOLEAN]
        BY <2>10 DEF JoinTimeout, Step, JoinRange, CPUs
      <3>2. pc' \in [CPUs -> Places]
        BY <2>10, Zenon DEF JoinTimeout, Step, Boot, CPUs
      <3>3. started' \subseteq CPUs
        BY <2>10, Zenon DEF JoinTimeout
      <3> QED
        BY <2>10, <3>1, <3>2, <3>3, Zenon DEF JoinTimeout, lock, switching, time, irqs, locals, counts
    <2> QED
      BY <1>6, <2>1, <2>2, <2>3, <2>4, <2>5, <2>6, <2>7, <2>8, <2>9, <2>10, ZenonT(30) DEF RunBoot
  <1> QED
    BY <1>1, <1>2, <1>3, <1>4, <1>5, <1>6, Zenon DEF Next

\* Every step keeps the lock with the CPU in a locked section
LEMMA LockStep == LockInv /\ [Next]_vars => LockedAlone'
  <1> SUFFICES ASSUME LockInv, [Next]_vars PROVE LockedAlone'
    BY Zenon
  <1>0. /\ pc \in [CPUs -> Places]
        /\ why \in [CPUs -> {"none", "send", "trap", "tick", "fiq"}]
        /\ then \in [CPUs -> {"none", "exit", "fiq_timer", "fiq_ipi"}]
        /\ inner \in [CPUs -> {"none", "px_wait", "sw_check"}]
        /\ bhl \in CPUs \cup {NoCpu}
        /\ LockedAlone /\ Returns
    BY Zenon DEF LockInv, TypeOK
  <1> USE <1>0, ConstantsAssumption DEF LockedAlone, Locked, NoCpu, CPUs, Boot
  <1>1. CASE UNCHANGED vars
    BY <1>1, Zenon DEF vars, lock
  <1>2. ASSUME NEW c \in CPUs, Run(c) PROVE LockedAlone'
    <2>1. CASE FiqFast(c)
      BY <2>1, ZenonT(30) DEF FiqFast, Step, lock
    <2>2. CASE FiqSlow(c)
      BY <2>2, ZenonT(30) DEF FiqSlow, Step, lock
    <2>3. CASE ExcEntry(c)
      BY <2>3, ZenonT(30) DEF ExcEntry, Step
    <2>4. CASE ExcLock(c)
      <3>1. why[c] \in {"send", "trap", "tick", "fiq"}
        BY <2>4, Zenon DEF ExcLock, Step, Returns
      <3>2. Handler(why[c]) \in Locked
        BY <3>1, HandlerLocked, Zenon
      <3> QED
        BY <2>4, <3>2 DEF ExcLock, Step, Lock
    <2>5. CASE SendIpi(c)
      BY <2>5, ZenonT(30) DEF SendIpi, Step, lock
    <2>6. CASE FiqTick(c)
      BY <2>6 DEF FiqTick, Step, lock
    <2>7. CASE FiqTimer(c)
      BY <2>7 DEF FiqTimer, Step, lock
    <2>8. CASE FiqIpi(c)
      BY <2>8, ZenonT(30) DEF FiqIpi, Step, lock
    <2>9. CASE ExcExit(c)
      BY <2>9 DEF ExcExit, Step, Unlock
    <2>10. CASE ExitCheck(c)
      BY <2>10, ZenonT(30) DEF ExitCheck, Step, lock
    <2>11. CASE ExitGuest(c)
      BY <2>11, ZenonT(30) DEF ExitGuest, Step
    <2>12. CASE PxWait(c)
      <3>1. CASE ~Blocked(c)
        BY <2>12, <3>1, ZenonT(30) DEF PxWait, Step, lock
      <3>2. CASE TakeSwitch(c, "px_wait")
        BY <3>2, ZenonT(30) DEF TakeSwitch, Step, lock
      <3>3. CASE Yield(c, "px_wait", "px_spin")
        BY <3>3 DEF Yield, Step, Unlock
      <3> QED
        BY <2>12, <3>1, <3>2, <3>3, Zenon DEF PxWait
    <2>13. CASE PxSpin(c)
      BY <2>13, ZenonT(30) DEF PxSpin, Step, lock
    <2>14. CASE PxLock(c)
      BY <2>14 DEF PxLock, Step, Lock
    <2>15. CASE SwCheck(c)
      <3>1. CASE want = NoCpu
        <4>1. pc' = [pc EXCEPT ![c] = then[c]] /\ bhl' = bhl /\ pc[c] = "sw_check"
          BY <2>15, <3>1, Zenon DEF SwCheck, Step, lock
        <4>2. then[c] \in {"exit", "fiq_timer", "fiq_ipi"}
          BY <4>1, Zenon DEF Returns
        <4> QED
          BY <4>1, <4>2, KeepLock, ZenonT(30) DEF Places
      <3>2. CASE TakeSwitch(c, "sw_check")
        BY <3>2, ZenonT(30) DEF TakeSwitch, Step, lock
      <3>3. CASE Yield(c, "sw_check", "sw_spin")
        BY <3>3 DEF Yield, Step, Unlock
      <3> QED
        BY <2>15, <3>1, <3>2, <3>3, Zenon DEF SwCheck
    <2>16. CASE SwSpin(c)
      BY <2>16, ZenonT(30) DEF SwSpin, Step, lock
    <2>17. CASE SwLock(c)
      BY <2>17 DEF SwLock, Step, Lock
    <2>18. CASE ProxyEnter(c)
      <3>1. (pc' = [pc EXCEPT ![c] = "proxy_wait"] \/ pc' = [pc EXCEPT ![c] = "proxy"]) /\ bhl' = bhl
        <4>1. CASE Rendezvous(c, "proxy_rdv", "proxy_wait", "proxy")
          BY <4>1, RendezvousMoves, Zenon DEF lock
        <4>2. CASE ~time_stealing
          BY <2>18, <4>2, Zenon DEF ProxyEnter, Step, lock
        <4> QED
          BY <2>18, <4>1, <4>2, Zenon DEF ProxyEnter
      <3>2. pc[c] \in {"proxy_rdv", "proxy_wait"}
        <4>1. CASE Rendezvous(c, "proxy_rdv", "proxy_wait", "proxy")
          BY <4>1, RendezvousMoves, Zenon
        <4>2. CASE ~time_stealing
          BY <2>18, <4>2, Zenon DEF ProxyEnter, Step
        <4> QED
          BY <2>18, <4>1, <4>2, Zenon DEF ProxyEnter
      <3> QED
        BY <3>1, <3>2, KeepLock, Zenon DEF Places
    <2>19. CASE LeaveRendezvous(c)
      <3>1. (pc' = [pc EXCEPT ![c] = "leave_wait"] \/ pc' = [pc EXCEPT ![c] = "leave_unlock"]) /\ bhl' = bhl
        BY <2>19, RendezvousMoves, Zenon DEF LeaveRendezvous, lock
      <3>2. pc[c] \in {"leave_rdv", "leave_wait"}
        BY <2>19, RendezvousMoves, Zenon DEF LeaveRendezvous
      <3> QED
        BY <3>1, <3>2, KeepLock, Zenon DEF Places
    <2>20. CASE LeaveUnlock(c)
      BY <2>20 DEF LeaveUnlock, Step, Unlock
    <2>21. CASE SwitchRendezvous(c)
      <3>1. (pc' = [pc EXCEPT ![c] = "switch_wait"] \/ pc' = [pc EXCEPT ![c] = "proxy"]) /\ bhl' = bhl
        BY <2>21, RendezvousMoves, Zenon DEF SwitchRendezvous, lock
      <3>2. pc[c] \in {"switch_rdv", "switch_wait"}
        BY <2>21, RendezvousMoves, Zenon DEF SwitchRendezvous
      <3> QED
        BY <3>1, <3>2, KeepLock, Zenon DEF Places
    <2> QED
      BY <1>2, <2>1, <2>2, <2>3, <2>4, <2>5, <2>6, <2>7, <2>8, <2>9, <2>10, <2>11, <2>12, <2>13,
         <2>14, <2>15, <2>16, <2>17, <2>18, <2>19, <2>20, <2>21, Zenon DEF Run
  <1>3. ASSUME NEW c \in CPUs, Guest(c) \/ Tick(c) \/ Fiq(c) \/ HostReturn(c) PROVE LockedAlone'
    <2>1. CASE GuestIpiAck(c)
      BY <2>1, Zenon DEF GuestIpiAck, lock
    <2>2. CASE GuestSend(c)
      BY <2>2, ZenonT(30) DEF GuestSend, Step, lock
    <2>3. CASE Trap(c)
      BY <2>3, ZenonT(30) DEF Trap, Step, lock
    <2>4. CASE Tick(c)
      BY <2>4, Zenon DEF Tick, lock
    <2>5. CASE Fiq(c)
      BY <2>5 DEF Fiq, Step, lock
    <2>6. CASE HostReturn(c)
      <3>1. pc' = [pc EXCEPT ![c] = inner[c]] /\ bhl' = bhl /\ pc[c] = "proxy"
        BY <2>6, Zenon DEF HostReturn, Step, lock
      <3>2. inner[c] \in {"px_wait", "sw_check"}
        BY <3>1, Zenon DEF Returns, Proxying
      <3> QED
        BY <3>1, <3>2, KeepLock, ZenonT(30) DEF Places
    <2> QED
      BY <1>3, <2>1, <2>2, <2>3, <2>4, <2>5, <2>6, Zenon DEF Guest
  <1>4. ASSUME NEW c \in CPUs, Host(c) PROVE LockedAlone'
    <2>1. CASE HostLeave(c)
      BY <2>1, ZenonT(30) DEF HostLeave, Step, lock
    <2>2. CASE HostAddTime(c)
      BY <2>2, Zenon DEF HostAddTime, HostOp, lock
    <2>3. ASSUME NEW d \in CPUs, HostSwitch(c, d) PROVE LockedAlone'
      BY <2>3, ZenonT(30) DEF HostSwitch, HostOp, lock
    <2>4. ASSUME NEW d \in CPUs, HostExitCpu(c, d) PROVE LockedAlone'
      BY <2>4, Zenon DEF HostExitCpu, HostOp, lock
    <2>5. ASSUME NEW d \in CPUs \cup {NoCpu}, HostPin(c, d) PROVE LockedAlone'
      BY <2>5, Zenon DEF HostPin, HostOp, lock
    <2>6. ASSUME NEW b \in BOOLEAN, HostStealing(c, b) PROVE LockedAlone'
      BY <2>6, Zenon DEF HostStealing, HostOp, lock
    <2>7. ASSUME NEW d \in Secondaries, HostStart(c, d) PROVE LockedAlone'
      BY <2>7, Zenon DEF HostStart, HostOp
    <2> QED
      BY <1>4, <2>1, <2>2, <2>3, <2>4, <2>5, <2>6, <2>7, Zenon DEF Host
  <1>5. ASSUME NEW d \in Secondaries, RunSecondary(d) PROVE LockedAlone'
    <2>1. CASE EnterSecondary(d)
      BY <2>1, ZenonT(30) DEF EnterSecondary, Step, lock
    <2>2. CASE LeaveSecondary(d)
      BY <2>2, ZenonT(30) DEF LeaveSecondary, Step
    <2>3. CASE Park(d)
      BY <2>3, ZenonT(30) DEF Park, Step, lock
    <2> QED
      BY <1>5, <2>1, <2>2, <2>3, Zenon DEF RunSecondary, Secondaries
  <1>6. ASSUME RunBoot \/ HvStart \/ HvCleanup \/ JoinTimeout PROVE LockedAlone'
    <2>1. CASE BootOut
      BY <2>1, ZenonT(30) DEF BootOut, Step
    <2>2. CASE BootStopped
      BY <2>2, ZenonT(30) DEF BootStopped, Step, lock
    <2>3. CASE JoinFlag
      BY <2>3, ZenonT(30) DEF JoinFlag, Step, lock
    <2>4. CASE JoinCheck
      <3>1. pc[Boot] = "join_check" /\ bhl' = bhl
        BY <2>4, Zenon DEF JoinCheck, Step, lock
      <3>2. pc' = [pc EXCEPT ![Boot] = "join_wait"] \/ pc' = [pc EXCEPT ![Boot] = "join_check"]
        BY <2>4, Zenon DEF JoinCheck, Step
      <3> QED
        BY <3>1, <3>2, KeepLock DEF Places
    <2>5. CASE JoinWaited
      BY <2>5 DEF JoinWaited, Step, lock
    <2>6. CASE JoinClear
      BY <2>6, ZenonT(30) DEF JoinClear, Step, lock
    <2>7. CASE JoinDone
      BY <2>7, ZenonT(30) DEF JoinDone, Step, lock
    <2>8. CASE HvStart
      BY <2>8, ZenonT(30) DEF HvStart, Step
    <2>9. CASE HvCleanup
      BY <2>9, ZenonT(30) DEF HvCleanup, Step, lock
    <2>10. CASE JoinTimeout
      BY <2>10, ZenonT(30) DEF JoinTimeout, Step, lock
    <2> QED
      BY <1>6, <2>1, <2>2, <2>3, <2>4, <2>5, <2>6, <2>7, <2>8, <2>9, <2>10, Zenon DEF RunBoot
  <1> QED
    BY <1>1, <1>2, <1>3, <1>4, <1>5, <1>6, Zenon DEF Next

\* Every step keeps the return addresses
LEMMA ReturnStep == LockInv /\ [Next]_vars => Returns'
  <1> SUFFICES ASSUME LockInv, [Next]_vars PROVE Returns'
    BY Zenon
  <1>0. /\ pc \in [CPUs -> Places]
        /\ why \in [CPUs -> {"none", "send", "trap", "tick", "fiq"}]
        /\ then \in [CPUs -> {"none", "exit", "fiq_timer", "fiq_ipi"}]
        /\ inner \in [CPUs -> {"none", "px_wait", "sw_check"}]
        /\ Returns
    BY Zenon DEF LockInv, TypeOK
  <1> USE <1>0, ConstantsAssumption DEF Returns, Proxying
  <1>1. CASE UNCHANGED vars
    BY <1>1, Zenon DEF vars, locals
  <1>2. ASSUME NEW c \in CPUs, Run(c) PROVE Returns'
    <2>1. CASE FiqFast(c)
      BY <2>1, Zenon DEF FiqFast, Step
    <2>2. CASE FiqSlow(c)
      BY <2>2, Zenon DEF FiqSlow, Step, locals
    <2>3. CASE ExcEntry(c)
      BY <2>3, Zenon DEF ExcEntry, Step, locals
    <2>4. CASE ExcLock(c)
      <3>1. why[c] \in {"send", "trap", "tick", "fiq"}
        BY <2>4, Zenon DEF ExcLock, Step
      <3>2. Handler(why[c]) \in {"send", "px_wait", "fiq_tick"}
        BY <3>1, HandlerLocked, Zenon
      <3>3. Handler(why[c]) = "px_wait" => why[c] = "trap"
        BY <3>1, Zenon DEF Handler
      <3> QED
        BY <2>4, <3>2, <3>3, ZenonT(30) DEF ExcLock, Step
    <2>5. CASE SendIpi(c)
      BY <2>5, Zenon DEF SendIpi, Step, locals
    <2>6. CASE FiqTick(c)
      BY <2>6 DEF FiqTick, Step
    <2>7. CASE FiqTimer(c)
      BY <2>7 DEF FiqTimer, Step
    <2>8. CASE FiqIpi(c)
      BY <2>8, Zenon DEF FiqIpi, Step
    <2>9. CASE ExcExit(c)
      BY <2>9, ZenonT(30) DEF ExcExit, Step
    <2>10. CASE ExitCheck(c)
      BY <2>10, Zenon DEF ExitCheck, Step, locals
    <2>11. CASE ExitGuest(c)
      BY <2>11, ZenonT(30) DEF ExitGuest, Step, locals
    <2>12. CASE PxWait(c)
      <3>1. CASE ~Blocked(c)
        BY <2>12, <3>1 DEF PxWait, Step
      <3>2. CASE TakeSwitch(c, "px_wait")
        BY <3>2, Zenon DEF TakeSwitch, Step
      <3>3. CASE Yield(c, "px_wait", "px_spin")
        BY <3>3, Zenon DEF Yield, Step, locals
      <3> QED
        BY <2>12, <3>1, <3>2, <3>3, Zenon DEF PxWait
    <2>13. CASE PxSpin(c)
      BY <2>13, Zenon DEF PxSpin, Step, locals
    <2>14. CASE PxLock(c)
      BY <2>14, Zenon DEF PxLock, Step, locals
    <2>15. CASE SwCheck(c)
      <3>1. CASE want = NoCpu
        BY <2>15, <3>1, ZenonT(30) DEF SwCheck, TakeSwitch, Yield, Step, locals
      <3>2. CASE TakeSwitch(c, "sw_check")
        BY <3>2, Zenon DEF TakeSwitch, Step
      <3>3. CASE Yield(c, "sw_check", "sw_spin")
        BY <3>3, Zenon DEF Yield, Step, locals
      <3> QED
        BY <2>15, <3>1, <3>2, <3>3, ZenonT(30) DEF SwCheck
    <2>16. CASE SwSpin(c)
      BY <2>16, Zenon DEF SwSpin, Step, locals
    <2>17. CASE SwLock(c)
      BY <2>17, Zenon DEF SwLock, Step, locals
    <2>18. CASE ProxyEnter(c)
      <3>1. CASE ~time_stealing
        BY <2>18, <3>1, ZenonT(30) DEF ProxyEnter, Step, locals
      <3>2. CASE Rendezvous(c, "proxy_rdv", "proxy_wait", "proxy")
        BY <3>2, RendezvousMoves DEF locals
      <3> QED
        BY <2>18, <3>1, <3>2, ZenonT(30) DEF ProxyEnter
    <2>19. CASE LeaveRendezvous(c)
      BY <2>19, RendezvousMoves DEF LeaveRendezvous, locals
    <2>20. CASE LeaveUnlock(c)
      BY <2>20, Zenon DEF LeaveUnlock, Step
    <2>21. CASE SwitchRendezvous(c)
      BY <2>21, RendezvousMoves DEF SwitchRendezvous, locals
    <2> QED
      BY ZenonT(30), <1>2, <2>1, <2>2, <2>3, <2>4, <2>5, <2>6, <2>7, <2>8, <2>9, <2>10, <2>11, <2>12, <2>13,
         <2>14, <2>15, <2>16, <2>17, <2>18, <2>19, <2>20, <2>21 DEF Run
  <1>3. ASSUME NEW c \in CPUs, Guest(c) \/ Tick(c) \/ Fiq(c) \/ HostReturn(c) PROVE Returns'
    <2>1. CASE GuestIpiAck(c)
      BY <2>1, Zenon DEF GuestIpiAck, locals
    <2>2. CASE GuestSend(c)
      BY <2>2, Zenon DEF GuestSend, Step
    <2>3. CASE Trap(c)
      BY <2>3, Zenon DEF Trap, Step
    <2>4. CASE Tick(c)
      BY <2>4, Zenon DEF Tick, locals
    <2>5. CASE Fiq(c)
      BY <2>5 DEF Fiq, Step
    <2>6. CASE HostReturn(c)
      BY <2>6, ZenonT(30) DEF HostReturn, Step, locals
    <2> QED
      BY <1>3, <2>1, <2>2, <2>3, <2>4, <2>5, <2>6, ZenonT(30) DEF Guest
  <1>4. ASSUME NEW c \in CPUs, Host(c) PROVE Returns'
    <2>1. CASE HostLeave(c)
      BY <2>1, Zenon DEF HostLeave, Step, locals
    <2>2. CASE HostAddTime(c)
      BY <2>2, Zenon DEF HostAddTime, HostOp, locals
    <2>3. ASSUME NEW d \in CPUs, HostSwitch(c, d) PROVE Returns'
      BY <2>3, ZenonT(30) DEF HostSwitch, HostOp, locals
    <2>4. ASSUME NEW d \in CPUs, HostExitCpu(c, d) PROVE Returns'
      BY <2>4, Zenon DEF HostExitCpu, HostOp, locals
    <2>5. ASSUME NEW d \in CPUs \cup {NoCpu}, HostPin(c, d) PROVE Returns'
      BY <2>5, Zenon DEF HostPin, HostOp, locals
    <2>6. ASSUME NEW b \in BOOLEAN, HostStealing(c, b) PROVE Returns'
      BY <2>6, Zenon DEF HostStealing, HostOp, locals
    <2>7. ASSUME NEW d \in Secondaries, HostStart(c, d) PROVE Returns'
      BY <2>7, Zenon DEF HostStart, HostOp, locals
    <2> QED
      BY <1>4, <2>1, <2>2, <2>3, <2>4, <2>5, <2>6, <2>7, ZenonT(30) DEF Host
  <1>5. ASSUME NEW d \in Secondaries, RunSecondary(d) PROVE Returns'
    <2>1. CASE EnterSecondary(d)
      BY <2>1, Zenon DEF EnterSecondary, Step, locals
    <2>2. CASE LeaveSecondary(d)
      BY <2>2, Zenon DEF LeaveSecondary, Step, locals
    <2>3. CASE Park(d)
      BY <2>3, Zenon DEF Park, Step, locals
    <2> QED
      BY <1>5, <2>1, <2>2, <2>3, ZenonT(30) DEF RunSecondary, Secondaries
  <1>6. ASSUME RunBoot \/ HvStart \/ HvCleanup \/ JoinTimeout PROVE Returns'
    <2>1. CASE BootOut
      BY <2>1, Zenon DEF BootOut, Step, locals
    <2>2. CASE BootStopped
      BY <2>2, Zenon DEF BootStopped, Step, locals
    <2>3. CASE JoinFlag
      BY <2>3, Zenon DEF JoinFlag, Step, locals
    <2>4. CASE JoinCheck
      BY <2>4 DEF JoinCheck, Step, locals
    <2>5. CASE JoinWaited
      BY <2>5, ZenonT(30) DEF JoinWaited, Step, locals
    <2>6. CASE JoinClear
      BY <2>6, Zenon DEF JoinClear, Step, locals
    <2>7. CASE JoinDone
      BY <2>7, Zenon DEF JoinDone, Step, locals
    <2>8. CASE HvStart
      BY <2>8, Zenon DEF HvStart, Step, locals
    <2>9. CASE HvCleanup
      BY <2>9, Zenon DEF HvCleanup, Step, locals
    <2>10. CASE JoinTimeout
      BY <2>10, ZenonT(30) DEF JoinTimeout, Step, locals
    <2> QED
      BY <1>6, <2>1, <2>2, <2>3, <2>4, <2>5, <2>6, <2>7, <2>8, <2>9, <2>10, ZenonT(30) DEF RunBoot
  <1> QED
    BY <1>1, <1>2, <1>3, <1>4, <1>5, <1>6, ZenonT(30) DEF Next

\* Every step keeps hv_join_cpus in range
LEMMA JoinStep == LockInv /\ [Next]_vars => JoinRange'
  <1> SUFFICES ASSUME LockInv, [Next]_vars PROVE JoinRange'
    BY Zenon
  <1>0. pc \in [CPUs -> Places] /\ join \in [cpu : 0..N + 1, failed : BOOLEAN] /\ JoinRange
    BY Zenon DEF LockInv, TypeOK
  <1>7. /\ why \in [CPUs -> {"none", "send", "trap", "tick", "fiq"}]
        /\ then \in [CPUs -> {"none", "exit", "fiq_timer", "fiq_ipi"}]
        /\ inner \in [CPUs -> {"none", "px_wait", "sw_check"}]
        /\ Returns
    BY Zenon DEF LockInv, TypeOK
  <1> USE <1>0, ConstantsAssumption DEF JoinRange, Boot, CPUs
  <1>1. CASE UNCHANGED vars
    BY <1>1, Zenon DEF vars, session
  <1>2. ASSUME NEW c \in CPUs, Run(c) PROVE JoinRange'
    <2>1. CASE FiqFast(c)
      BY <2>1, SMTT(30) DEF FiqFast, Step, session
    <2>2. CASE FiqSlow(c)
      BY <2>2 DEF FiqSlow, Step, session
    <2>3. CASE ExcEntry(c)
      BY <2>3 DEF ExcEntry, Step, session
    <2>4. CASE ExcLock(c)
      <3>1. why[c] \in {"send", "trap", "tick", "fiq"}
        BY <1>7, <2>4, Zenon DEF ExcLock, Step, Returns
      <3>2. Handler(why[c]) \in {"send", "px_wait", "fiq_tick"}
        BY <3>1, HandlerLocked, Zenon
      <3> QED
        BY <2>4, <3>2 DEF ExcLock, Step, session
    <2>5. CASE SendIpi(c)
      BY <2>5 DEF SendIpi, Step, session
    <2>6. CASE FiqTick(c)
      BY <2>6 DEF FiqTick, Step, session
    <2>7. CASE FiqTimer(c)
      BY <2>7 DEF FiqTimer, Step, session
    <2>8. CASE FiqIpi(c)
      BY <2>8 DEF FiqIpi, Step, session
    <2>9. CASE ExcExit(c)
      BY <2>9 DEF ExcExit, Step, session
    <2>10. CASE ExitCheck(c)
      BY <2>10 DEF ExitCheck, Step, session
    <2>11. CASE ExitGuest(c)
      BY <2>11 DEF ExitGuest, Step, session
    <2>12. CASE PxWait(c)
      BY <2>12, SMTT(30) DEF PxWait, TakeSwitch, Yield, Step, session
    <2>13. CASE PxSpin(c)
      BY <2>13 DEF PxSpin, Step, session
    <2>14. CASE PxLock(c)
      BY <2>14 DEF PxLock, Step, session
    <2>15. CASE SwCheck(c)
      <3>1. then[c] # "none" => then[c] \in {"exit", "fiq_timer", "fiq_ipi"}
        BY <1>7, Zenon
      <3>2. PICK x \in {"proxy_rdv", "sw_spin", "exit", "fiq_timer", "fiq_ipi"} : pc' = [pc EXCEPT ![c] = x]
        BY <1>7, <2>15, <3>1, Zenon DEF SwCheck, TakeSwitch, Yield, Step, Returns, Proxying
      <3>3. join' = join
        BY <2>15, Zenon DEF SwCheck, TakeSwitch, Yield, session
      <3>4. x \notin {"join_check", "join_wait", "join_clear"}
        BY <3>2, Zenon
      <3> QED
        BY <3>2, <3>3, <3>4, KeepJoin, Zenon
    <2>16. CASE SwSpin(c)
      BY <2>16 DEF SwSpin, Step, session
    <2>17. CASE SwLock(c)
      BY <2>17 DEF SwLock, Step, session
    <2>18. CASE ProxyEnter(c)
      <3>1. (pc' = [pc EXCEPT ![c] = "proxy_wait"] \/ pc' = [pc EXCEPT ![c] = "proxy"]) /\ join' = join
        <4>1. CASE Rendezvous(c, "proxy_rdv", "proxy_wait", "proxy")
          BY <4>1, RendezvousMoves, Zenon DEF session
        <4>2. CASE ~time_stealing
          BY <2>18, <4>2, Zenon DEF ProxyEnter, Step, session
        <4> QED
          BY <2>18, <4>1, <4>2, Zenon DEF ProxyEnter
      <3> QED
        BY <3>1, KeepJoin, Zenon
    <2>19. CASE LeaveRendezvous(c)
      <3>1. (pc' = [pc EXCEPT ![c] = "leave_wait"] \/ pc' = [pc EXCEPT ![c] = "leave_unlock"]) /\ join' = join
        BY <2>19, RendezvousMoves, Zenon DEF LeaveRendezvous, session
      <3> QED
        BY <3>1, KeepJoin, Zenon
    <2>20. CASE LeaveUnlock(c)
      BY <2>20 DEF LeaveUnlock, Step, session
    <2>21. CASE SwitchRendezvous(c)
      <3>1. (pc' = [pc EXCEPT ![c] = "switch_wait"] \/ pc' = [pc EXCEPT ![c] = "proxy"]) /\ join' = join
        BY <2>21, RendezvousMoves, Zenon DEF SwitchRendezvous, session
      <3> QED
        BY <3>1, KeepJoin, Zenon
    <2> QED
      BY ZenonT(30), <1>2, <2>1, <2>2, <2>3, <2>4, <2>5, <2>6, <2>7, <2>8, <2>9, <2>10, <2>11, <2>12, <2>13,
         <2>14, <2>15, <2>16, <2>17, <2>18, <2>19, <2>20, <2>21 DEF Run
  <1>3. ASSUME NEW c \in CPUs, Guest(c) \/ Tick(c) \/ Fiq(c) \/ HostReturn(c) PROVE JoinRange'
    <2>1. CASE GuestIpiAck(c)
      BY <2>1, Zenon DEF GuestIpiAck, session
    <2>2. CASE GuestSend(c)
      BY <2>2 DEF GuestSend, Step, session
    <2>3. CASE Trap(c)
      BY <2>3 DEF Trap, Step, session
    <2>4. CASE Tick(c)
      BY <2>4, Zenon DEF Tick, session
    <2>5. CASE Fiq(c)
      BY <2>5, SMTT(30) DEF Fiq, Step, session
    <2>6. CASE HostReturn(c)
      <3>1. pc' = [pc EXCEPT ![c] = inner[c]] /\ join' = join
        BY <2>6, Zenon DEF HostReturn, Step, session
      <3>2. inner[c] \notin {"join_check", "join_wait", "join_clear"}
        BY <1>7, Zenon
      <3> QED
        BY <3>1, <3>2, KeepJoin, Zenon
    <2> QED
      BY <1>3, <2>1, <2>2, <2>3, <2>4, <2>5, <2>6, Zenon DEF Guest
  <1>4. ASSUME NEW c \in CPUs, Host(c) PROVE JoinRange'
    <2>1. CASE HostLeave(c)
      BY <2>1 DEF HostLeave, Step
    <2>2. CASE HostAddTime(c)
      BY <2>2, Zenon DEF HostAddTime, HostOp, session
    <2>3. ASSUME NEW d \in CPUs, HostSwitch(c, d) PROVE JoinRange'
      BY <2>3 DEF HostSwitch, HostOp, session
    <2>4. ASSUME NEW d \in CPUs, HostExitCpu(c, d) PROVE JoinRange'
      BY <2>4, Zenon DEF HostExitCpu, HostOp
    <2>5. ASSUME NEW d \in CPUs \cup {NoCpu}, HostPin(c, d) PROVE JoinRange'
      BY <2>5, Zenon DEF HostPin, HostOp, session
    <2>6. ASSUME NEW b \in BOOLEAN, HostStealing(c, b) PROVE JoinRange'
      BY <2>6, Zenon DEF HostStealing, HostOp, session
    <2>7. ASSUME NEW d \in Secondaries, HostStart(c, d) PROVE JoinRange'
      BY <2>7, Zenon DEF HostStart, HostOp
    <2> QED
      BY <1>4, <2>1, <2>2, <2>3, <2>4, <2>5, <2>6, <2>7, Zenon DEF Host
  <1>5. ASSUME NEW d \in Secondaries, RunSecondary(d) PROVE JoinRange'
    <2>1. CASE EnterSecondary(d)
      BY <2>1 DEF EnterSecondary, Step
    <2>2. CASE LeaveSecondary(d)
      BY <2>2 DEF LeaveSecondary, Step
    <2>3. CASE Park(d)
      BY <2>3 DEF Park, Step
    <2> QED
      BY <1>5, <2>1, <2>2, <2>3, Zenon DEF RunSecondary, Secondaries
  <1>6. ASSUME RunBoot \/ HvStart \/ HvCleanup \/ JoinTimeout PROVE JoinRange'
    <2>1. CASE BootOut
      BY <2>1, ZenonT(30) DEF BootOut, Step, session
    <2>2. CASE BootStopped
      BY <2>2, ZenonT(30) DEF BootStopped, Step
    <2>3. CASE JoinFlag
      BY <2>3 DEF JoinFlag, Step
    <2>4. CASE JoinCheck
      BY <2>4 DEF JoinCheck, Step
    <2>5. CASE JoinWaited
      BY <2>5, ZenonT(30) DEF JoinWaited, Step, session
    <2>6. CASE JoinClear
      BY <2>6 DEF JoinClear, Step
    <2>7. CASE JoinDone
      BY <2>7 DEF JoinDone, Step
    <2>8. CASE HvStart
      BY <2>8, ZenonT(30) DEF HvStart, Step
    <2>9. CASE HvCleanup
      BY <2>9, ZenonT(30) DEF HvCleanup, Step, session
    <2>10. CASE JoinTimeout
      <3>1. pc[Boot] = "join_wait" /\ pc' = [pc EXCEPT ![Boot] = "join_check"] /\ join'.cpu = join.cpu + 1
        BY <2>10, Zenon DEF JoinTimeout, Step
      <3>2. join.cpu \in 1..N /\ N \in Nat
        BY <3>1, ConstantsAssumption, Zenon
      <3> QED
        BY <3>1, <3>2
    <2> QED
      BY <1>6, <2>1, <2>2, <2>3, <2>4, <2>5, <2>6, <2>7, <2>8, <2>9, <2>10, Zenon DEF RunBoot
  <1> QED
    BY <1>1, <1>2, <1>3, <1>4, <1>5, <1>6, Zenon DEF Next

\* Every step keeps a queued IPI with its interrupt
LEMMA IpiStep == LockInv /\ [Next]_vars => IpiNotLost'
  <1> SUFFICES ASSUME LockInv, [Next]_vars PROVE IpiNotLost'
    BY Zenon
  <1>0. IpiNotLost
    BY Zenon DEF LockInv
  <1> USE <1>0 DEF IpiNotLost
  <1>1. CASE UNCHANGED vars
    BY <1>1, Zenon DEF vars, irqs
  <1>2. ASSUME NEW c \in CPUs, Run(c) PROVE IpiNotLost'
    <2>1. CASE FiqFast(c)
      BY <2>1, Zenon DEF FiqFast
    <2>2. CASE FiqSlow(c)
      BY <2>2, Zenon DEF FiqSlow, irqs
    <2>3. CASE ExcEntry(c)
      BY <2>3, Zenon DEF ExcEntry, irqs
    <2>4. CASE ExcLock(c)
      BY <2>4, Zenon DEF ExcLock, irqs
    <2>5. CASE SendIpi(c)
      BY <2>5, Zenon DEF SendIpi
    <2>6. CASE FiqTick(c)
      BY <2>6, Zenon DEF FiqTick, irqs
    <2>7. CASE FiqTimer(c)
      BY <2>7, Zenon DEF FiqTimer, irqs
    <2>8. CASE FiqIpi(c)
      BY <2>8, Zenon DEF FiqIpi
    <2>9. CASE ExcExit(c)
      BY <2>9, Zenon DEF ExcExit
    <2>10. CASE ExitCheck(c)
      BY <2>10, Zenon DEF ExitCheck, irqs
    <2>11. CASE ExitGuest(c)
      BY <2>11, Zenon DEF ExitGuest, irqs
    <2>12. CASE PxWait(c)
      BY <2>12, Zenon DEF PxWait, TakeSwitch, Yield, irqs
    <2>13. CASE PxSpin(c)
      BY <2>13, Zenon DEF PxSpin, irqs
    <2>14. CASE PxLock(c)
      BY <2>14, Zenon DEF PxLock, irqs
    <2>15. CASE SwCheck(c)
      BY <2>15, Zenon DEF SwCheck, TakeSwitch, Yield, irqs
    <2>16. CASE SwSpin(c)
      BY <2>16, Zenon DEF SwSpin, irqs
    <2>17. CASE SwLock(c)
      BY <2>17, Zenon DEF SwLock, irqs
    <2>18. CASE ProxyEnter(c)
      <3>1. CASE ~time_stealing
        BY <2>18, <3>1, Zenon DEF ProxyEnter, irqs
      <3>2. CASE Rendezvous(c, "proxy_rdv", "proxy_wait", "proxy")
        BY <3>2, RendezvousMoves, Zenon
      <3> QED
        BY <2>18, <3>1, <3>2, Zenon DEF ProxyEnter
    <2>19. CASE LeaveRendezvous(c)
      BY <2>19, RendezvousMoves, Zenon DEF LeaveRendezvous
    <2>20. CASE LeaveUnlock(c)
      BY <2>20, Zenon DEF LeaveUnlock, irqs
    <2>21. CASE SwitchRendezvous(c)
      BY <2>21, RendezvousMoves, Zenon DEF SwitchRendezvous
    <2> QED
      BY <1>2, <2>1, <2>2, <2>3, <2>4, <2>5, <2>6, <2>7, <2>8, <2>9, <2>10, <2>11, <2>12, <2>13,
         <2>14, <2>15, <2>16, <2>17, <2>18, <2>19, <2>20, <2>21, Zenon DEF Run
  <1>3. ASSUME NEW c \in CPUs, Guest(c) \/ Tick(c) \/ Fiq(c) \/ HostReturn(c) PROVE IpiNotLost'
    <2>1. CASE GuestIpiAck(c)
      BY <2>1, Zenon DEF GuestIpiAck
    <2>2. CASE GuestSend(c)
      BY <2>2, Zenon DEF GuestSend, irqs
    <2>3. CASE Trap(c)
      BY <2>3, Zenon DEF Trap, irqs
    <2>4. CASE Tick(c)
      BY <2>4, Zenon DEF Tick
    <2>5. CASE Fiq(c)
      BY <2>5, Zenon DEF Fiq
    <2>6. CASE HostReturn(c)
      BY <2>6, Zenon DEF HostReturn, irqs
    <2> QED
      BY <1>3, <2>1, <2>2, <2>3, <2>4, <2>5, <2>6, Zenon DEF Guest
  <1>4. ASSUME NEW c \in CPUs, Host(c) PROVE IpiNotLost'
    <2>1. CASE HostLeave(c)
      BY <2>1, Zenon DEF HostLeave, irqs
    <2>2. CASE HostAddTime(c)
      BY <2>2, Zenon DEF HostAddTime, irqs
    <2>3. ASSUME NEW d \in CPUs, HostSwitch(c, d) PROVE IpiNotLost'
      BY <2>3, Zenon DEF HostSwitch, irqs
    <2>4. ASSUME NEW d \in CPUs, HostExitCpu(c, d) PROVE IpiNotLost'
      BY <2>4, Zenon DEF HostExitCpu, irqs
    <2>5. ASSUME NEW d \in CPUs \cup {NoCpu}, HostPin(c, d) PROVE IpiNotLost'
      BY <2>5, Zenon DEF HostPin, irqs
    <2>6. ASSUME NEW b \in BOOLEAN, HostStealing(c, b) PROVE IpiNotLost'
      BY <2>6, Zenon DEF HostStealing, irqs
    <2>7. ASSUME NEW d \in Secondaries, HostStart(c, d) PROVE IpiNotLost'
      BY <2>7, Zenon DEF HostStart
    <2> QED
      BY <1>4, <2>1, <2>2, <2>3, <2>4, <2>5, <2>6, <2>7, Zenon DEF Host
  <1>5. ASSUME NEW d \in Secondaries, RunSecondary(d) PROVE IpiNotLost'
    <2>1. CASE EnterSecondary(d)
      BY <2>1, Zenon DEF EnterSecondary, irqs
    <2>2. CASE LeaveSecondary(d)
      BY <2>2, Zenon DEF LeaveSecondary, irqs
    <2>3. CASE Park(d)
      BY <2>3, Zenon DEF Park
    <2> QED
      BY <1>5, <2>1, <2>2, <2>3, Zenon DEF RunSecondary, Secondaries
  <1>6. ASSUME RunBoot \/ HvStart \/ HvCleanup \/ JoinTimeout PROVE IpiNotLost'
    <2>1. CASE BootOut
      BY <2>1, Zenon DEF BootOut, irqs
    <2>2. CASE BootStopped
      BY <2>2, Zenon DEF BootStopped
    <2>3. CASE JoinFlag
      BY <2>3, Zenon DEF JoinFlag, irqs
    <2>4. CASE JoinCheck
      BY <2>4, Zenon DEF JoinCheck, irqs
    <2>5. CASE JoinWaited
      BY <2>5, Zenon DEF JoinWaited, irqs
    <2>6. CASE JoinClear
      BY <2>6, Zenon DEF JoinClear, irqs
    <2>7. CASE JoinDone
      BY <2>7, Zenon DEF JoinDone, irqs
    <2>8. CASE HvStart
      BY <2>8, Zenon DEF HvStart
    <2>9. CASE HvCleanup
      BY <2>9, Zenon DEF HvCleanup, irqs
    <2>10. CASE JoinTimeout
      BY <2>10, Zenon DEF JoinTimeout, irqs
    <2> QED
      BY <1>6, <2>1, <2>2, <2>3, <2>4, <2>5, <2>6, <2>7, <2>8, <2>9, <2>10, Zenon DEF RunBoot
  <1> QED
    BY <1>1, <1>2, <1>3, <1>4, <1>5, <1>6, Zenon DEF Next
\* Every step keeps the invariant
LEMMA LockInvStep == LockInv /\ [Next]_vars => LockInv'
  BY TypeStep, LockStep, ReturnStep, JoinStep, IpiStep, Zenon DEF LockInv

\* The invariant holds throughout
LEMMA LockInvariance == Spec => []LockInv
  BY LockInit, LockInvStep, PTL DEF Spec

\* bhl is held exactly by the one CPU that is in a locked section, however many CPUs trap, take
\* interrupts, run the proxy, switch, leave the guest and are started again
THEOREM LockedAloneTheorem == Spec => []LockedAlone
  <1>1. LockInv => LockedAlone
    BY Zenon DEF LockInv
  <1> QED
    BY <1>1, LockInvariance, PTL

\* The state has its type throughout
THEOREM TypeTheorem == Spec => []TypeOK
  <1>1. LockInv => TypeOK
    BY Zenon DEF LockInv
  <1> QED
    BY <1>1, LockInvariance, PTL

\* A guest IPI that hv_handle_msr has queued for a CPU has its hardware IPI outstanding until the
\* FIQ handler delivers both: no interleaving of senders and receiver loses one
THEOREM IpiNotLostTheorem == Spec => []IpiNotLost
  <1>1. LockInv => IpiNotLost
    BY Zenon DEF LockInv
  <1> QED
    BY <1>1, LockInvariance, PTL

-----------------------------------------------------------------------------
(***************************************************************************)
(* hv_join_cpus leaves no CPU of a session behind, whatever its time-outs  *)
(* and the host do, if none is started while the session is being joined   *)
(* (LateStart).                                                            *)
(***************************************************************************)
\* Where a CPU is between its entry into the guest and hv_exit_guest's return
Inside == Places \ {"parked", "left", "host", "boot_lock", "join_flag", "join_check", "join_wait", "join_clear"}

\* The CPU has left its session and is not sent into another
Out(d) == pc[d] \in {"parked", "left"} /\ slot[d] # "posted"

\* A slot is busy while its CPU is not in the dispatch loop
Slots == \A d \in Secondaries : slot[d] = "running" <=> pc[d] # "parked"

\* A CPU that is not out is listed in hv_started_cpus
Listed == \A d \in Secondaries : Out(d) \/ d \in started

\* A CPU on its way to the guest is announced already
Announced == \A d \in Secondaries : slot[d] = "posted" => d \in in_guest

\* hv_join_cpus has got the CPUs it has been through out, or knows better
Passed ==
    /\ pc[Boot] \in {"join_check", "join_wait", "join_clear"} /\ ~join.failed =>
          \A d \in Secondaries : d < join.cpu => Out(d)
    /\ pc[Boot] = "join_clear" => slot[join.cpu] = "idle"

SessionInv == Slots /\ Listed /\ Announced /\ Passed /\ GuestMarked /\ SessionJoined

\* A step of CPU c inside: it stays there, and is announced when it is in the guest
Local(c) ==
    /\ pc[c] \in Inside /\ pc'[c] \in Inside
    /\ \A d \in CPUs \ {c} : pc'[d] = pc[d]
    /\ pc'[c] \in {"guest", "fiq"} => c \in in_guest'
    /\ in_guest' \in {in_guest, in_guest \ {c}, in_guest \cup {c}}
    /\ UNCHANGED <<started, slot, shutdown_failed, join>>

\* Such steps keep the invariant
LEMMA LocalKeeps ==
    ASSUME TypeOK, SessionInv, NEW c \in CPUs, Local(c)
    PROVE  SessionInv'
  <1>2. /\ pc[c] \in Inside /\ UNCHANGED <<started, slot, shutdown_failed, join>>
        /\ \A d \in CPUs : d # c => (d \in in_guest' <=> d \in in_guest)
    BY Zenon DEF Local
  <1>3. Boot \in CPUs /\ Secondaries \subseteq CPUs
    BY ConstantsAssumption DEF Boot, CPUs, Secondaries
  <1>4. /\ \A d \in CPUs : d # c => pc'[d] = pc[d]
        /\ pc'[c] \notin {"parked", "left", "host", "join_check", "join_wait", "join_clear"}
        /\ pc[c] \notin {"parked", "left", "host", "join_check", "join_wait", "join_clear"}
    BY Zenon DEF Local, Inside
  <1>5. \A d \in Secondaries : Out(d)' <=> Out(d)
    BY <1>2, <1>3, <1>4, Zenon DEF Out
  <1>6. Slots' /\ Listed'
    BY <1>2, <1>3, <1>4, <1>5, Zenon DEF SessionInv, Slots, Listed
  <1>7. Announced'
    <2>1. \A d \in Secondaries : slot[d] = "posted" => d # c
      BY <1>3, <1>4, Zenon DEF SessionInv, Slots
    <2> QED
      BY <1>2, <1>3, <2>1, Zenon DEF SessionInv, Announced
  <1>8. Passed' /\ SessionJoined'
    BY <1>2, <1>3, <1>4, <1>5, Zenon DEF SessionInv, Passed, SessionJoined, Out
  <1>9. GuestMarked'
    BY <1>2, <1>4, Zenon DEF SessionInv, GuestMarked, Local
  <1> QED
    BY <1>6, <1>7, <1>8, <1>9, Zenon DEF SessionInv

\* What a CPU does on its own inside the hypervisor is such a step
LEMMA RunLocal ==
    ASSUME LockInv, SessionInv, NEW c \in CPUs, Run(c)
    PROVE  Local(c)
  <1>0. /\ pc \in [CPUs -> Places] /\ Returns
        /\ why[c] \in {"none", "send", "trap", "tick", "fiq"}
        /\ then[c] \in {"none", "exit", "fiq_timer", "fiq_ipi"}
    BY Zenon DEF LockInv, TypeOK
  <1> USE <1>0 DEF Local, Inside, Places, Step, session
  <1>1. CASE FiqFast(c)
    BY <1>1, Zenon DEF FiqFast, SessionInv, GuestMarked, lock
  <1>2. CASE FiqSlow(c)
    BY <1>2, Zenon DEF FiqSlow, lock
  <1>3. CASE ExcEntry(c)
    BY <1>3, Zenon DEF ExcEntry
  <1>4. CASE ExcLock(c)
    <2>1. why[c] \in {"send", "trap", "tick", "fiq"}
      BY <1>4, Zenon DEF ExcLock, Returns
    <2>2. Handler(why[c]) \in {"send", "px_wait", "fiq_tick"}
      BY <2>1, HandlerLocked, Zenon
    <2> QED
      BY <1>4, <2>2, Zenon DEF ExcLock
  <1>5. CASE SendIpi(c)
    BY <1>5, Zenon DEF SendIpi, lock
  <1>6. CASE FiqTick(c)
    BY <1>6, ZenonT(30) DEF FiqTick, lock
  <1>7. CASE FiqTimer(c)
    BY <1>7, ZenonT(30) DEF FiqTimer, lock
  <1>8. CASE FiqIpi(c)
    BY <1>8, Zenon DEF FiqIpi, lock
  <1>9. CASE ExcExit(c)
    BY <1>9, Zenon DEF ExcExit
  <1>10. CASE ExitCheck(c)
    BY <1>10, Zenon DEF ExitCheck, lock
  <1>11. CASE ExitGuest(c)
    BY <1>11, Zenon DEF ExitGuest
  <1>12. CASE PxWait(c)
    BY <1>12, ZenonT(30) DEF PxWait, TakeSwitch, Yield, lock
  <1>13. CASE PxSpin(c)
    BY <1>13, Zenon DEF PxSpin, lock
  <1>14. CASE PxLock(c)
    BY <1>14, Zenon DEF PxLock
  <1>15. CASE SwCheck(c)
    <2>1. then[c] \in {"exit", "fiq_timer", "fiq_ipi"}
      BY <1>15, Zenon DEF SwCheck, TakeSwitch, Yield, Returns
    <2> QED
      BY <1>15, <2>1, ZenonT(30) DEF SwCheck, TakeSwitch, Yield, lock
  <1>16. CASE SwSpin(c)
    BY <1>16, Zenon DEF SwSpin, lock
  <1>17. CASE SwLock(c)
    BY <1>17, Zenon DEF SwLock
  <1>18. CASE ProxyEnter(c)
    <2>1. CASE Rendezvous(c, "proxy_rdv", "proxy_wait", "proxy")
      BY <2>1, RendezvousMoves DEF lock
    <2>2. CASE ~time_stealing
      BY <1>18, <2>2, Zenon DEF ProxyEnter, lock
    <2> QED
      BY <1>18, <2>1, <2>2, Zenon DEF ProxyEnter
  <1>19. CASE LeaveRendezvous(c)
    BY <1>19, RendezvousMoves DEF LeaveRendezvous, lock
  <1>20. CASE LeaveUnlock(c)
    BY <1>20, Zenon DEF LeaveUnlock, lock
  <1>21. CASE SwitchRendezvous(c)
    BY <1>21, RendezvousMoves DEF SwitchRendezvous, lock
  <1> QED
    BY <1>1, <1>2, <1>3, <1>4, <1>5, <1>6, <1>7, <1>8, <1>9, <1>10, <1>11,
       <1>12, <1>13, <1>14, <1>15, <1>16, <1>17, <1>18, <1>19, <1>20, <1>21, Zenon, Zenon DEF Run

\* What the guest does and what the host does, except hv_start_secondary, are such steps
LEMMA OutsideLocal ==
    ASSUME LockInv, SessionInv, NEW c \in CPUs,
           Guest(c) \/ Tick(c) \/ Fiq(c) \/ HostReturn(c) \/ Host(c),
           \A d \in Secondaries : ~HostStart(c, d)
    PROVE  Local(c)
  <1>0. pc \in [CPUs -> Places] /\ Returns /\ inner[c] \in {"none", "px_wait", "sw_check"}
    BY Zenon DEF LockInv, TypeOK
  <1>1. pc[c] = "guest" => c \in in_guest
    BY Zenon DEF SessionInv, GuestMarked
  <1> USE <1>0, <1>1 DEF Local, Inside, Places, Step, session
  <1>2. CASE GuestIpiAck(c)
    BY <1>2, Zenon DEF GuestIpiAck, lock
  <1>3. CASE GuestSend(c)
    BY <1>3, Zenon DEF GuestSend, lock
  <1>4. CASE Trap(c)
    BY <1>4, Zenon DEF Trap, lock
  <1>5. CASE Tick(c)
    BY <1>5, Zenon DEF Tick, lock
  <1>6. CASE Fiq(c)
    BY <1>6, ZenonT(30) DEF Fiq, lock
  <1>7. CASE HostReturn(c)
    BY <1>7, Zenon DEF HostReturn, Returns, Proxying, lock
  <1>8. CASE HostLeave(c)
    BY <1>8, Zenon DEF HostLeave, lock
  <1>9. CASE HostAddTime(c)
    BY <1>9, Zenon DEF HostAddTime, HostOp, lock
  <1>10. ASSUME NEW d \in CPUs, HostSwitch(c, d) PROVE Local(c)
    BY <1>10, Zenon DEF HostSwitch, HostOp, lock
  <1>11. ASSUME NEW d \in CPUs, HostExitCpu(c, d) PROVE Local(c)
    BY <1>11, Zenon DEF HostExitCpu, HostOp, lock
  <1>12. ASSUME NEW d \in CPUs \cup {NoCpu}, HostPin(c, d) PROVE Local(c)
    BY <1>12, Zenon DEF HostPin, HostOp, lock
  <1>13. ASSUME NEW b \in BOOLEAN, HostStealing(c, b) PROVE Local(c)
    BY <1>13, Zenon DEF HostStealing, HostOp, lock
  <1> QED
    BY <1>2, <1>3, <1>4, <1>5, <1>6, <1>7, <1>8, <1>9, <1>10, <1>11, <1>12, <1>13, Zenon DEF Guest, Host

\* hv_start_secondary comes before hv_join_cpus, and announces the CPU it posts
LEMMA StartKeeps ==
    ASSUME LockInv, SessionInv, ~LateStart, NEW c \in CPUs, NEW d \in Secondaries, HostStart(c, d)
    PROVE  SessionInv'
  <1>1. /\ pc' = pc /\ shutdown_failed' = shutdown_failed
        /\ started' = started \cup {d} /\ in_guest' = in_guest \cup {d}
        /\ slot' = [slot EXCEPT ![d] = "posted"]
        /\ slot[d] = "idle" /\ pc[Boot] \notin {"join_check", "join_wait", "join_clear", "host"}
    BY Zenon DEF HostStart, Joining
  <1>2. slot \in [CPUs -> {"idle", "posted", "running"}] /\ Secondaries \subseteq CPUs
    BY Zenon DEF LockInv, TypeOK, Secondaries
  <1>3. Slots' /\ Listed' /\ Announced'
    BY <1>1, <1>2, Zenon DEF SessionInv, Slots, Listed, Announced, Out
  <1>4. Passed' /\ GuestMarked' /\ SessionJoined'
    BY <1>1, Zenon DEF SessionInv, Passed, GuestMarked, SessionJoined
  <1> QED
    BY <1>3, <1>4, Zenon DEF SessionInv

\* A secondary CPU comes and goes
LEMMA SecondaryKeeps ==
    ASSUME LockInv, SessionInv, NEW d \in Secondaries, RunSecondary(d)
    PROVE  SessionInv'
  <1>0. /\ pc \in [CPUs -> Places] /\ slot \in [CPUs -> {"idle", "posted", "running"}]
        /\ Secondaries \subseteq CPUs /\ Boot \in CPUs /\ d # Boot /\ Boot \notin Secondaries
    BY ConstantsAssumption DEF LockInv, TypeOK, Secondaries, CPUs, Boot
  <1>1. join' = join /\ shutdown_failed' = shutdown_failed
    BY Zenon DEF RunSecondary, EnterSecondary, LeaveSecondary, Park
  <1>2. pc[Boot] = "join_clear" => join.cpu \in CPUs /\ join.cpu \in Secondaries
    BY ConstantsAssumption DEF LockInv, JoinRange, CPUs, Secondaries, Boot
  <1> USE <1>0, <1>1, <1>2
  <1>3. CASE EnterSecondary(d)
    <2>1. /\ pc[d] = "parked" /\ pc' = [pc EXCEPT ![d] = "guest"]
          /\ slot[d] = "posted" /\ slot' = [slot EXCEPT ![d] = "running"]
          /\ started' = started /\ in_guest' = in_guest
      BY <1>3, Zenon DEF EnterSecondary, Step, lock
    <2>2. ~Out(d) /\ \A e \in Secondaries : Out(e)' => Out(e)
      BY <2>1, Zenon DEF Out
    <2>3. Slots' /\ Listed' /\ Announced'
      BY <2>1, Zenon DEF SessionInv, Slots, Listed, Announced, Out
    <2>4. Passed' /\ SessionJoined'
      BY <2>1, <2>2, Zenon DEF SessionInv, Passed, SessionJoined, Out
    <2>5. GuestMarked'
      BY <2>1, Zenon DEF SessionInv, GuestMarked, Announced
    <2> QED
      BY <2>3, <2>4, <2>5, Zenon DEF SessionInv
  <1>4. CASE LeaveSecondary(d)
    <2>1. /\ pc[d] = "leave" /\ pc' = [pc EXCEPT ![d] = "left"] /\ slot' = slot
          /\ started' = started \ {d} /\ in_guest' = in_guest \ {d}
      BY <1>4, Zenon DEF LeaveSecondary, Step
    <2>2. slot[d] = "running"
      BY <2>1, Zenon DEF SessionInv, Slots
    <2>3. Slots' /\ Listed' /\ Announced'
      BY <2>1, <2>2, Zenon DEF SessionInv, Slots, Listed, Announced, Out
    <2>4. Passed' /\ GuestMarked' /\ SessionJoined'
      BY <2>1, <2>2, Zenon DEF SessionInv, Passed, GuestMarked, SessionJoined, Out
    <2> QED
      BY <2>3, <2>4, Zenon DEF SessionInv
  <1>5. CASE Park(d)
    <2>1. /\ pc[d] = "left" /\ pc' = [pc EXCEPT ![d] = "parked"] /\ slot' = [slot EXCEPT ![d] = "idle"]
          /\ started' = started /\ in_guest' = in_guest
      BY <1>5, Zenon DEF Park, Step, lock
    <2>2. Slots' /\ Listed' /\ Announced'
      BY <2>1, Zenon DEF SessionInv, Slots, Listed, Announced, Out
    <2>3. Passed' /\ GuestMarked' /\ SessionJoined'
      BY <2>1, Zenon DEF SessionInv, Passed, GuestMarked, SessionJoined, Out
    <2> QED
      BY <2>2, <2>3, Zenon DEF SessionInv
  <1> QED
    BY <1>3, <1>4, <1>5, Zenon DEF RunSecondary

\* The boot CPU starts a session only when no CPU is left in the one before, and goes through all of
\* them in hv_join_cpus
LEMMA BootKeeps ==
    ASSUME LockInv, SessionInv, RunBoot \/ HvStart \/ HvCleanup \/ JoinTimeout
    PROVE  SessionInv'
  <1>0. /\ pc \in [CPUs -> Places] /\ slot \in [CPUs -> {"idle", "posted", "running"}]
        /\ Secondaries = 1..N /\ Secondaries \subseteq CPUs /\ Boot \in CPUs /\ Boot \notin Secondaries
        /\ N \in Nat
    BY ConstantsAssumption DEF LockInv, TypeOK, Secondaries, CPUs, Boot
  <1>1. /\ slot' = slot
        /\ \A d \in CPUs : d # Boot => pc'[d] = pc[d]
    BY <1>0, Zenon DEF RunBoot, HvStart, HvCleanup, JoinTimeout, BootOut, BootStopped, JoinFlag, JoinCheck, JoinWaited,
       JoinClear, JoinDone, Step, session
  <1>2. Slots' /\ \A d \in Secondaries : Out(d)' <=> Out(d)
    BY <1>0, <1>1, Zenon DEF SessionInv, Slots, Out
  <1> USE <1>0, <1>1, <1>2
  <1>3. CASE HvStart
    <2>1. /\ pc[Boot] = "host" /\ pc'[Boot] = "guest" /\ ~shutdown_failed /\ in_guest' = {Boot}
      BY <1>3, Zenon DEF HvStart, Step
    <2>2. \A d \in Secondaries : Out(d)
      BY <2>1, Zenon DEF SessionInv, SessionJoined, Out
    <2>3. Listed' /\ Announced'
      BY <2>2, Zenon DEF Listed, Announced, Out
    <2>4. \A d \in CPUs : d # Boot => pc'[d] \in {"parked", "left"}
      BY <2>2, Zenon DEF Out, Secondaries
    <2>5. Passed' /\ GuestMarked' /\ SessionJoined'
      BY <2>1, <2>4, Zenon DEF Passed, GuestMarked, SessionJoined
    <2> QED
      BY <2>3, <2>5, Zenon DEF SessionInv
  <1>4. CASE HvCleanup
    <2>1. pc'[Boot] = "join_flag" /\ started' = started /\ in_guest' = in_guest
      BY <1>4, Zenon DEF HvCleanup, Step, session, lock
    <2>2. Listed' /\ Announced'
      BY <2>1, Zenon DEF SessionInv, Listed, Announced
    <2>3. Passed' /\ GuestMarked' /\ SessionJoined'
      BY <2>1, Zenon DEF SessionInv, Passed, GuestMarked, SessionJoined
    <2> QED
      BY <2>2, <2>3, Zenon DEF SessionInv
  <1>5. CASE BootOut
    <2>1. pc'[Boot] = "boot_lock" /\ started' = started /\ in_guest' = in_guest \ {Boot}
      BY <1>5, Zenon DEF BootOut, Step, session, lock
    <2>2. Listed' /\ Announced'
      BY <2>1, Zenon DEF SessionInv, Listed, Announced
    <2>3. Passed' /\ GuestMarked' /\ SessionJoined'
      BY <2>1, Zenon DEF SessionInv, Passed, GuestMarked, SessionJoined
    <2> QED
      BY <2>2, <2>3, Zenon DEF SessionInv
  <1>6. CASE BootStopped
    <2>1. pc'[Boot] = "join_flag" /\ started' = started \ {Boot} /\ in_guest' = in_guest
      BY <1>6, Zenon DEF BootStopped, Step, session, lock
    <2>2. Listed' /\ Announced'
      BY <2>1, Zenon DEF SessionInv, Listed, Announced
    <2>3. Passed' /\ GuestMarked' /\ SessionJoined'
      BY <2>1, Zenon DEF SessionInv, Passed, GuestMarked, SessionJoined
    <2> QED
      BY <2>2, <2>3, Zenon DEF SessionInv
  <1>7. CASE JoinFlag
    <2>1. /\ pc'[Boot] = "join_check" /\ join'.cpu = 1
          /\ started' = started /\ in_guest' = in_guest
      <3>1. PICK failed \in BOOLEAN : join' = [cpu |-> 1, failed |-> failed]
        BY <1>7, Zenon DEF JoinFlag
      <3>2. join'.cpu = 1
        BY <3>1
      <3> QED
        BY <1>7, <3>2, Zenon DEF JoinFlag, Step, lock
    <2>2. Listed' /\ Announced'
      BY <2>1, Zenon DEF SessionInv, Listed, Announced
    <2>3. Passed' /\ GuestMarked' /\ SessionJoined'
      BY <2>1 DEF SessionInv, Passed, GuestMarked, SessionJoined
    <2> QED
      BY <2>2, <2>3, Zenon DEF SessionInv
  <1>8. CASE JoinCheck
    <2>1. /\ pc[Boot] = "join_check" /\ started' = started /\ in_guest' = in_guest
          /\ \/ pc'[Boot] = "join_wait" /\ join' = join
             \/ /\ join.cpu \notin started
                /\ pc'[Boot] = "join_check" /\ join' = [join EXCEPT !.cpu = join.cpu + 1]
      BY <1>8, Zenon DEF JoinCheck, Step, lock
    <2>2. Listed' /\ Announced'
      BY <2>1, Zenon DEF SessionInv, Listed, Announced
    <2>3. GuestMarked' /\ SessionJoined'
      BY <2>1, Zenon DEF SessionInv, GuestMarked, SessionJoined
    <2>4. Passed'
      <3>1. join \in [cpu : 0..N + 1, failed : BOOLEAN]
        BY Zenon DEF LockInv, TypeOK
      <3>2. CASE join' = join /\ pc'[Boot] = "join_wait"
        BY <2>1, <3>2, Zenon DEF SessionInv, Passed
      <3>3. CASE /\ join.cpu \notin started
                 /\ pc'[Boot] = "join_check" /\ join' = [join EXCEPT !.cpu = join.cpu + 1]
        <4>1. join'.cpu = join.cpu + 1 /\ join'.failed = join.failed
          BY <3>1, <3>3, Zenon
        <4>2. \A d \in Secondaries : d < join.cpu + 1 => d < join.cpu \/ d = join.cpu
          BY <3>1
        <4>3. join.cpu \in Secondaries => Out(join.cpu)
          BY <3>3, Zenon DEF SessionInv, Listed
        <4> QED
          BY <2>1, <3>3, <4>1, <4>2, <4>3, Zenon DEF SessionInv, Passed
      <3> QED
        BY <2>1, <3>2, <3>3, Zenon
    <2> QED
      BY <2>2, <2>3, <2>4, Zenon DEF SessionInv
  <1>9. CASE JoinWaited
    <2>1. /\ pc[Boot] = "join_wait" /\ pc'[Boot] = "join_clear" /\ join' = join
          /\ slot[join.cpu] = "idle" /\ started' = started /\ in_guest' = in_guest
      BY <1>9, Zenon DEF JoinWaited, Step, session, lock
    <2>2. Listed' /\ Announced'
      BY <2>1, Zenon DEF SessionInv, Listed, Announced
    <2>3. Passed' /\ GuestMarked' /\ SessionJoined'
      BY <2>1, Zenon DEF SessionInv, Passed, GuestMarked, SessionJoined
    <2> QED
      BY <2>2, <2>3, Zenon DEF SessionInv
  <1>10. CASE JoinClear
    <2>1. /\ pc[Boot] = "join_clear" /\ pc'[Boot] = "join_check"
          /\ join' = [join EXCEPT !.cpu = join.cpu + 1]
          /\ started' = started \ {join.cpu} /\ in_guest' = in_guest
      BY <1>10, Zenon DEF JoinClear, Step, lock
    <2>2. join \in [cpu : 0..N + 1, failed : BOOLEAN] /\ join.cpu \in Secondaries
      BY <2>1, Zenon DEF LockInv, TypeOK, JoinRange
    <2>3. Out(join.cpu)
      <3>1. slot[join.cpu] = "idle"
        BY <2>1, Zenon DEF SessionInv, Passed
      <3> QED
        BY <2>2, <3>1, Zenon DEF SessionInv, Slots, Out
    <2>4. Listed' /\ Announced'
      BY <2>1, <2>3, Zenon DEF SessionInv, Listed, Announced
    <2>5. GuestMarked' /\ SessionJoined'
      BY <2>1, Zenon DEF SessionInv, GuestMarked, SessionJoined
    <2>6. Passed'
      <3>1. join'.cpu = join.cpu + 1 /\ join'.failed = join.failed
        BY <2>1, <2>2, Zenon
      <3>2. \A d \in Secondaries : d < join.cpu + 1 => d < join.cpu \/ d = join.cpu
        BY <2>2
      <3> QED
        BY <2>1, <2>3, <3>1, <3>2, Zenon DEF SessionInv, Passed
    <2> QED
      BY <2>4, <2>5, <2>6, Zenon DEF SessionInv
  <1>11. CASE JoinTimeout
    <2>1. /\ pc'[Boot] = "join_check" /\ join'.failed = TRUE
          /\ started' = started /\ in_guest' = in_guest
      BY <1>11, Zenon DEF JoinTimeout, Step, lock
    <2>2. Listed' /\ Announced'
      BY <2>1, Zenon DEF SessionInv, Listed, Announced
    <2>3. Passed' /\ GuestMarked' /\ SessionJoined'
      BY <2>1, Zenon DEF SessionInv, Passed, GuestMarked, SessionJoined
    <2> QED
      BY <2>2, <2>3, Zenon DEF SessionInv
  <1>12. CASE JoinDone
    <2>1. /\ pc[Boot] = "join_check" /\ pc'[Boot] = "host" /\ join.cpu = N + 1
          /\ shutdown_failed' = join.failed
          /\ started' = started /\ in_guest' = in_guest
      BY <1>12, Zenon DEF JoinDone, Step, lock
    <2>2. Listed' /\ Announced'
      BY <2>1, Zenon DEF SessionInv, Listed, Announced
    <2>3. Passed' /\ GuestMarked'
      BY <2>1, Zenon DEF SessionInv, Passed, GuestMarked
    <2>4. ~join.failed => \A d \in Secondaries : Out(d)
      BY <2>1 DEF SessionInv, Passed
    <2>5. SessionJoined'
      BY <2>1, <2>4, Zenon DEF SessionJoined, Out
    <2> QED
      BY <2>2, <2>3, <2>5, Zenon DEF SessionInv
  <1> QED
    BY <1>3, <1>4, <1>5, <1>6, <1>7, <1>8, <1>9, <1>10, <1>11, <1>12, Zenon DEF RunBoot

\* The first session, or none, satisfies the invariant
LEMMA SessionInit == Init => SessionInv
  BY ConstantsAssumption DEF Init, SessionInv, Slots, Listed, Announced, Passed, GuestMarked, SessionJoined, Out,
     Secondaries, CPUs, Boot

\* Every step keeps it
LEMMA SessionStep ==
    ASSUME ~LateStart, LockInv, SessionInv, [Next]_vars
    PROVE  SessionInv'
  <1>1. CASE UNCHANGED vars
    BY <1>1, Zenon DEF vars, lock, session, SessionInv, Slots, Listed, Announced, Passed, GuestMarked, SessionJoined, Out
  <1>2. ASSUME NEW c \in CPUs, Run(c) PROVE SessionInv'
    BY <1>2, RunLocal, LocalKeeps, Zenon DEF LockInv
  <1>3. ASSUME NEW c \in CPUs, Guest(c) \/ Tick(c) \/ Fiq(c) \/ HostReturn(c) \/ Host(c) PROVE SessionInv'
    <2>1. CASE \E d \in Secondaries : HostStart(c, d)
      BY <2>1, StartKeeps, Zenon
    <2>2. CASE \A d \in Secondaries : ~HostStart(c, d)
      BY <1>3, <2>2, OutsideLocal, LocalKeeps, Zenon DEF LockInv
    <2> QED
      BY <2>1, <2>2, Zenon
  <1>4. ASSUME NEW d \in Secondaries, RunSecondary(d) PROVE SessionInv'
    BY <1>4, SecondaryKeeps, Zenon
  <1>5. CASE RunBoot \/ HvStart \/ HvCleanup \/ JoinTimeout
    BY <1>5, BootKeeps, Zenon
  <1> QED
    BY <1>1, <1>2, <1>3, <1>4, <1>5, Zenon DEF Next

\* A CPU in the guest is announced in hv_cpus_in_guest as long as it is there, and no session starts while a CPU of an
\* earlier one is in the guest or on its way: for any number of CPUs, time-outs of hv_join_cpus included, if
\* hv_start_secondary is not called once the boot CPU joins the session
THEOREM SessionSafeTheorem ==
    ASSUME ~LateStart
    PROVE  Spec => []SessionSafe
  <1>1. SessionInv /\ LockInv /\ [Next]_vars => SessionInv'
    BY SessionStep, Zenon
  <1>2. SessionInv => SessionSafe
    BY Zenon DEF SessionInv, SessionSafe
  <1> QED
    BY <1>1, <1>2, SessionInit, LockInvariance, PTL DEF Spec

=============================================================================
