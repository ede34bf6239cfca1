----------------------------- MODULE SmpCalls -----------------------------
(***************************************************************************)
(* Proofs about the dispatch loop of Smp and the calls made through it,    *)
(* for any number of CPUs and any bounds.                                  *)
(*                                                                         *)
(* The inductive invariant CoreInv is a conjunction over the CPUs of what  *)
(* holds of one CPU and its slot, so that a step of one CPU leaves the     *)
(* instances of all the others alone.  CallInv and Ledger add the history  *)
(* of the calls.                                                           *)
(***************************************************************************)
EXTENDS SmpProof

-----------------------------------------------------------------------------
(* The dispatch loop                                                       *)

\* The chips that publish (T8142) or compute (T8152) a CPU's place from its MPIDR; the others depend
\* on CPUs entering while they are being started
Placed == Chip \in {"t8142", "t8152"}
Punctual == Placed \/ ~LateEntry
\* A secondary from taking a call to clearing its slot
InCall == {"ack", "call", "run", "clear"}

\* CPU c finds its own slot and its own stack
Place(c) ==
    /\ rsMpidr[c] \in {0, c}
    /\ Chip = "t8142" \/ flag[c] # 0 => rsMpidr[c] = c
    /\ pc[c] \notin {"off", "reset", "entry"} => index[c] = c
    /\ pc[c] \notin {"off", "reset"} => sp[c] = c
    /\ pc[c] \notin {"off", "reset", "entry", "publish"} => rsMpidr[c] = c
    /\ ~Placed /\ pc[c] \in {"reset", "entry"} /\ rsMpidr[c] = 0 =>
          boot.pc = "start_poll" /\ boot.i = c

\* The slot of c belongs to c, and says what c runs
Slot(c) ==
    /\ mpidr[c] = IF flag[c] # 0 THEN c ELSE 0
    /\ flag[c] = 0 => target[c] = None
    /\ pc[c] \in InCall => fn[c] = target[c] /\ target[c] # None
    /\ pc[c] \in {"run", "clear"} => target[c] = Fn

\* The CPU the boot CPU deals with: no second call can be in its slot
Served(c) ==
    boot.i = c =>
      /\ boot.pc \in {"call_target", "call_kick", "call_wait", "stop_wait", "stop_ack", "stop_check"} =>
            flag[c] # 0
      /\ boot.pc = "call" /\ boot.then = "stop" => flag[c] # 0 /\ target[c] = None
      /\ boot.pc \in {"start_setup", "start_release", "start_poll", "call_target"} => target[c] = None
      /\ boot.pc \in {"stop_ack", "stop_check"} \/ (boot.pc \in Calling /\ boot.then = "stop") =>
            stop[c].pending

\* A pending stop is a cpu_sleep in the slot, or one about to be posted
Stopped(c) ==
    stop[c].pending =>
        \/ target[c] = Sleep
        \/ boot.i = c /\ boot.then = "stop" /\ boot.pc \in {"call", "call_target"}

\* A CPU without a flag is off, or is the one being started
Alive(c) ==
    ~LateEntry =>
      /\ flag[c] = 0 => \/ pc[c] \in {"off", "asleep"}
                        \/ /\ boot.pc = "start_poll" /\ boot.i = c
                           /\ pc[c] \in {"reset", "entry", "publish", "flag"}
      /\ boot.i = c /\ boot.pc \in {"start_setup", "start_release"} => flag[c] = 0

\* A CPU that waits the wrong way round for the mode has a wake-up coming
Mode(c) ==
    /\ Placed => pc[c] \notin {"wfi", "wfisleep"}
    /\ wfe_mode /\ pc[c] \in {"wfi", "wfisleep"} => ipi[c] \/ boot.pc = "mode_ipi"
    /\ ~wfe_mode /\ pc[c] = "wfe" => event[c] \/ boot.pc \in {"mode_ipi", "mode_sev"}

\* So has a CPU that waits, or is about to, with a call in its slot
Wake(c) ==
    target[c] # None /\ ~(boot.i = c /\ boot.pc = "call_kick") =>
      /\ pc[c] = "wfe" \/ (pc[c] = "mode" /\ wfe_mode) =>
            event[c] \/ boot.pc \in {"mode_ipi", "mode_sev"}
      /\ pc[c] \in {"wfi", "wfisleep"} \/ (pc[c] = "mode" /\ ~wfe_mode) =>
            ipi[c] \/ boot.pc = "mode_ipi"

CpuInv(c) == Place(c) /\ Slot(c) /\ Served(c) /\ Stopped(c) /\ Alive(c) /\ Mode(c) /\ Wake(c)

\* The mode and the hand-over to the CPU being started
Globals ==
    /\ Punctual
    /\ Placed => wfe_mode /\ (boot.pc = "mode" => boot.mode)
    /\ ~Placed /\ boot.pc \in {"start_release", "start_poll"} =>
          target_cpu = boot.i /\ reset_stack = boot.i

CoreInv == TypeInv /\ Globals /\ \A c \in CPUs : CpuInv(c)

\* The lookup of start.S and of smp_secondary_entry finds c's own slot or nothing
LEMMA LookupOwn ==
    ASSUME \A i \in CPUs : rsMpidr[i] \in {0, i}, NEW c \in CPUs
    PROVE  /\ Published(c) # {} => First(Published(c)) = c
           /\ Published(c) = {} => rsMpidr[c] = 0
  <1>1. \A i \in CPUs : rsMpidr[i] = c => i = c
    BY Numbers, Zenon
  <1>2. Published(c) # {} => Published(c) = {c}
    BY <1>1, Zenon DEF Published
  <1>3. First({c}) = c
    BY Numbers DEF First
  <1>4. Published(c) = {} => rsMpidr[c] = 0
    BY Zenon DEF Published
  <1> QED
    BY <1>2, <1>3, <1>4, Zenon

\* What CpuInv(j) and CallInv(j) read of CPU j and its slot
Frame(j) ==
    UNCHANGED <<mpidr[j], flag[j], target[j], rsMpidr[j], event[j], ipi[j], pc[j], index[j], sp[j],
                fn[j]>>
Data(j) == UNCHANGED <<args[j], retval[j], arg[j]>>

\* A step of CPU c leaves the boot CPU and the slots and registers of the others alone
LEMMA SecondaryFrame ==
    ASSUME CoreInv, NEW c \in CPUs, Secondary(c)
    PROVE  /\ UNCHANGED <<stop, masks, wfe_mode, target_cpu, reset_stack, boot, bounds, post>>
           /\ \A j \in CPUs \ {c} : Frame(j) /\ Data(j)
  <1>0. TypeOK /\ (pc[c] \notin {"off", "reset", "entry"} => index[c] = c)
    BY Zenon DEF CoreInv, TypeInv, CpuInv, Place
  <1> USE <1>0 DEF Step, TypeOK, table, shared, history, Frame, Data
  <1>1. CASE CpuReset(c) \/ EntryIndex(c)
    BY <1>1 DEF CpuReset, EntryIndex
  <1>2. CASE EntryPublish(c) \/ EntryFlag(c)
    BY <1>2, ZenonT(30) DEF EntryPublish, EntryFlag
  <1>3. CASE Poll(c) \/ ReadMode(c)
    BY <1>3, Zenon DEF Poll, ReadMode
  <1>4. CASE Wfe(c) \/ DeepWfi(c)
    BY <1>4, Zenon DEF Wfe, DeepWfi
  <1>5. CASE WfiWake(c) \/ IpiAck(c)
    BY <1>5, Zenon DEF WfiWake, IpiAck
  <1>6. CASE CallAck(c) \/ CallEnter(c)
    BY <1>6, ZenonT(30) DEF CallAck, CallEnter
  <1>7. CASE CallReturn(c) \/ CallClear(c) \/ PowerOff(c)
    BY <1>7 DEF CallReturn, CallClear, PowerOff
  <1> QED
    BY <1>1, <1>2, <1>3, <1>4, <1>5, <1>6, <1>7, Zenon DEF Secondary, Dispatcher

\* The step of one CPU preserves the invariant of every other
LEMMA OthersKept ==
    ASSUME NEW c \in CPUs, CpuInv(c), Frame(c), UNCHANGED <<stop, wfe_mode, boot, soc>>
    PROVE  CpuInv(c)'
  <1>1. Place(c)'
    BY Zenon DEF CpuInv, Place, Frame, Placed, Chip, LateEntry
  <1>2. Slot(c)'
    BY Zenon DEF CpuInv, Slot, Frame, Placed, Chip, LateEntry
  <1>3. Served(c)'
    BY Zenon DEF CpuInv, Served, Slot, Stopped, Frame, Placed, Chip, LateEntry
  <1>4. Stopped(c)'
    BY Zenon DEF CpuInv, Stopped, Served, Frame, Placed, Chip, LateEntry
  <1>5. Alive(c)'
    BY Zenon DEF CpuInv, Alive, Served, Frame, Placed, Chip, LateEntry
  <1>6. Mode(c)'
    BY Zenon DEF CpuInv, Mode, Frame, Placed, Chip, LateEntry
  <1>7. Wake(c)'
    BY Zenon DEF CpuInv, Wake, Mode, Slot, Frame, Placed, Chip, LateEntry
  <1> QED
    BY <1>1, <1>2, <1>3, <1>4, <1>5, <1>6, <1>7, Zenon DEF CpuInv

\* The step of a CPU preserves its own invariant
LEMMA OwnKept ==
    ASSUME CoreInv, NEW c \in CPUs, Secondary(c), UNCHANGED soc
    PROVE  CpuInv(c)'
  <1>0. /\ TypeOK /\ BootOK /\ CpuInv(c) /\ Globals /\ c \in Nat \ {0}
        /\ \A i \in CPUs : rsMpidr[i] \in {0, i}
    BY Numbers, Zenon DEF CoreInv, TypeInv, CpuInv, Place
  <1>1. UNCHANGED <<stop, wfe_mode, boot>>
    BY SecondaryFrame, Zenon
  <1> USE <1>0, <1>1 DEF Step, TypeOK, CpuInv, Placed, Chip, LateEntry, table, shared, InCall
  <1>2. CASE CpuReset(c)
    <2>1. sp' = [sp EXCEPT ![c] = c]
      BY <1>2, LookupOwn, Zenon DEF CpuReset, Globals, Place
    <2>2. /\ pc[c] = "reset" /\ pc'[c] = "entry" /\ sp'[c] = c
          /\ UNCHANGED <<mpidr, flag, target, rsMpidr, event, ipi, index, fn>>
      BY <1>2, <2>1, Zenon DEF CpuReset
    <2> HIDE DEF TypeOK
    <2> QED
      BY <2>2, Zenon DEF Place, Slot, Served, Stopped, Alive, Mode, Wake
  <1>3. CASE EntryIndex(c)
    <2>1. index' = [index EXCEPT ![c] = c]
      BY <1>3, LookupOwn, Zenon DEF EntryIndex, Globals, Place
    <2>2. /\ pc[c] = "entry" /\ pc'[c] = "publish" /\ index'[c] = c
          /\ UNCHANGED <<mpidr, flag, target, rsMpidr, event, ipi, sp, fn>>
      BY <1>3, <2>1, Zenon DEF EntryIndex
    <2> HIDE DEF TypeOK
    <2> QED
      BY <2>2, Zenon DEF Place, Slot, Served, Stopped, Alive, Mode, Wake
  <1>4. CASE EntryPublish(c)
    BY <1>4, ZenonT(30) DEF EntryPublish, Place, Slot, Served, Stopped, Alive, Mode, Wake
  <1>5. CASE EntryFlag(c)
    <2>1. /\ pc[c] = "flag" /\ pc'[c] = "poll" /\ mpidr'[c] = c /\ flag'[c] = flag[c] + 1
          /\ flag[c] \in Nat /\ index[c] = c
          /\ UNCHANGED <<target, rsMpidr, event, ipi, index, sp, fn>>
      BY <1>5, Zenon DEF EntryFlag, Place
    <2>2. flag'[c] # 0
      BY <2>1
    <2> HIDE DEF TypeOK
    <2> QED
      BY <2>1, <2>2, Zenon DEF Place, Slot, Served, Stopped, Alive, Mode, Wake
  <1>6. CASE Poll(c)
    BY <1>6, Zenon DEF Poll, Place, Slot, Served, Stopped, Alive, Mode, Wake
  <1>7. CASE ReadMode(c)
    <2>1. /\ pc[c] = "mode" /\ pc'[c] = IF wfe_mode THEN "wfe" ELSE "wfi"
          /\ UNCHANGED <<mpidr, flag, target, rsMpidr, event, ipi, index, sp, fn>>
      BY <1>7, Zenon DEF ReadMode
    <2> HIDE DEF TypeOK
    <2> QED
      BY <2>1, Zenon DEF Place, Slot, Served, Stopped, Alive, Mode, Wake, Globals
  <1>8. CASE Wfe(c)
    BY <1>8, Zenon DEF Wfe, Place, Slot, Served, Stopped, Alive, Mode, Wake
  <1>9. CASE DeepWfi(c)
    <2>1. /\ pc[c] = "wfi" /\ pc'[c] = IF ipi[c] THEN "ipi" ELSE "wfisleep"
          /\ UNCHANGED <<mpidr, flag, target, rsMpidr, event, ipi, index, sp, fn>>
      BY <1>9, Zenon DEF DeepWfi
    <2> HIDE DEF TypeOK
    <2> QED
      BY <2>1, Zenon DEF Place, Slot, Served, Stopped, Alive, Mode, Wake
  <1>10. CASE WfiWake(c)
    BY <1>10, Zenon DEF WfiWake, Place, Slot, Served, Stopped, Alive, Mode, Wake
  <1>11. CASE IpiAck(c)
    BY <1>11, Zenon DEF IpiAck, Place, Slot, Served, Stopped, Alive, Mode, Wake
  <1>12. CASE CallAck(c)
    <2>1. /\ pc[c] = "ack" /\ pc'[c] = "call" /\ flag'[c] = flag[c] + 1
          /\ flag[c] \in Nat /\ index[c] = c
          /\ UNCHANGED <<mpidr, target, rsMpidr, event, ipi, index, sp, fn>>
      BY <1>12, Zenon DEF CallAck, Place
    <2>2. flag'[c] # 0 /\ flag[c] # 0
      BY <2>1 DEF Slot
    <2> HIDE DEF TypeOK
    <2> QED
      BY <2>1, <2>2, Zenon DEF Place, Slot, Served, Stopped, Alive, Mode, Wake
  <1>13. CASE CallEnter(c)
    BY <1>13, Zenon DEF CallEnter, Place, Slot, Served, Stopped, Alive, Mode, Wake, Functions
  <1>14. CASE CallReturn(c)
    BY <1>14, Zenon DEF CallReturn, Place, Slot, Served, Stopped, Alive, Mode, Wake
  <1>15. CASE CallClear(c)
    BY <1>15, Zenon DEF CallClear, Place, Slot, Served, Stopped, Alive, Mode, Wake, Fn, Sleep
  <1>16. CASE PowerOff(c)
    BY <1>16, Zenon DEF PowerOff, Place, Slot, Served, Stopped, Alive, Mode, Wake
  <1> QED
    BY <1>2, <1>3, <1>4, <1>5, <1>6, <1>7, <1>8, <1>9, <1>10, <1>11, <1>12, <1>13, <1>14, <1>15,
       <1>16, Zenon DEF Secondary, Dispatcher

\* The mode and the boot CPU's own state agree with the chip
LEMMA BootGlobals ==
    ASSUME CoreInv, Boot, UNCHANGED soc
    PROVE  Globals'
  <1>0. /\ TypeOK /\ BootOK /\ Globals /\ boot \in BootLocals
        /\ (Placed' <=> Placed) /\ (Punctual' <=> Punctual)
    BY Zenon DEF CoreInv, TypeInv, TypeOK, Placed, Punctual, Chip, LateEntry
  <1> USE <1>0 DEF Globals
  <1>1. CASE StartSetup
    <2>1. /\ boot'.pc = "start_release" /\ boot'.i = boot.i /\ wfe_mode' = wfe_mode
          /\ ~Placed => target_cpu' = boot.i /\ reset_stack' = boot.i
      BY <1>1, Goes, Zenon DEF StartSetup, Go, shared, Placed
    <2> QED
      BY <2>1, Zenon
  <1>2. CASE StartRelease
    <2>1. /\ boot.pc = "start_release" /\ boot'.pc = "start_poll" /\ boot'.i = boot.i
          /\ UNCHANGED <<wfe_mode, target_cpu, reset_stack>>
      BY <1>2, Goes, Zenon DEF StartRelease, Go, shared
    <2> QED
      BY <2>1, Zenon
  <1>3. CASE ModeStore
    <2>1. boot'.pc \in {"mode_ipi", "mode_sev"} /\ wfe_mode' = boot.mode /\ boot.pc = "mode"
      BY <1>3, ModeStoreMoves, Zenon DEF ModeStore, Go
    <2> QED
      BY <2>1, Zenon
  <1>4. ASSUME wfe_mode' = wfe_mode, boot'.pc \notin {"start_release", "start_poll"},
               Placed /\ boot'.pc = "mode" => boot'.mode
        PROVE  Globals'
    BY <1>4, Zenon
  <1>5. CASE \/ StartCheck \/ StartOk \/ StartTimeout \/ CallRefuse \/ CallPrepare \/ CallTarget
             \/ CallKick \/ CallOk \/ CallTimeout
    <2>1. boot'.pc \notin {"start_release", "start_poll", "mode"}
      BY <1>5, StartCheckMoves, LoopMoves, StartTimeoutMoves, CallRefuseMoves, CallPrepareMoves,
         Goes, CallEnds, Zenon DEF Done, Go, Loop
    <2>2. wfe_mode' = wfe_mode
      BY <1>5, Zenon DEF StartCheck, StartOk, StartTimeout, CallRefuse, CallPrepare, CallTarget, CallKick,
                  CallOk, CallTimeout, shared
    <2> QED
      BY <1>4, <2>1, <2>2, Zenon
  <1>6. CASE \/ WaitDone \/ WaitTimeout \/ ModeIpi \/ ModeSev \/ StopCheck \/ StopPost \/ StopBusy
             \/ StopAcked \/ StopUnacked \/ StopDone \/ StopFailed
    <2>1. boot'.pc \notin {"start_release", "start_poll", "mode"}
      BY <1>6, WaitDoneMoves, ShortReturns, ModeSevMoves, StopCheckMoves, StopPostMoves, LoopMoves,
         Goes, Zenon DEF Done, Go, Loop
    <2>2. wfe_mode' = wfe_mode
      BY <1>6, Zenon DEF WaitDone, WaitTimeout, ModeIpi, ModeSev, StopCheck, StopPost, StopBusy, StopAcked,
                  StopUnacked, StopDone, StopFailed, shared
    <2> QED
      BY <1>4, <2>1, <2>2, Zenon
  <1>7. ASSUME NEW i \in CPUs, Call(i) \/ Wait(i) \/ GetReleaseAddr(i)
        PROVE  Globals'
    <2>1. boot'.pc \in {"idle", "call", "wait"}
      BY <1>7, CallMoves, WaitMoves, ShortReturns, Zenon DEF Done, Enter
    <2> QED
      BY <1>4, <1>7, <2>1, Zenon DEF Call, Wait, GetReleaseAddr, shared
  <1>8. CASE StartSecondaries
    <2>1. boot'.pc = "idle" \/ (boot'.pc \in {"mode", "start"} /\ boot'.mode)
      BY <1>8, StartSecondariesMoves, Zenon DEF Done, Enter
    <2> QED
      BY <1>4, <1>8, <2>1, Zenon DEF StartSecondaries, shared
  <1>9. ASSUME NEW b \in BOOLEAN, SetWfeMode(b)
        PROVE  Globals'
    <2>1. boot'.pc = "idle" \/ (boot'.pc = "mode" /\ (Placed => boot'.mode))
      BY <1>9, SetWfeModeMoves, Zenon DEF Done, Enter, Placed
    <2> QED
      BY <1>4, <1>9, <2>1, Zenon DEF SetWfeMode, shared
  <1>10. ASSUME NEW b \in BOOLEAN, StopSecondaries(b)
         PROVE  Globals'
    <2>1. boot'.pc = "idle" \/ (boot'.pc = "mode" /\ boot'.mode)
      BY <1>10, StopSecondariesMoves, Zenon DEF Done, Enter
    <2> QED
      BY <1>4, <1>10, <2>1, Zenon DEF StopSecondaries, shared
  <1> QED
    BY <1>1, <1>2, <1>3, <1>5, <1>6, <1>7, <1>8, <1>9, <1>10, Zenon DEF Boot

\* A step that only takes the boot CPU to another place
LEMMA QuietMove ==
    ASSUME NEW c \in CPUs, CpuInv(c), Frame(c), UNCHANGED <<stop, wfe_mode, soc>>,
           boot.pc \notin {"mode_ipi", "mode_sev", "start_poll", "call", "call_target", "call_kick"},
           Served(c)',
           boot'.i = c /\ boot'.pc \in {"start_setup", "start_release"} => flag[c] = 0
    PROVE  CpuInv(c)'
  <1>1. Place(c)'
    BY Zenon DEF CpuInv, Place, Frame, Placed, Chip, LateEntry
  <1>2. Slot(c)'
    BY Zenon DEF CpuInv, Slot, Frame, Placed, Chip, LateEntry
  <1>4. Stopped(c)'
    BY Zenon DEF CpuInv, Stopped, Served, Frame, Placed, Chip, LateEntry
  <1>5. Alive(c)'
    BY Zenon DEF CpuInv, Alive, Served, Frame, Placed, Chip, LateEntry
  <1>6. Mode(c)'
    BY Zenon DEF CpuInv, Mode, Frame, Placed, Chip, LateEntry
  <1>7. Wake(c)'
    BY Zenon DEF CpuInv, Wake, Mode, Slot, Frame, Placed, Chip, LateEntry
  <1> QED
    BY <1>1, <1>2, <1>4, <1>5, <1>6, <1>7, Zenon DEF CpuInv

\* The steps of the boot CPU that write nothing the invariant reads
LEMMA BootQuiet ==
    ASSUME CoreInv, UNCHANGED soc, NEW c \in CPUs,
           \/ StartSecondaries \/ StartCheck \/ WaitDone \/ WaitTimeout \/ CallOk \/ CallTimeout
           \/ \E i \in CPUs : Call(i) \/ Wait(i) \/ GetReleaseAddr(i)
           \/ \E b \in BOOLEAN : SetWfeMode(b) \/ StopSecondaries(b)
           \/ StopCheck \/ StopBusy \/ StopAcked \/ StopUnacked \/ StopFailed
    PROVE  CpuInv(c)'
  <1>0. TypeOK /\ BootOK /\ CpuInv(c) /\ Served(c) /\ Slot(c) /\ boot \in BootLocals
    BY Zenon DEF CoreInv, TypeInv, TypeOK, CpuInv
  <1>1. Frame(c) /\ UNCHANGED <<stop, wfe_mode, flag, target>>
    BY Zenon DEF Frame, table, shared, secondary, StartSecondaries, StartCheck, WaitDone, WaitTimeout,
       CallOk, CallTimeout, Call,
           Wait, GetReleaseAddr, SetWfeMode, StopSecondaries, StopCheck, StopBusy, StopAcked,
              StopUnacked, StopFailed
  <1> USE <1>0, <1>1
  <1>4. CASE StartSecondaries
    <2>1. boot.pc = "idle" /\ boot'.pc \in {"idle", "mode", "start"}
      BY <1>4, StartSecondariesMoves, Zenon DEF Done, Enter
    <2> QED
      BY <2>1, QuietMove, Zenon DEF Served, Calling
  <1>5. CASE StartCheck
    <2>1. /\ boot.pc = "start"
          /\ \/ boot'.pc \in {"idle", "start"}
             \/ boot'.pc = "start_setup" /\ boot'.i = boot.i /\ flag[boot.i] = 0
      BY <1>5, StartCheckMoves, Zenon DEF Done, Go, Loop
    <2> QED
      BY <2>1, QuietMove, Zenon DEF Served, Slot, Calling
  <1>6. CASE WaitDone \/ WaitTimeout
    <2>1. boot.pc = "wait" /\ boot'.pc = "idle"
      BY <1>6, WaitDoneMoves, ShortReturns, Zenon DEF Done
    <2> QED
      BY <2>1, QuietMove, Zenon DEF Served, Calling
  <1>7. CASE CallOk \/ CallTimeout
    <2>1. /\ boot.pc = "call_wait"
          /\ boot'.pc = "idle" \/ (boot.then = "stop" /\ boot'.pc = "stop_ack" /\ boot'.i = boot.i)
      BY <1>7, CallEnds, Zenon DEF Done, Go
    <2> QED
      BY <2>1, QuietMove, Zenon DEF Served, Calling
  <1>8. ASSUME NEW i \in CPUs, Call(i) \/ Wait(i) \/ GetReleaseAddr(i)
        PROVE  CpuInv(c)'
    <2>1. /\ boot.pc = "idle"
          /\ boot'.pc \in {"idle", "wait"} \/ (boot'.pc = "call" /\ boot'.then = "call")
      BY <1>8, CallMoves, WaitMoves, ShortReturns, Zenon DEF Done, Enter
    <2> QED
      BY <2>1, QuietMove, Zenon DEF Served, Calling
  <1>9. ASSUME NEW b \in BOOLEAN, SetWfeMode(b) \/ StopSecondaries(b)
        PROVE  CpuInv(c)'
    <2>1. boot.pc = "idle" /\ boot'.pc \in {"idle", "mode"}
      BY <1>9, SetWfeModeMoves, StopSecondariesMoves, Zenon DEF Done, Enter
    <2> QED
      BY <2>1, QuietMove, Zenon DEF Served, Calling
  <1>10. CASE StopCheck
    <2>1. /\ boot.pc = "stop"
          /\ \/ boot'.pc \in {"idle", "stop"}
             \/ /\ flag[boot.i] # 0 /\ boot'.i = boot.i
                /\ boot'.pc = "stop_wait" \/ (boot'.pc = "stop_ack" /\ stop[boot.i].pending)
      BY <1>10, StopCheckMoves, Zenon DEF Done, Go, Loop
    <2> QED
      BY <2>1, QuietMove, Zenon DEF Served, Calling
  <1>11. CASE StopBusy \/ StopUnacked \/ StopFailed
    <2>1. boot.pc \in {"stop_wait", "stop_ack", "stop_check"} /\ boot'.pc \in {"idle", "stop"}
      BY <1>11, LoopMoves, Zenon DEF Done, Loop
    <2> QED
      BY <2>1, QuietMove, Zenon DEF Served, Calling
  <1>12. CASE StopAcked
    <2>1. boot.pc = "stop_ack" /\ boot'.pc = "stop_check" /\ boot'.i = boot.i
      BY <1>12, Goes, Zenon DEF Go
    <2> QED
      BY <2>1, QuietMove, Zenon DEF Served, Calling
  <1> QED
    BY <1>4, <1>5, <1>6, <1>7, <1>8, <1>9, <1>10, <1>11, <1>12, Zenon

\* The steps of the boot CPU that do write to the spin table or wake CPUs
LEMMA BootLoud ==
    ASSUME CoreInv, UNCHANGED soc, NEW c \in CPUs,
           \/ StartSetup \/ StartRelease \/ StartOk \/ StartTimeout
           \/ CallRefuse \/ CallPrepare \/ CallTarget \/ CallKick
           \/ ModeStore \/ ModeIpi \/ ModeSev \/ StopPost \/ StopDone
    PROVE  CpuInv(c)'
  <1>0. /\ TypeOK /\ BootOK /\ CpuInv(c) /\ Globals /\ boot \in BootLocals /\ c \in Nat \ {0}
        /\ Place(c) /\ Slot(c) /\ Served(c) /\ Stopped(c) /\ Alive(c) /\ Mode(c) /\ Wake(c)
    BY Numbers, Zenon DEF CoreInv, TypeInv, TypeOK, CpuInv
  <1> USE <1>0 DEF Placed, Chip, LateEntry, Calling
  <1>1. CASE StartSetup
    <2>1. boot.pc = "start_setup" /\ boot'.pc = "start_release" /\ boot'.i = boot.i /\ boot.i \in CPUs
      BY <1>1, Goes, Zenon DEF Go, BootOK, Moding
    <2>2. UNCHANGED <<stop, wfe_mode, rsMpidr, event, ipi, pc, index, sp, fn>>
      BY <1>1, Zenon DEF StartSetup, shared, secondary
    <2>3. \/ c # boot.i /\ UNCHANGED <<mpidr[c], flag[c], target[c]>>
          \/ Chip = "t8152" /\ UNCHANGED <<mpidr[c], flag[c], target[c]>>
          \/ c = boot.i /\ Chip # "t8152" /\ mpidr'[c] = 0 /\ flag'[c] = 0 /\ target'[c] = None
      BY <1>1, <2>1 DEF StartSetup, ClearSlot, table, TypeOK
    <2>10. Place(c)'
      BY <2>1, <2>2, <2>3, Zenon DEF Place, InCall
    <2>11. Slot(c)'
      BY <2>1, <2>2, <2>3, Zenon DEF Slot, Served, InCall
    <2>12. Served(c)'
      BY <2>1, <2>2, <2>3, Zenon DEF Served, Slot, Stopped, InCall
    <2>13. Stopped(c)'
      BY <2>1, <2>2, <2>3, Zenon DEF Stopped, Served, InCall
    <2>14. Alive(c)'
      BY <2>1, <2>2, <2>3, Zenon DEF Alive, Served, InCall
    <2>15. Mode(c)'
      BY <2>1, <2>2, <2>3, Zenon DEF Mode, InCall
    <2>16. Wake(c)'
      BY <2>1, <2>2, <2>3, Zenon DEF Wake, Mode, Slot, InCall
    <2> QED
      BY <2>10, <2>11, <2>12, <2>13, <2>14, <2>15, <2>16, Zenon DEF CpuInv
  <1>2. CASE StartRelease
    <2>1. boot.pc = "start_release" /\ boot'.pc = "start_poll" /\ boot'.i = boot.i /\ boot.i \in CPUs
      BY <1>2, Goes, Zenon DEF Go, BootOK, Moding
    <2>2. UNCHANGED <<mpidr, flag, target, stop, wfe_mode, rsMpidr, ipi, index, sp, fn>>
      BY <1>2, Zenon DEF StartRelease, table, shared
    <2>3. event'[c] = event[c] \/ event'[c] = TRUE
      BY <1>2, Zenon DEF StartRelease, Sev
    <2>4. pc'[c] = pc[c] \/ (c = boot.i /\ pc[c] = "off" /\ pc'[c] = "reset")
      BY <1>2, Zenon DEF StartRelease, TypeOK
    <2>10. Place(c)'
      BY <2>1, <2>2, <2>3, <2>4, Zenon DEF Place, InCall
    <2>11. Slot(c)'
      BY <2>1, <2>2, <2>3, <2>4, Zenon DEF Slot, InCall
    <2>12. Served(c)'
      BY <2>1, <2>2, <2>3, <2>4, Zenon DEF Served, Slot, Stopped, InCall
    <2>13. Stopped(c)'
      BY <2>1, <2>2, <2>3, <2>4, Zenon DEF Stopped, Served, InCall
    <2>14. Alive(c)'
      BY <2>1, <2>2, <2>3, <2>4, Zenon DEF Alive, Served, InCall
    <2>15. Mode(c)'
      BY <2>1, <2>2, <2>3, <2>4, Zenon DEF Mode, InCall
    <2>16. Wake(c)'
      BY <2>1, <2>2, <2>3, <2>4, Zenon DEF Wake, Mode, Slot, InCall
    <2> QED
      BY <2>10, <2>11, <2>12, <2>13, <2>14, <2>15, <2>16, Zenon DEF CpuInv
  <1>3. CASE StartOk \/ StartTimeout
    <2>1. boot.pc = "start_poll" /\ boot'.pc \in {"start", "idle"} /\ boot.i \in CPUs
      BY <1>3, LoopMoves, StartTimeoutMoves, Zenon DEF Loop, Done, BootOK, Moding
    <2>2. UNCHANGED <<mpidr, flag, target, stop, wfe_mode, rsMpidr, event, ipi, pc, index, sp, fn>>
      BY <1>3, Zenon DEF StartOk, StartTimeout, table, secondary
    <2>3. flag[boot.i] # 0 \/ LateEntry \/ pc[boot.i] = "off"
      BY <1>3, Zenon DEF StartOk, StartTimeout
    <2>10. Place(c)'
      BY <2>1, <2>2, <2>3, Zenon DEF Place, Globals, Punctual
    <2>11. Slot(c)'
      BY <2>1, <2>2, <2>3, Zenon DEF Slot, Globals, Punctual
    <2>12. Served(c)'
      BY <2>1, <2>2, <2>3, Zenon DEF Served, Slot, Stopped, Globals, Punctual
    <2>13. Stopped(c)'
      BY <2>1, <2>2, <2>3, Zenon DEF Stopped, Served, Globals, Punctual
    <2>14. Alive(c)'
      BY <2>1, <2>2, <2>3, Zenon DEF Alive, Served, Globals, Punctual
    <2>15. Mode(c)'
      BY <2>1, <2>2, <2>3, Zenon DEF Mode, Globals, Punctual
    <2>16. Wake(c)'
      BY <2>1, <2>2, <2>3, Zenon DEF Wake, Mode, Slot, Globals, Punctual
    <2> QED
      BY <2>10, <2>11, <2>12, <2>13, <2>14, <2>15, <2>16, Zenon DEF CpuInv
  <1>4. CASE CallRefuse
    <2>1. boot.pc = "call" /\ boot'.pc \in {"stop", "idle"} /\ boot.i \in CPUs
      BY <1>4, CallRefuseMoves, Zenon DEF Loop, Done, BootOK, Moding
    <2>2. UNCHANGED <<mpidr, flag, target, wfe_mode, rsMpidr, event, ipi, pc, index, sp, fn>>
      BY <1>4, Zenon DEF CallRefuse, table, shared, secondary
    <2>3. \/ stop'[c] = stop[c] /\ (boot.i # c \/ boot.then # "stop")
          \/ boot.i = c /\ stop'[c].pending = FALSE
      BY <1>4, <2>1, Zenon DEF CallRefuse, TypeOK
    <2>10. Place(c)'
      BY <2>1, <2>2, <2>3, Zenon DEF Place
    <2>11. Slot(c)'
      BY <2>1, <2>2, <2>3, Zenon DEF Slot
    <2>12. Served(c)'
      BY <2>1, <2>2, <2>3, Zenon DEF Served, Slot, Stopped
    <2>13. Stopped(c)'
      BY <2>1, <2>2, <2>3, Zenon DEF Stopped, Served
    <2>14. Alive(c)'
      BY <2>1, <2>2, <2>3, Zenon DEF Alive, Served
    <2>15. Mode(c)'
      BY <2>1, <2>2, <2>3, Zenon DEF Mode
    <2>16. Wake(c)'
      BY <2>1, <2>2, <2>3, Zenon DEF Wake, Mode, Slot
    <2> QED
      BY <2>10, <2>11, <2>12, <2>13, <2>14, <2>15, <2>16, Zenon DEF CpuInv
  <1>5. CASE CallPrepare
    <2>1. boot.pc = "call" /\ boot'.pc = "call_target" /\ boot'.i = boot.i /\ boot'.then = boot.then
      BY <1>5, CallPrepareMoves, Zenon DEF Go
    <2>2. UNCHANGED <<mpidr, flag, target, stop, wfe_mode, rsMpidr, event, ipi, pc, index, sp, fn>>
      BY <1>5, Zenon DEF CallPrepare, shared, secondary
    <2>3. flag[boot.i] # 0 /\ target[boot.i] = None
      BY <1>5, Zenon DEF CallPrepare
    <2>10. Place(c)'
      BY <2>1, <2>2, <2>3, Zenon DEF Place
    <2>11. Slot(c)'
      BY <2>1, <2>2, <2>3, Zenon DEF Slot
    <2>12. Served(c)'
      BY <2>1, <2>2, <2>3, Zenon DEF Served, Slot, Stopped
    <2>13. Stopped(c)'
      BY <2>1, <2>2, <2>3, Zenon DEF Stopped, Served
    <2>14. Alive(c)'
      BY <2>1, <2>2, <2>3, Zenon DEF Alive, Served
    <2>15. Mode(c)'
      BY <2>1, <2>2, <2>3, Zenon DEF Mode
    <2>16. Wake(c)'
      BY <2>1, <2>2, <2>3, Zenon DEF Wake, Mode, Slot
    <2> QED
      BY <2>10, <2>11, <2>12, <2>13, <2>14, <2>15, <2>16, Zenon DEF CpuInv
  <1>6. CASE CallTarget
    <2>1. /\ boot.pc = "call_target" /\ boot'.pc = "call_kick"
          /\ boot'.i = boot.i /\ boot'.then = boot.then
          /\ boot.i \in CPUs /\ boot.fn \in {Fn, Sleep} /\ (boot.then = "stop" => boot.fn = Sleep)
      BY <1>6, Goes, Zenon DEF Go, BootOK, Moding
    <2>2. UNCHANGED <<mpidr, flag, stop, wfe_mode, rsMpidr, event, ipi, pc, index, sp, fn>>
      BY <1>6, Zenon DEF CallTarget, shared, secondary
    <2>3. target'[c] = IF c = boot.i THEN boot.fn ELSE target[c]
      BY <1>6, Zenon DEF CallTarget, TypeOK
    <2>10. Place(c)'
      BY <2>1, <2>2, <2>3, Zenon DEF Place, InCall, Fn, Sleep, None
    <2>11. Slot(c)'
      BY <2>1, <2>2, <2>3 DEF Slot, Served, InCall, Fn, Sleep, None
    <2>12. Served(c)'
      BY <2>1, <2>2, <2>3, Zenon DEF Served, Slot, Stopped, InCall, Fn, Sleep, None
    <2>13. Stopped(c)'
      BY <2>1, <2>2, <2>3, Zenon DEF Stopped, Served, InCall, Fn, Sleep, None
    <2>14. Alive(c)'
      BY <2>1, <2>2, <2>3, Zenon DEF Alive, Served, InCall, Fn, Sleep, None
    <2>15. Mode(c)'
      BY <2>1, <2>2, <2>3, Zenon DEF Mode, InCall, Fn, Sleep, None
    <2>16. Wake(c)'
      BY <2>1, <2>2, <2>3, Zenon DEF Wake, Mode, Slot, InCall, Fn, Sleep, None
    <2> QED
      BY <2>10, <2>11, <2>12, <2>13, <2>14, <2>15, <2>16, Zenon DEF CpuInv
  <1>7. CASE CallKick
    <2>1. /\ boot.pc = "call_kick" /\ boot'.pc = "call_wait"
          /\ boot'.i = boot.i /\ boot'.then = boot.then
      BY <1>7, Goes, Zenon DEF Go
    <2>2. UNCHANGED <<mpidr, flag, target, stop, wfe_mode, rsMpidr, pc, index, sp, fn>>
      BY <1>7, Zenon DEF CallKick, table, shared, secondary
    <2>3. event'[c] = (event[c] \/ wfe_mode)
      BY <1>7, Zenon DEF CallKick, Sev, TypeOK
    <2>4. ipi'[c] = (ipi[c] \/ (~wfe_mode /\ c = IpiDest(boot.i)))
      BY <1>7, Zenon DEF CallKick
    <2>5. boot.i = c => IpiDest(boot.i) = c
      BY <2>1, Zenon DEF IpiDest, Slot, Served
    <2>7. Place(c)' /\ Slot(c)' /\ Alive(c)'
      BY <2>1, <2>2, <2>3, <2>4, <2>5, Zenon DEF Place, Slot, Served, Alive
    <2>8. Served(c)' /\ Stopped(c)'
      BY <2>1, <2>2, <2>3, <2>4, <2>5, Zenon DEF Slot, Served, Stopped
    <2>9. Mode(c)'
      BY <2>1, <2>2, <2>3, <2>4, <2>5, Zenon DEF Mode
    <2>10. Wake(c)'
      BY <2>1, <2>2, <2>3, <2>4, <2>5, Zenon DEF Slot, Mode, Wake
    <2> QED
      BY <2>7, <2>8, <2>9, <2>10, Zenon DEF CpuInv
  <1>8. CASE ModeStore
    <2>1. /\ boot.pc = "mode"
          /\ boot'.pc = IF Chip = "t8142" THEN "mode_sev" ELSE "mode_ipi"
      BY <1>8, ModeStoreMoves, Zenon DEF Go
    <2>2. UNCHANGED <<mpidr, flag, target, stop, rsMpidr, event, ipi, pc, index, sp, fn>>
      BY <1>8, Zenon DEF ModeStore, table, secondary
    <2>3. Chip = "t8142" => wfe_mode'
      BY <1>8, <2>1, Zenon DEF ModeStore, Globals
    <2>10. Place(c)'
      BY <2>1, <2>2, <2>3, Zenon DEF Place
    <2>11. Slot(c)'
      BY <2>1, <2>2, <2>3, Zenon DEF Slot
    <2>12. Served(c)'
      BY <2>1, <2>2, <2>3, Zenon DEF Served, Slot, Stopped
    <2>13. Stopped(c)'
      BY <2>1, <2>2, <2>3, Zenon DEF Stopped, Served
    <2>14. Alive(c)'
      BY <2>1, <2>2, <2>3, Zenon DEF Alive, Served
    <2>15. Mode(c)'
      BY <2>1, <2>2, <2>3, Zenon DEF Mode
    <2>16. Wake(c)'
      BY <2>1, <2>2, <2>3, Zenon DEF Wake, Mode, Slot
    <2> QED
      BY <2>10, <2>11, <2>12, <2>13, <2>14, <2>15, <2>16, Zenon DEF CpuInv
  <1>9. CASE ModeIpi
    <2>1. boot.pc = "mode_ipi" /\ boot'.pc = "mode_sev"
      BY <1>9, Goes, Zenon DEF Go
    <2>2. UNCHANGED <<mpidr, flag, target, stop, wfe_mode, rsMpidr, event, pc, index, sp, fn>>
      BY <1>9, Zenon DEF ModeIpi, table, shared, secondary
    <2>3. (ipi[c] => ipi'[c]) /\ (Chip # "t8152" /\ flag[c] # 0 => ipi'[c])
      <3>1. flag[c] # 0 => IpiDest(c) = c
        BY Zenon DEF IpiDest, Slot
      <3> QED
        BY <1>9, <3>1, Zenon DEF ModeIpi
    <2>4. pc[c] \in {"wfi", "wfisleep"} => flag[c] # 0 /\ Chip # "t8152"
      BY <2>1, Zenon DEF Alive, Mode, Globals, Punctual
    <2>5. target[c] # None => flag[c] # 0
      BY Zenon DEF Slot
    <2>6. Chip = "t8152" => wfe_mode
      BY Zenon DEF Globals
    <2>7. Place(c)' /\ Slot(c)' /\ Alive(c)'
      BY <2>1, <2>2, <2>3, <2>4, <2>5, <2>6, Zenon DEF Place, Slot, Served, Alive
    <2>8. Served(c)' /\ Stopped(c)'
      BY <2>1, <2>2, <2>3, <2>4, <2>5, <2>6, Zenon DEF Slot, Served, Stopped
    <2>9. Mode(c)'
      BY <2>1, <2>2, <2>3, <2>4, <2>5, <2>6, Zenon DEF Mode
    <2>10. Wake(c)'
      BY <2>1, <2>2, <2>3, <2>4, <2>5, <2>6, Zenon DEF Slot, Mode, Wake
    <2> QED
      BY <2>7, <2>8, <2>9, <2>10, Zenon DEF CpuInv
  <1>10. CASE ModeSev
    <2>1. boot.pc = "mode_sev" /\ boot'.pc \in {"idle", "start", "stop"}
      BY <1>10, ModeSevMoves, Zenon DEF Done, Go
    <2>2. UNCHANGED <<mpidr, flag, target, stop, wfe_mode, rsMpidr, ipi, pc, index, sp, fn>>
      BY <1>10, Zenon DEF ModeSev, table, shared, secondary
    <2>3. event'[c] = TRUE
      BY <1>10, Zenon DEF ModeSev, Sev
    <2>7. Place(c)' /\ Slot(c)' /\ Alive(c)'
      BY <2>1, <2>2, <2>3, Zenon DEF Place, Slot, Served, Alive
    <2>8. Served(c)' /\ Stopped(c)'
      BY <2>1, <2>2, <2>3, Zenon DEF Slot, Served, Stopped
    <2>9. Mode(c)'
      BY <2>1, <2>2, <2>3, Zenon DEF Mode
    <2>10. Wake(c)'
      BY <2>1, <2>2, <2>3, Zenon DEF Slot, Mode, Wake
    <2> QED
      BY <2>7, <2>8, <2>9, <2>10, Zenon DEF CpuInv
  <1>11. CASE StopPost
    <2>1. /\ boot.pc = "stop_wait" /\ boot'.pc = "call" /\ boot'.i = boot.i /\ boot'.then = "stop"
          /\ boot.i \in CPUs
      BY <1>11, StopPostMoves, Zenon DEF BootOK, Moding
    <2>2. UNCHANGED <<mpidr, flag, target, wfe_mode, rsMpidr, event, ipi, pc, index, sp, fn>>
      BY <1>11, Zenon DEF StopPost, table, shared, secondary
    <2>3. \/ c # boot.i /\ stop'[c] = stop[c]
          \/ c = boot.i /\ stop'[c].pending = TRUE
      BY <1>11, <2>1, Zenon DEF StopPost, TypeOK
    <2>4. target[boot.i] = None
      BY <1>11, Zenon DEF StopPost
    <2>7. Place(c)' /\ Slot(c)' /\ Alive(c)'
      BY <2>1, <2>2, <2>3, <2>4, Zenon DEF Place, Slot, Served, Alive
    <2>8. Served(c)' /\ Stopped(c)'
      BY <2>1, <2>2, <2>3, <2>4, Zenon DEF Slot, Served, Stopped
    <2>9. Mode(c)'
      BY <2>1, <2>2, <2>3, <2>4, Zenon DEF Mode
    <2>10. Wake(c)'
      BY <2>1, <2>2, <2>3, <2>4, Zenon DEF Slot, Mode, Wake
    <2> QED
      BY <2>7, <2>8, <2>9, <2>10, Zenon DEF CpuInv
  <1>12. CASE StopDone
    <2>1. boot.pc = "stop_check" /\ boot'.pc \in {"stop", "idle"} /\ boot.i \in CPUs
      BY <1>12, LoopMoves, Zenon DEF Loop, Done, BootOK, Moding
    <2>2. UNCHANGED <<wfe_mode, rsMpidr, event, ipi, pc, index, sp, fn>>
      BY <1>12, Zenon DEF StopDone, shared, secondary
    <2>3. \/ c # boot.i /\ UNCHANGED <<mpidr[c], flag[c], target[c], stop[c]>>
          \/ /\ c = boot.i /\ mpidr'[c] = 0 /\ flag'[c] = 0 /\ target'[c] = None
             /\ stop'[c].pending = FALSE
      BY <1>12, <2>1 DEF StopDone, ClearSlot, TypeOK
    <2>4. c = boot.i => pc[c] \in {"off", "asleep"}
      BY <1>12, <2>1, Zenon DEF StopDone, Settled, Served, Stopped, Wake, Sleep, None
    <2>7. Place(c)' /\ Slot(c)' /\ Alive(c)'
      BY <2>1, <2>2, <2>3, <2>4, ZenonT(30) DEF Place, Slot, Served, Alive, InCall
    <2>8. Served(c)' /\ Stopped(c)'
      BY <2>1, <2>2, <2>3, <2>4, Zenon DEF Slot, Served, Stopped
    <2>9. Mode(c)'
      BY <2>1, <2>2, <2>3, <2>4, Zenon DEF Mode
    <2>10. Wake(c)'
      BY <2>1, <2>2, <2>3, <2>4, Zenon DEF Slot, Mode, Wake
    <2> QED
      BY <2>7, <2>8, <2>9, <2>10, Zenon DEF CpuInv
  <1> QED
    BY <1>1, <1>2, <1>3, <1>4, <1>5, <1>6, <1>7, <1>8, <1>9, <1>10, <1>11, <1>12, Zenon

\* The invariant holds initially
LEMMA CoreInit == Punctual /\ Init => CoreInv
  <1> SUFFICES ASSUME Punctual, Init PROVE CoreInv
    BY Zenon
  <1>1. boot.pc = "idle"
    BY Zenon DEF Init, NoLocals, Return
  <1>2. Globals
    BY <1>1, Zenon DEF Init, Globals, Placed
  <1>3. ASSUME NEW c \in CPUs PROVE CpuInv(c)
    <2>1. /\ rsMpidr[c] = IF Chip = "t8142" THEN c ELSE 0
          /\ flag[c] = 0 /\ mpidr[c] = 0 /\ target[c] = None /\ pc[c] = "off" /\ stop[c].pending = FALSE
      BY Zenon DEF Init
    <2> QED
      BY <1>1, <2>1, Numbers, Zenon DEF CpuInv, Place, Slot, Served, Stopped, Alive, Mode, Wake, InCall,
         Calling
  <1> QED
    BY <1>2, <1>3, TypeInit, Zenon DEF CoreInv

\* and every step preserves it
LEMMA CoreStep ==
    ASSUME CoreInv, [Next]_vars
    PROVE  CoreInv'
  <1>1. CASE UNCHANGED vars
    <2>1. TypeInv'
      BY <1>1, TypeStutter, Zenon DEF CoreInv
    <2>2. Globals'
      BY <1>1, Zenon DEF CoreInv, Globals, Punctual, Placed, Chip, LateEntry, vars, shared
    <2>3. ASSUME NEW c \in CPUs PROVE CpuInv(c)'
      <3>1. Frame(c) /\ UNCHANGED <<stop, wfe_mode, boot, soc>>
        BY <1>1, Zenon DEF vars, table, shared, secondary, Frame
      <3> QED
        BY <3>1, OthersKept, Zenon DEF CoreInv
    <2> QED
      BY <2>1, <2>2, <2>3, Zenon DEF CoreInv
  <1>2. CASE Next
    <2>0. TypeInv' /\ UNCHANGED soc
      BY <1>2, TypeStep, Zenon DEF CoreInv, Next
    <2>1. CASE Boot
      <3>1. Globals'
        BY <2>0, <2>1, BootGlobals, Zenon
      <3>2. ASSUME NEW c \in CPUs PROVE CpuInv(c)'
        BY <2>0, <2>1, BootQuiet, BootLoud, Zenon DEF Boot
      <3> QED
        BY <2>0, <3>1, <3>2, Zenon DEF CoreInv
    <2>2. ASSUME NEW c \in CPUs, Secondary(c)
          PROVE  CoreInv'
      <3>1. Globals'
        BY <2>0, <2>2, SecondaryFrame, Zenon DEF CoreInv, Globals, Punctual, Placed, Chip, LateEntry
      <3>2. ASSUME NEW j \in CPUs PROVE CpuInv(j)'
        <4>1. CASE j = c
          BY <2>0, <2>2, <4>1, OwnKept, Zenon
        <4>2. CASE j # c
          BY <2>0, <2>2, <4>2, SecondaryFrame, OthersKept, Zenon DEF CoreInv
        <4> QED
          BY <4>1, <4>2, Zenon
      <3> QED
        BY <2>0, <3>1, <3>2, Zenon DEF CoreInv
    <2> QED
      BY <1>2, <2>1, <2>2, Zenon DEF Next
  <1> QED
    BY <1>1, <1>2, Zenon

\* So it holds of every system that is punctual
LEMMA CoreAlways == Spec => [](Punctual => CoreInv)
  <1>1. Init => (Punctual => CoreInv)
    BY CoreInit, Zenon
  <1>2. (Punctual => CoreInv) /\ [Next]_vars => (Punctual => CoreInv)'
    <2>1. [Next]_vars => (Punctual' <=> Punctual)
      BY Zenon DEF Next, vars, Punctual, Placed, Chip, LateEntry
    <2> QED
      BY <2>1, CoreStep, Zenon
  <1> QED
    BY <1>1, <1>2, PTL DEF Spec

\* The systems of which every CPU either finds its place by its MPIDR or enters in time
AllPunctual == \A s \in Socs : s.chip \in {"t8142", "t8152"} \/ ~s.lateEntry

\* Then the system is punctual in every state
LEMMA PunctualAlways == AllPunctual => (Spec => []Punctual)
  <1> SUFFICES ASSUME AllPunctual PROVE Spec => []Punctual
    BY Zenon
  <1>1. Init => Punctual
    BY Zenon DEF Init, AllPunctual, Punctual, Placed, Chip, LateEntry
  <1>2. Punctual /\ [Next]_vars => Punctual'
    BY Zenon DEF Next, vars, Punctual, Placed, Chip, LateEntry
  <1> QED
    BY <1>1, <1>2, PTL DEF Spec

\* A secondary past EntryIndex works on its own slot of the spin table (smp_secondary_entry)
THEOREM OwnSlotTheorem == AllPunctual => (Spec => []OwnSlot)
  <1>1. CoreInv => OwnSlot
    BY Zenon DEF CoreInv, CpuInv, Place, OwnSlot
  <1> QED
    BY <1>1, CoreAlways, PunctualAlways, PTL

\* A secondary runs on its own stack (cpu_reset in start.S)
THEOREM OwnStackTheorem == AllPunctual => (Spec => []OwnStack)
  <1>1. CoreInv => OwnStack
    BY Zenon DEF CoreInv, CpuInv, Place, OwnStack
  <1> QED
    BY <1>1, CoreAlways, PunctualAlways, PTL

\* A CPU that smp_is_alive denies is not in the dispatch loop, so that smp_start_cpu never resets
\* a running CPU; on any system, since the property speaks of those that enter in time only
THEOREM DeadIsOutTheorem == Spec => []DeadIsOut
  <1>1. (Punctual => CoreInv) => DeadIsOut
    BY Zenon DEF CoreInv, CpuInv, Alive, DeadIsOut, Punctual
  <1> QED
    BY <1>1, CoreAlways, PTL

\* A CPU that waits for an event or an interrupt while its slot holds a call: the boot CPU is about
\* to send one
NoLostWakeup ==
    \A c \in CPUs : Settled(c) /\ pc[c] \in {"wfe", "wfisleep"} /\ target[c] # None =>
        (boot.pc = "call_kick" /\ boot.i = c) \/ boot.pc \in {"mode_ipi", "mode_sev"}

\* No CPU waits with a call in its slot and no wake-up on its way, however mode changes and calls
\* interleave with its way into wfe or WFI (smp_set_wfe_mode, smp_call4)
THEOREM NoLostWakeupTheorem == AllPunctual => (Spec => []NoLostWakeup)
  <1>1. CoreInv => NoLostWakeup
    BY Zenon DEF CoreInv, CpuInv, Wake, Settled, NoLostWakeup
  <1> QED
    BY <1>1, CoreAlways, PunctualAlways, PTL

-----------------------------------------------------------------------------
(* Calls                                                                   *)

\* Arguments written, target not yet
Posting(c) == boot.i = c /\ boot.pc = "call_target"

\* What a slot says of its last call
CallInv(c) ==
    /\ target[c] # None \/ Posting(c) => args[c] = post[c]
    /\ pc[c] \in {"run", "clear"} => arg[c] = post[c]
    /\ pc[c] = "clear" => retval[c] = post[c]
    /\ target[c] = None /\ ~Posting(c) /\ post[c] # 0 => retval[c] = post[c]
    /\ target[c] = Sleep \/ (Posting(c) /\ boot.fn = Sleep) => args[c] = 0
    /\ args[c] <= ncall
    /\ (target[c] # None /\ pc[c] \notin {"run", "clear"}) \/ Posting(c) =>
          (args[c] # 0 => ran[args[c]] = 0)

\* No call has run twice, and no two slots hold the same one
Ledger ==
    /\ \A id \in Ids : ran[id] = 0 \/ (ran[id] = 1 /\ id <= ncall)
    /\ \A i, j \in CPUs : args[i] = args[j] /\ args[i] # 0 => i = j

\* The steps of a secondary keep the calls and their account
LEMMA CallSecondary ==
    ASSUME CoreInv, CoreInv', \A j \in CPUs : CallInv(j), Ledger, NEW c \in CPUs, Secondary(c)
    PROVE  Ledger' /\ \A j \in CPUs : CallInv(j)'
  <1>0. /\ TypeOK /\ Place(c) /\ Slot(c) /\ CallInv(c) /\ \A j \in CPUs : Slot(j)
        /\ UNCHANGED <<boot, ncall, post>>
        /\ \A j \in CPUs \ {c} : Frame(j) /\ Data(j)
    BY SecondaryFrame, Zenon DEF CoreInv, TypeInv, CpuInv, bounds
  <1> USE <1>0, Numbers DEF Step
  <1>1. CASE CallEnter(c)
    <2>1. /\ pc[c] = "call" /\ index[c] = c /\ target[c] # None /\ fn[c] = target[c]
          /\ args[c] \in IdOrNone
          /\ pc'[c] = IF target[c] = Sleep THEN "asleep" ELSE "run"
          /\ arg'[c] = args[c]
          /\ UNCHANGED <<target, args, retval>>
          /\ ran' = [id \in Ids |-> IF id = args[c] THEN ran[id] + 1 ELSE ran[id]]
      BY <1>1, SMTT(60) DEF CallEnter, table, Place, Slot, InCall, TypeOK
    <2>2. \A id \in Ids : id # args[c] => ran'[id] = ran[id]
      BY <2>1, Zenon
    <2>3. args[c] # 0 => args[c] \in Ids /\ ran'[args[c]] = 1 /\ args[c] <= ncall
      BY <2>1, SMTT(60) DEF CallInv
    <2>4. Ledger'
      BY <2>1, <2>2, <2>3, Zenon DEF Ledger
    <2>5. CallInv(c)'
      <3>1. ~Posting(c)
        BY <2>1, Zenon DEF CoreInv, CpuInv, Served, Posting
      <3>2. args'[c] = post'[c] /\ target'[c] # None /\ args'[c] <= ncall'
        BY <2>1, Zenon DEF CallInv
      <3>3. pc'[c] = "asleep" => args'[c] = 0
        BY <2>1, ZenonT(30) DEF CallInv
      <3> QED
        BY <2>1, <3>1, <3>2, <3>3, Zenon DEF CallInv, Posting
    <2>6. ASSUME NEW j \in CPUs \ {c} PROVE CallInv(j)'
      <3>1. args[j] # 0 => args[j] # args[c] /\ args[j] \in Ids
        BY <2>6, Zenon DEF Ledger, TypeOK
      <3>2. args[j] # 0 => ran'[args[j]] = ran[args[j]]
        BY <2>2, <3>1, Zenon
      <3> QED
        BY <2>6, <3>2, SMTT(60) DEF CallInv, Posting, Frame, Data
    <2> QED
      BY <2>4, <2>5, <2>6, Zenon
  <1>2. ASSUME ran' = ran, args'[c] = args[c], CallInv(c)'
        PROVE  Ledger' /\ \A j \in CPUs : CallInv(j)'
    <2>1. \A j \in CPUs : args'[j] = args[j]
      BY <1>2, Zenon DEF Data
    <2>2. Ledger'
      BY <1>2, <2>1, Zenon DEF Ledger
    <2>3. ASSUME NEW j \in CPUs \ {c} PROVE CallInv(j)'
      BY <1>2, <2>3, SMTT(60) DEF CallInv, Posting, Frame, Data
    <2> QED
      BY <1>2, <2>2, <2>3, Zenon
  <1>3. CASE CallReturn(c)
    <2>1. /\ pc[c] = "run" /\ pc'[c] = "clear" /\ retval'[c] = arg[c] /\ target[c] = Fn
          /\ UNCHANGED <<ran, args, target, arg>>
      BY <1>3, Zenon DEF CallReturn, history, Place, Slot, TypeOK
    <2> QED
      BY <1>2, <2>1, Zenon DEF CallInv, Posting, Fn, None
  <1>4. CASE CallClear(c)
    <2>1. /\ pc[c] = "clear" /\ pc'[c] = "poll" /\ target'[c] = None /\ target[c] = Fn
          /\ UNCHANGED <<ran, args, retval>>
      BY <1>4, Zenon DEF CallClear, history, Place, Slot, TypeOK
    <2>2. ~Posting(c)
      BY <2>1, Zenon DEF CoreInv, CpuInv, Served, Posting, Fn, None
    <2> QED
      BY <1>2, <2>1, <2>2, Zenon DEF CallInv, Posting, Sleep, None
  <1>5. ASSUME UNCHANGED <<target, args, retval, ran, arg>>,
               pc[c] \notin {"run", "clear"}, pc'[c] \notin {"run", "clear"}
        PROVE  Ledger' /\ \A j \in CPUs : CallInv(j)'
    <2>1. CallInv(c)'
      BY <1>5, Zenon DEF CallInv, Posting
    <2> QED
      BY <1>2, <1>5, <2>1, Zenon
  <1>6. CASE CpuReset(c) \/ EntryIndex(c) \/ EntryPublish(c) \/ EntryFlag(c)
    BY <1>5, <1>6, Zenon DEF CpuReset, EntryIndex, EntryPublish, EntryFlag, table, history, TypeOK
  <1>7. CASE Poll(c) \/ ReadMode(c) \/ Wfe(c) \/ DeepWfi(c)
    BY <1>5, <1>7, ZenonT(30) DEF Poll, ReadMode, Wfe, DeepWfi, table, history, TypeOK
  <1>8. CASE WfiWake(c) \/ IpiAck(c) \/ CallAck(c) \/ PowerOff(c)
    BY <1>5, <1>8 DEF WfiWake, IpiAck, CallAck, PowerOff, table, history, TypeOK
  <1> QED
    BY <1>1, <1>3, <1>4, <1>6, <1>7, <1>8, Zenon DEF Secondary, Dispatcher

\* A slot whose call a step of the boot CPU leaves alone
LEMMA CallKept ==
    ASSUME TypeOK, NEW j \in CPUs, CallInv(j), ncall' \in {ncall, ncall + 1}, UNCHANGED <<ran, arg>>,
           UNCHANGED <<target[j], args[j], retval[j], post[j]>>,
           pc'[j] \in {"run", "clear"} \/ pc[j] \in {"run", "clear"} => pc'[j] = pc[j],
           ~Posting(j), ~Posting(j)'
    PROVE  CallInv(j)'
  <1>1. args[j] <= ncall => args[j] <= ncall'
    <2>1. args[j] \in Nat /\ ncall \in Nat
      BY Numbers, Zenon DEF TypeOK
    <2> QED
      BY <2>1, SMTT(60)
  <1> QED
    BY <1>1, Zenon DEF CallInv

\* The steps of the boot CPU that touch calls at all
LEMMA BootCalls ==
    ASSUME Boot, ~StartSetup, ~CallPrepare, ~CallTarget, ~StopDone, \A i \in CPUs : ~GetReleaseAddr(i)
    PROVE  UNCHANGED <<target, args, retval, post, ran, ncall>>
  <1> USE DEF table, history, bounds
  <1>1. CASE StartSecondaries \/ StartCheck \/ StartRelease \/ StartOk \/ StartTimeout
    BY <1>1, Zenon DEF StartSecondaries, StartCheck, StartRelease, StartOk, StartTimeout
  <1>2. CASE CallRefuse \/ CallKick \/ CallOk \/ CallTimeout \/ WaitDone \/ WaitTimeout
    BY <1>2, Zenon DEF CallRefuse, CallKick, CallOk, CallTimeout, WaitDone, WaitTimeout
  <1>3. CASE \E i \in CPUs : Call(i) \/ Wait(i)
    BY <1>3, Zenon DEF Call, Wait
  <1>4. CASE \E b \in BOOLEAN : SetWfeMode(b) \/ StopSecondaries(b)
    BY <1>4, Zenon DEF SetWfeMode, StopSecondaries
  <1>5. CASE ModeStore \/ ModeIpi \/ ModeSev
    BY <1>5, Zenon DEF ModeStore, ModeIpi, ModeSev
  <1>6. CASE StopCheck \/ StopPost \/ StopBusy \/ StopAcked \/ StopUnacked \/ StopFailed
    BY <1>6, Zenon DEF StopCheck, StopPost, StopBusy, StopAcked, StopUnacked, StopFailed
  <1> QED
    BY <1>1, <1>2, <1>3, <1>4, <1>5, <1>6, Zenon DEF Boot

\* Only a CPU that is off or will be is written off
LEMMA StopDoneAsleep ==
    ASSUME CoreInv, StopDone
    PROVE  boot.i \in CPUs /\ pc[boot.i] \in {"off", "asleep"}
  <1>1. boot.pc = "stop_check" /\ boot.i \in CPUs
    BY LoopMoves, Zenon DEF CoreInv, TypeInv, BootOK, Moding
  <1>2. Served(boot.i) /\ Stopped(boot.i) /\ Wake(boot.i)
    BY <1>1, Zenon DEF CoreInv, CpuInv
  <1> QED
    BY <1>1, <1>2, Zenon DEF StopDone, Settled, Served, Stopped, Wake, Sleep, None

\* and so do the steps of the boot CPU
LEMMA CallBoot ==
    ASSUME CoreInv, ~BusyRelease, \A j \in CPUs : CallInv(j), Ledger, Boot
    PROVE  Ledger' /\ \A j \in CPUs : CallInv(j)'
  <1>0. TypeOK /\ BootOK /\ Summary /\ arg' = arg /\ \A j \in CPUs : Slot(j) /\ Served(j)
    BY BootSummary, Zenon DEF CoreInv, TypeInv, CpuInv, Summary
  <1> USE <1>0, Numbers
  <1>1. ASSUME NEW i \in CPUs, pc' = pc, ran' = ran, ncall' = ncall, pc[i] \notin {"run", "clear"},
               ~Posting(i), ~Posting(i)', \A j \in CPUs : ~Posting(j) /\ ~Posting(j)',
               target'[i] = None, args'[i] = 0, post'[i] \in {0, post[i]},
               post'[i] = 0 \/ UNCHANGED <<target[i], retval[i]>>,
               \A j \in CPUs \ {i} : UNCHANGED <<target[j], args[j], retval[j], post[j]>>
        PROVE  Ledger' /\ \A j \in CPUs : CallInv(j)'
    <2>1. CallInv(i)'
      BY <1>1, SMTT(60) DEF CallInv, TypeOK, Sleep, None
    <2>2. ASSUME NEW j \in CPUs \ {i} PROVE CallInv(j)'
      BY <1>1, <2>2, CallKept, Zenon DEF TypeOK
    <2>3. Ledger'
      BY <1>1, SMTT(60) DEF Ledger
    <2> QED
      BY <2>1, <2>2, <2>3, Zenon
  <1>2. CASE StartSetup
    <2>1. boot.i \in CPUs /\ boot.pc = "start_setup" /\ boot'.pc = "start_release"
      BY <1>2, Goes, Zenon DEF Go, BootOK, Moding
    <2>2. target[boot.i] = None /\ pc[boot.i] \notin {"run", "clear"} /\ pc' = pc /\ ncall' = ncall
      BY <1>2, <2>1, Zenon DEF Served, Slot, StartSetup, secondary, bounds, None, Fn
    <2>3. CASE Chip = "t8152"
      <3>1. UNCHANGED <<target, args, retval, post, ran>>
        BY <1>2, <2>3, Zenon DEF StartSetup, table, history
      <3>2. \A j \in CPUs : CallInv(j)'
        BY <2>1, <2>2, <3>1, CallKept, Zenon DEF Posting
      <3> QED
        BY <2>2, <3>1, <3>2, Zenon DEF Ledger
    <2>4. CASE Chip # "t8152"
      <3>1. /\ ran' = ran /\ target'[boot.i] = None /\ args'[boot.i] = 0 /\ post'[boot.i] = 0
            /\ \A j \in CPUs \ {boot.i} : UNCHANGED <<target[j], args[j], retval[j], post[j]>>
        BY <1>2, <2>1, <2>4 DEF StartSetup, ClearSlot, TypeOK
      <3> QED
        BY <1>1, <2>1, <2>2, <3>1, Zenon DEF Posting
    <2> QED
      BY <2>3, <2>4, Zenon
  <1>3. CASE StopDone
    <2>1. boot.i \in CPUs /\ pc[boot.i] \in {"off", "asleep"}
      BY <1>3, StopDoneAsleep, Zenon
    <2>2. /\ boot.pc = "stop_check" /\ boot'.pc # "call_target"
          /\ UNCHANGED <<pc, ncall, ran>>
      BY <1>3, LoopMoves, Zenon DEF Loop, Done, StopDone, secondary, bounds
    <2>3. /\ target'[boot.i] = None /\ args'[boot.i] = 0 /\ post'[boot.i] = 0
          /\ \A j \in CPUs \ {boot.i} : UNCHANGED <<target[j], args[j], retval[j], post[j]>>
      BY <1>3, <2>1, ZenonT(30) DEF StopDone, ClearSlot, TypeOK
    <2> QED
      BY <1>1, <2>1, <2>2, <2>3, Zenon DEF Posting
  <1>4. ASSUME NEW i \in CPUs, GetReleaseAddr(i)
        PROVE  Ledger' /\ \A j \in CPUs : CallInv(j)'
    <2>1. /\ boot.pc = "idle" /\ boot'.pc = "idle" /\ target[i] = None
          /\ UNCHANGED <<pc, ncall, ran, post, target, retval>>
      BY <1>4, ShortReturns, Zenon DEF Done, GetReleaseAddr, secondary, bounds, history
    <2>2. args'[i] = 0 /\ \A j \in CPUs \ {i} : args'[j] = args[j]
      BY <1>4, Zenon DEF GetReleaseAddr, TypeOK
    <2>3. pc[i] \notin {"run", "clear"}
      BY <2>1, Zenon DEF Slot, None, Fn
    <2> QED
      BY <1>1, <2>1, <2>2, <2>3, Zenon DEF Posting
  <1>5. CASE CallPrepare
    <2> PICK i \in CPUs : i = boot.i
      BY <1>5, CallPrepareMoves, Zenon DEF BootOK, Moding
    <2> DEFINE id == IF boot.fn = Fn THEN ncall + 1 ELSE 0
    <2>1. /\ boot.pc = "call" /\ boot'.pc = "call_target"
          /\ boot'.i = i /\ boot'.fn = boot.fn
      BY <1>5, CallPrepareMoves, Zenon DEF Go, BootOK, Moding
    <2>2. /\ target[i] = None /\ UNCHANGED <<pc, target, retval, ran>>
          /\ ncall' \in {ncall, ncall + 1} /\ id <= ncall' /\ id \in Nat
          /\ id # 0 => id = ncall + 1 /\ ncall' = id
          /\ args'[i] = id /\ post'[i] = id
          /\ \A j \in CPUs \ {i} : UNCHANGED <<args[j], post[j]>>
      BY <1>5, <2>1 DEF CallPrepare, secondary, TypeOK
    <2>3. id # 0 => id \in Ids /\ ran[id] = 0
      <3>1. id # 0 => boot.fn = Fn /\ ncall < MaxCalls /\ id = ncall + 1
        BY <2>1, <2>2, Zenon DEF BootOK
      <3> HIDE DEF id
      <3>2. id # 0 => id \in Ids /\ ~(id <= ncall)
        BY <2>2, <3>1, ConstantsAssumption DEF Ids, TypeOK
      <3> QED
        BY <3>2, Zenon DEF Ledger
    <2>4. boot.fn = Sleep => id = 0
      BY Zenon DEF Sleep, Fn
    <2>5. pc[i] \notin {"run", "clear"}
      BY <2>1, <2>2, Zenon DEF Slot, None, Fn
    <2> HIDE DEF id
    <2>6. CallInv(i)'
      BY <2>1, <2>2, <2>3, <2>4, <2>5, Zenon DEF CallInv, Posting, None, Sleep
    <2>7. ASSUME NEW j \in CPUs \ {i} PROVE CallInv(j)'
      <3>1. ~Posting(j) /\ ~Posting(j)'
        BY <2>1, <2>7, Zenon DEF Posting
      <3> QED
        BY <2>2, <2>7, <3>1, CallKept, Zenon
    <2>8. ASSUME NEW j \in CPUs \ {i} PROVE args[j] <= ncall /\ args[j] \in Nat /\ args'[j] = args[j]
      BY <2>2, <2>8, Zenon DEF CallInv, TypeOK
    <2>9. Ledger'
      <3>1. \A k \in Ids : ran'[k] = 0 \/ (ran'[k] = 1 /\ k <= ncall')
        BY <2>2 DEF Ledger, TypeOK
      <3>2. ASSUME NEW j \in CPUs \ {i}, args'[j] = args'[i], args'[i] # 0 PROVE FALSE
        BY <2>2, <2>8, <3>2 DEF TypeOK
      <3>3. \A j, k \in CPUs \ {i} : args'[j] = args'[k] /\ args'[j] # 0 => j = k
        BY <2>8, ZenonT(30) DEF Ledger
      <3> QED
        BY <3>1, <3>2, <3>3, Zenon DEF Ledger
    <2> QED
      BY <2>6, <2>7, <2>9, Zenon
  <1>6. CASE CallTarget
    <2> PICK i \in CPUs : i = boot.i
      BY <1>6, Goes, Zenon DEF BootOK, Moding
    <2>1. /\ boot.pc = "call_target" /\ boot'.pc = "call_kick" /\ boot'.i = i
          /\ boot.fn \in {Fn, Sleep}
      BY <1>6, Goes, Zenon DEF Go, BootOK, Moding, Calling
    <2>2. /\ target'[i] = boot.fn /\ target[i] = None
          /\ \A j \in CPUs \ {i} : target'[j] = target[j]
          /\ UNCHANGED <<pc, args, retval, post, ran, ncall>>
      BY <1>6, <2>1, Zenon DEF CallTarget, Served, secondary, bounds, history, TypeOK
    <2>3. pc[i] \notin {"run", "clear"}
      BY <2>1, <2>2, Zenon DEF Slot, None, Fn
    <2>4. CallInv(i)'
      BY <2>1, <2>2, <2>3, Zenon DEF CallInv, Posting, None, Sleep, Fn
    <2>5. ASSUME NEW j \in CPUs \ {i} PROVE CallInv(j)'
      <3>1. ~Posting(j) /\ ~Posting(j)'
        BY <2>1, <2>5, Zenon DEF Posting
      <3> QED
        BY <2>2, <2>5, <3>1, CallKept, Zenon
    <2>6. Ledger'
      BY <2>2, Zenon DEF Ledger
    <2> QED
      BY <2>4, <2>5, <2>6, Zenon
  <1>7. CASE /\ ~StartSetup /\ ~CallPrepare /\ ~CallTarget /\ ~StopDone
             /\ \A i \in CPUs : ~GetReleaseAddr(i)
    <2>1. UNCHANGED <<target, args, retval, post, ran, ncall>>
      BY <1>7, BootCalls, Zenon
    <2>2. boot.pc # "call_target" /\ boot'.pc # "call_target"
      BY <1>7, Zenon DEF Summary
    <2>3. \A j \in CPUs : pc'[j] = pc[j] \/ (pc[j] = "off" /\ pc'[j] = "reset")
      BY Zenon DEF Summary, StartRelease, TypeOK
    <2>4. ASSUME NEW j \in CPUs PROVE CallInv(j)'
      BY <2>1, <2>2, <2>3, CallKept, Zenon DEF Posting
    <2> QED
      BY <2>1, <2>4, Zenon DEF Ledger
  <1> QED
    BY <1>2, <1>3, <1>4, <1>5, <1>6, <1>7, Zenon

\* What makes calls sound, with the history of the calls
CallsInv == CoreInv /\ Ledger /\ WaitResult /\ \A c \in CPUs : CallInv(c)

\* The invariant of calls holds initially
LEMMA CallsInit == Punctual /\ Init => CallsInv
  <1> SUFFICES ASSUME Punctual, Init PROVE CallsInv
    BY Zenon
  <1>1. boot.pc = "idle" /\ boot.op = "none"
    BY Zenon DEF Init, NoLocals, Return
  <1>2. Ledger
    BY Zenon DEF Init, Ledger
  <1>3. ASSUME NEW c \in CPUs PROVE CallInv(c)
    BY <1>1 DEF Init, CallInv, Posting, None, Sleep
  <1> QED
    BY <1>1, <1>2, <1>3, CoreInit, Zenon DEF CallsInv, WaitResult

\* and every step preserves it
LEMMA CallsStep ==
    ASSUME ~BusyRelease, CallsInv, [Next]_vars
    PROVE  CallsInv'
  <1>1. CoreInv'
    BY CoreStep, Zenon DEF CallsInv
  <1>2. CASE UNCHANGED vars
    <2>1. Ledger' /\ WaitResult'
      BY <1>2, Zenon DEF CallsInv, Ledger, WaitResult, vars, table, bounds, history
    <2>2. ASSUME NEW c \in CPUs PROVE CallInv(c)'
      BY <1>2, Zenon DEF CallsInv, CallInv, Posting, vars, table, secondary, bounds, history
    <2> QED
      BY <1>1, <2>1, <2>2, Zenon DEF CallsInv
  <1>3. CASE Boot
    <2>1. Ledger' /\ \A j \in CPUs : CallInv(j)'
      BY <1>3, CallBoot, Zenon DEF CallsInv
    <2>2. TypeOK /\ BootOK /\ Summary
      BY <1>3, BootSummary, Zenon DEF CallsInv, CoreInv, TypeInv
    <2>3. WaitResult'
      <3>1. SUFFICES ASSUME WaitDone PROVE post'[boot'.i] # 0 => boot'.val = post'[boot'.i]
        BY <2>2, Zenon DEF WaitResult, Summary
      <3>2. /\ boot.pc = "wait" /\ boot'.i = boot.i /\ boot'.val = retval[boot.i] /\ boot.i \in CPUs
            /\ target[boot.i] = None /\ post' = post
        BY <2>2, <3>1, WaitDoneMoves, Zenon DEF WaitDone, history, BootOK, Moding
      <3> QED
        BY <3>2, Zenon DEF CallsInv, CallInv, Posting
    <2> QED
      BY <1>1, <2>1, <2>3, Zenon DEF CallsInv
  <1>4. ASSUME NEW c \in CPUs, Secondary(c)
        PROVE  CallsInv'
    <2>1. Ledger' /\ \A j \in CPUs : CallInv(j)'
      BY <1>1, <1>4, CallSecondary, Zenon DEF CallsInv
    <2>2. WaitResult'
      BY <1>4, SecondaryFrame, Zenon DEF CallsInv, WaitResult
    <2> QED
      BY <1>1, <2>1, <2>2, Zenon DEF CallsInv
  <1> QED
    BY <1>2, <1>3, <1>4, Zenon DEF Next

\* A function runs at most once per accepted smp_call4 and with its own arguments, and smp_wait
\* returns its result, when smp_get_release_addr leaves CPUs with a call in flight alone
THEOREM CallsSoundTheorem == AllPunctual /\ ~BusyRelease => (Spec => []CallsSound)
  <1> SUFFICES ASSUME AllPunctual, ~BusyRelease PROVE Spec => []CallsSound
    BY Zenon
  <1>1. CallsInv => CallsSound
    <2> SUFFICES ASSUME CallsInv PROVE CallsSound
      BY Zenon
    <2>1. \A id \in Ids : ran[id] <= 1
      BY DEF CallsInv, Ledger
    <2> QED
      BY <2>1, Zenon DEF CallsInv, CallInv, CallsSound, CallIntegrity
  <1>2. CallsInv /\ [Next]_vars => CallsInv'
    BY CallsStep, Zenon
  <1>3. Spec => Init /\ Punctual /\ [][Next]_vars
    BY PunctualAlways, PTL DEF Spec
  <1> QED
    BY <1>1, <1>2, <1>3, CallsInit, PTL

\* What InFlightPreserved says of slot i
Preserved(i) ==
    target[i] # None =>
      \/ target'[i] = target[i] /\ args'[i] = args[i]
      \/ pc[i] = "clear" /\ args'[i] = args[i]
      \/ pc[i] \in {"asleep", "off"} /\ flag'[i] = 0

\* No step overwrites a call in flight
LEMMA StepPreserves ==
    ASSUME ~BusyRelease, CoreInv, Next, NEW c \in CPUs
    PROVE  Preserved(c)
  <1>0. TypeOK /\ BootOK /\ Served(c)
    BY Zenon DEF CoreInv, TypeInv, CpuInv
  <1> USE <1>0 DEF Preserved
  <1>1. CASE Boot
    <2>1. CASE StartSetup
      <3>1. boot.i \in CPUs /\ boot.pc = "start_setup"
        BY <2>1, Goes, Zenon DEF BootOK, Moding
      <3> QED
        BY <2>1, <3>1 DEF Served, StartSetup, ClearSlot, table, TypeOK
    <2>2. CASE StopDone
      <3>1. boot.i \in CPUs /\ pc[boot.i] \in {"off", "asleep"}
        BY <2>2, StopDoneAsleep, Zenon
      <3> QED
        BY <2>2, <3>1, Zenon DEF StopDone, ClearSlot, TypeOK
    <2>3. CASE CallPrepare
      BY <2>3, Zenon DEF CallPrepare, TypeOK
    <2>4. CASE CallTarget
      <3>1. boot.i \in CPUs /\ boot.pc = "call_target"
        BY <2>4, Goes, Zenon DEF BootOK, Moding
      <3> QED
        BY <2>4, <3>1, Zenon DEF Served, CallTarget, TypeOK
    <2>5. ASSUME NEW i \in CPUs, GetReleaseAddr(i)
          PROVE  Preserved(c)
      BY <2>5, Zenon DEF GetReleaseAddr, TypeOK
    <2> QED
      BY <1>1, <2>1, <2>2, <2>3, <2>4, <2>5, BootCalls, Zenon
  <1>2. ASSUME NEW j \in CPUs, Secondary(j)
        PROVE  Preserved(c)
    <2>1. CASE j # c
      BY <1>2, <2>1, SecondaryFrame, Zenon DEF Frame, Data
    <2>2. CASE CallClear(c)
      BY <2>2, Zenon DEF CallClear, Step
    <2>3. CASE j = c /\ ~CallClear(c)
      <3> USE DEF table
      <3>1. CASE CpuReset(c) \/ EntryIndex(c) \/ EntryPublish(c) \/ EntryFlag(c)
        BY <3>1, Zenon DEF CpuReset, EntryIndex, EntryPublish, EntryFlag
      <3>2. CASE Poll(c) \/ ReadMode(c) \/ Wfe(c) \/ DeepWfi(c)
        BY <3>2, Zenon DEF Poll, ReadMode, Wfe, DeepWfi
      <3>3. CASE WfiWake(c) \/ IpiAck(c) \/ CallAck(c) \/ CallEnter(c) \/ CallReturn(c) \/ PowerOff(c)
        BY <3>3, Zenon DEF WfiWake, IpiAck, CallAck, CallEnter, CallReturn, PowerOff
      <3> QED
        BY <1>2, <2>3, <3>1, <3>2, <3>3, Zenon DEF Secondary, Dispatcher
    <2> QED
      BY <1>2, <2>1, <2>2, <2>3, Zenon
  <1> QED
    BY <1>1, <1>2, Zenon DEF Next

\* The target and the arguments of a call in flight stay until its CPU has run it, or until a CPU
\* that went to sleep is written off (smp_call4, smp_stop_cpu)
THEOREM InFlightTheorem == AllPunctual /\ ~BusyRelease => (Spec => InFlightPreserved)
  <1> SUFFICES ASSUME AllPunctual, ~BusyRelease PROVE Spec => InFlightPreserved
    BY Zenon
  <1>1. CoreInv /\ [Next]_vars => [\A i \in CPUs : Preserved(i)]_vars
    BY StepPreserves, Zenon
  <1>2. Spec => [][\A i \in CPUs : Preserved(i)]_vars
    BY <1>1, CoreAlways, PunctualAlways, PTL DEF Spec
  <1> QED
    BY <1>2, Zenon DEF InFlightPreserved, Preserved
=============================================================================
