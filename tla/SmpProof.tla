----------------------------- MODULE SmpProof -----------------------------
(***************************************************************************)
(* Proofs about Smp, for any number of CPUs and any bounds: the types and  *)
(* what smp_start_secondaries reports.                                     *)
(*                                                                         *)
(* The steps of the boot CPU are first described by where they lead it     *)
(* (the lemmas ending in Moves): everything after that, in SmpCalls too,   *)
(* reasons about places and not about the record of its locals.            *)
(***************************************************************************)
EXTENDS Smp, WellFoundedInduction, TLAPS

-----------------------------------------------------------------------------
(* The boot CPU: how a step moves it                                       *)

\* Places in smp_call4 and in smp_set_wfe_mode
Calling == {"call", "call_target", "call_kick", "call_wait"}
Moding == {"mode", "mode_ipi", "mode_sev"}

\* The locals agree with the place
BootOK ==
    /\ boot \in BootLocals
    /\ boot.pc \notin {"idle"} \cup Moding => boot.i \in CPUs
    /\ boot.pc \in Moding =>
          boot.then \in {"idle", "start", "stop"} /\ (boot.then # "idle" => boot.i = 1)
    /\ boot.pc \in Calling =>
          (boot.then = "call" /\ boot.fn = Fn) \/ (boot.then = "stop" /\ boot.fn = Sleep)
    /\ boot.pc = "call" /\ boot.fn = Fn => ncall < MaxCalls
    /\ boot.op = "wait" /\ boot.pc = "idle" /\ boot.ret = 0 => boot.i \in CPUs

\* How a step moves the boot CPU: it returns from a function,
Done(op, ret) ==
    /\ boot' \in BootLocals
    /\ boot'.pc = "idle" /\ boot'.op = op /\ boot'.ret = ret /\ boot'.then = "idle"
\* enters one
Enter(p, i, t) ==
    /\ boot' \in BootLocals
    /\ boot'.pc = p /\ boot'.i = i /\ boot'.then = t /\ boot'.op = "none" /\ boot'.failed = FALSE
\* goes on in it
Go(p) ==
    /\ boot' \in BootLocals
    /\ boot'.pc = p /\ boot'.i = boot.i /\ boot'.op = boot.op /\ boot'.failed = boot.failed
    /\ boot'.then = boot.then /\ boot'.fn = boot.fn
\* or turns to the next CPU
Loop(p, failing) ==
    \/ /\ boot' \in BootLocals
       /\ boot'.pc = p /\ boot'.i = boot.i + 1 /\ boot'.i \in CPUs
       /\ boot'.op = boot.op /\ boot'.failed = (boot.failed \/ failing)
    \/ boot.i = N /\ Done(p, IF boot.failed \/ failing THEN -1 ELSE 0)

\* CPU numbers and call numbers are naturals, 0 is neither
LEMMA Numbers ==
    /\ CPUs \subseteq CpuOrNone /\ CPUs \subseteq Nat \ {0} /\ CpuOrNone \subseteq Nat
    /\ 1 \in CPUs /\ 0 \notin CPUs /\ 0 \in CpuOrNone
    /\ Ids \subseteq IdOrNone /\ IdOrNone \subseteq Nat /\ Ids = IdOrNone \ {0} /\ 0 \in IdOrNone
  BY ConstantsAssumption DEF CPUs, CpuOrNone, Ids, IdOrNone

\* The record a function leaves when it returns is well formed
LEMMA ReturnType ==
    ASSUME NEW op \in {"none", "start", "call", "wait", "mode", "release", "stop"},
           NEW ret \in {0, -1, Timeout}, NEW val \in IdOrNone
    PROVE  Return(op, ret, val) \in BootLocals
  BY Numbers, Zenon DEF BootLocals, Return, BootPlaces, Functions

\* A return with no value takes the boot CPU to "idle"
LEMMA Returns ==
    ASSUME NEW op \in {"none", "start", "call", "wait", "mode", "release", "stop"},
           NEW ret \in {0, -1, Timeout}, boot' = Return(op, ret, 0)
    PROVE  Done(op, ret)
  BY ReturnType, Numbers, ZenonT(30) DEF Done, Return

\* NextCpu turns to the next CPU or returns
LEMMA Loops ==
    ASSUME boot \in BootLocals, boot.i \in CPUs, NEW loop \in {"start", "stop"},
           NEW failing \in BOOLEAN, boot' = NextCpu(loop, failing)
    PROVE  Loop(loop, failing)
  <1>1. CASE boot.i < N
    <2>1. boot' = [boot EXCEPT !.pc = loop, !.i = @ + 1, !.failed = @ \/ failing]
      BY <1>1, Zenon DEF NextCpu
    <2>2. boot.i + 1 \in CPUs
      BY <1>1, ConstantsAssumption DEF CPUs
    <2> QED
      BY <2>1, <2>2, Numbers, ZenonT(30) DEF Loop, BootLocals, BootPlaces
  <1>2. CASE ~(boot.i < N)
    <2> DEFINE ret == IF boot.failed \/ failing THEN -1 ELSE 0
    <2>1. boot' = Return(loop, ret, 0)
      BY <1>2, Zenon DEF NextCpu
    <2>2. ret \in {0, -1, Timeout}
      BY Zenon
    <2>3. Done(loop, ret)
      <3> HIDE DEF ret
      <3> QED
        BY <2>1, <2>2, Returns, Zenon
    <2>4. boot.i = N
      BY <1>2, ConstantsAssumption DEF CPUs
    <2> QED
      BY <2>3, <2>4, Zenon DEF Loop
  <1> QED
    BY <1>1, <1>2, Zenon

\* smp_start_secondaries refuses, or starts with CPU 1 by way of WFE mode where WFI is unsafe
LEMMA StartSecondariesMoves ==
    ASSUME BootOK, StartSecondaries
    PROVE  /\ boot.pc = "idle"
           /\ \/ Done("start", -1)
              \/ (Enter("mode", 1, "start") \/ Enter("start", 1, "start")) /\ boot'.mode = TRUE
  <1>1. boot.pc = "idle"
    BY Zenon DEF StartSecondaries, Goto
  <1>2. CASE boot' = Return("start", -1, 0)
    BY <1>1, <1>2, Returns, Zenon
  <1>3. ASSUME NEW p \in {"mode", "start"},
               boot' = [NoLocals EXCEPT !.pc = p, !.i = 1, !.mode = TRUE, !.then = "start"]
        PROVE  Enter(p, 1, "start") /\ boot'.mode = TRUE
    BY <1>3, Numbers, Zenon DEF NoLocals, Return, Enter, BootLocals, BootPlaces, Functions
  <1>4. \/ boot' = Return("start", -1, 0)
        \/ boot' = [NoLocals EXCEPT !.pc = IF UnsafeWfi THEN "mode" ELSE "start", !.i = 1,
                                    !.mode = TRUE, !.then = "start"]
    BY Zenon DEF StartSecondaries, Goto
  <1> QED
    BY <1>1, <1>2, <1>3, <1>4, Zenon

\* smp_start_cpu: a running CPU is skipped, a dead one is set up or refused
LEMMA StartCheckMoves ==
    ASSUME BootOK, StartCheck
    PROVE  /\ boot.pc = "start"
           /\ \/ flag[boot.i] # 0 /\ Loop("start", FALSE)
              \/ /\ flag[boot.i] = 0
                 /\ Go("start_setup") \/ Done("start", -1) \/ Loop("start", StartReports)
  <1>1. boot.pc = "start" /\ boot.i \in CPUs /\ boot \in BootLocals
    BY Zenon DEF StartCheck, Goto, BootOK, Moding
  <1>2. StartReports \in BOOLEAN
    BY DEF StartReports
  <1>3. CASE flag[boot.i] # 0
    <2>1. boot' = NextCpu("start", FALSE)
      BY <1>3, Zenon DEF StartCheck, Goto
    <2> QED
      BY <1>1, <1>3, <2>1, Loops, Zenon
  <1>4. CASE flag[boot.i] = 0
    <2>1. CASE boot' = [boot EXCEPT !.pc = "start_setup"]
      BY <1>1, <1>4, <2>1, ZenonT(30) DEF Go, BootLocals, BootPlaces
    <2>2. CASE boot' = Return("start", -1, 0) \/ boot' = NextCpu("start", StartReports)
      BY <1>1, <1>2, <1>4, <2>2, Loops, Returns, Zenon
    <2> QED
      BY <1>4, <2>1, <2>2, Zenon DEF StartCheck, Goto
  <1> QED
    BY <1>3, <1>4, Zenon

\* A CPU that does not start ends the loop on T8152 and is passed over elsewhere
LEMMA StartTimeoutMoves ==
    ASSUME BootOK, StartTimeout
    PROVE  boot.pc = "start_poll" /\ (Done("start", -1) \/ Loop("start", StartReports))
  <1>1. boot.pc = "start_poll" /\ boot.i \in CPUs /\ boot \in BootLocals
    BY Zenon DEF StartTimeout, Goto, BootOK, Moding
  <1>2. StartReports \in BOOLEAN
    BY DEF StartReports
  <1>3. boot' = Return("start", -1, 0) \/ boot' = NextCpu("start", StartReports)
    BY Zenon DEF StartTimeout, Goto
  <1> QED
    BY <1>1, <1>2, <1>3, Loops, Returns, Zenon

\* Steps that go on
LEMMA Goes ==
    ASSUME BootOK
    PROVE  /\ StartSetup => boot.pc = "start_setup" /\ Go("start_release")
           /\ StartRelease => boot.pc = "start_release" /\ Go("start_poll")
           /\ CallTarget => boot.pc = "call_target" /\ Go("call_kick")
           /\ CallKick => boot.pc = "call_kick" /\ Go("call_wait")
           /\ ModeIpi => boot.pc = "mode_ipi" /\ Go("mode_sev")
           /\ StopAcked => boot.pc = "stop_ack" /\ Go("stop_check")
  <1>1. ASSUME NEW p \in BootPlaces, boot' = [boot EXCEPT !.pc = p]
        PROVE  Go(p)
    BY <1>1, Zenon DEF Go, BootOK, BootLocals
  <1> QED
    BY <1>1, Zenon DEF StartSetup, StartRelease, CallTarget, CallKick, ModeIpi, StopAcked, Goto, BootPlaces

\* Steps that turn to the next CPU
LEMMA LoopMoves ==
    ASSUME BootOK
    PROVE  /\ StartOk => boot.pc = "start_poll" /\ Loop("start", FALSE)
           /\ StopBusy => boot.pc = "stop_wait" /\ Loop("stop", TRUE)
           /\ StopUnacked => boot.pc = "stop_ack" /\ Loop("stop", TRUE)
           /\ StopDone => boot.pc = "stop_check" /\ Loop("stop", FALSE)
           /\ StopFailed => boot.pc = "stop_check" /\ Loop("stop", TRUE)
  BY Loops, Zenon DEF StartOk, StopBusy, StopUnacked, StopDone, StopFailed, Goto, BootOK, Moding

\* smp_call4 is entered for a function
LEMMA CallMoves ==
    ASSUME BootOK, NEW i \in CPUs, Call(i)
    PROVE  boot.pc = "idle" /\ Enter("call", i, "call") /\ boot'.fn = Fn /\ ncall < MaxCalls
  BY Numbers, Zenon DEF Call, Goto, NoLocals, Return, Enter, BootLocals, BootPlaces, Functions

\* A refused smp_call4 returns to its caller
LEMMA CallRefuseMoves ==
    ASSUME BootOK, CallRefuse
    PROVE  /\ boot.pc = "call"
           /\ \/ boot.then = "call" /\ Done("call", -1)
              \/ boot.then = "stop" /\ Loop("stop", TRUE)
  <1>1. boot.pc = "call" /\ boot.i \in CPUs /\ boot \in BootLocals /\ boot.then \in {"call", "stop"}
    BY Zenon DEF CallRefuse, Goto, BootOK, Moding, Calling
  <1>2. CASE boot.then = "call"
    BY <1>1, <1>2, Returns, Zenon DEF CallRefuse, Goto
  <1>3. CASE boot.then = "stop"
    BY <1>1, <1>3, Loops, Zenon DEF CallRefuse, Goto
  <1> QED
    BY <1>1, <1>2, <1>3, Zenon

\* An accepted one notes the flag
LEMMA CallPrepareMoves ==
    ASSUME TypeOK, BootOK, CallPrepare
    PROVE  boot.pc = "call" /\ Go("call_target") /\ boot'.flag = flag[boot.i]
  <1>1. boot.pc = "call" /\ boot' = [boot EXCEPT !.pc = "call_target", !.flag = flag[boot.i]]
    BY Zenon DEF CallPrepare, Goto
  <1>2. flag[boot.i] \in Nat
    BY <1>1, Zenon DEF TypeOK, BootOK, Moding
  <1> QED
    BY <1>1, <1>2, Zenon DEF Go, BootOK, BootLocals, BootPlaces

\* smp_call4 returns to its caller, acknowledged or not
LEMMA CallEnds ==
    ASSUME BootOK, CallOk \/ CallTimeout
    PROVE  /\ boot.pc = "call_wait"
           /\ \/ boot.then = "call" /\ (Done("call", 0) \/ Done("call", Timeout))
              \/ boot.then = "stop" /\ Go("stop_ack")
  <1>1. boot.pc = "call_wait" /\ boot \in BootLocals /\ boot.then \in {"call", "stop"}
    BY Zenon DEF CallOk, CallTimeout, Goto, BootOK, Calling
  <1>2. CASE boot.then = "call"
    BY <1>1, <1>2, Returns, Zenon DEF CallOk, CallTimeout, Goto
  <1>3. CASE boot.then = "stop"
    <2>1. boot' = [boot EXCEPT !.pc = "stop_ack"]
      BY <1>3, Zenon DEF CallOk, CallTimeout, Goto
    <2> QED
      BY <1>1, <1>3, <2>1, Zenon DEF Go, BootLocals, BootPlaces
  <1> QED
    BY <1>1, <1>2, <1>3, Zenon

\* smp_wait refuses a dead CPU and waits for another
LEMMA WaitMoves ==
    ASSUME BootOK, NEW i \in CPUs, Wait(i)
    PROVE  boot.pc = "idle" /\ (Done("wait", -1) \/ Enter("wait", i, "idle"))
  <1>1. CASE boot' = Return("wait", -1, 0)
    BY <1>1, Returns, Zenon DEF Wait, Goto
  <1>2. CASE boot' = [NoLocals EXCEPT !.pc = "wait", !.i = i]
    BY <1>2, Numbers, ZenonT(30) DEF Wait, Goto, NoLocals, Return, Enter, BootLocals, BootPlaces, Functions
  <1> QED
    BY <1>1, <1>2, Zenon DEF Wait, Goto

\* It returns what stands in the slot
LEMMA WaitDoneMoves ==
    ASSUME TypeOK, BootOK, WaitDone
    PROVE  /\ boot.pc = "wait" /\ Done("wait", 0)
           /\ boot'.i = boot.i /\ boot'.val = retval[boot.i]
  <1>1. boot.pc = "wait" /\ boot.i \in CPUs
    BY Zenon DEF WaitDone, Goto, BootOK, Moding
  <1>2. boot' = [Return("wait", 0, retval[boot.i]) EXCEPT !.i = boot.i] /\ retval[boot.i] \in IdOrNone
    BY <1>1, Zenon DEF WaitDone, Goto, TypeOK
  <1> QED
    BY <1>1, <1>2, Numbers, Zenon DEF Return, Done, BootLocals, BootPlaces, Functions

\* The functions that return at once
LEMMA ShortReturns ==
    ASSUME BootOK
    PROVE  /\ WaitTimeout => boot.pc = "wait" /\ Done("wait", Timeout)
           /\ \A i \in CPUs : GetReleaseAddr(i) => boot.pc = "idle" /\ Done("release", 0)
  BY Returns, Zenon DEF WaitTimeout, GetReleaseAddr, Goto

\* smp_set_wfe_mode refuses what the chip cannot do
LEMMA SetWfeModeMoves ==
    ASSUME BootOK, NEW new \in BOOLEAN, SetWfeMode(new)
    PROVE  /\ boot.pc = "idle"
           /\ \/ Done("mode", 0)
              \/ /\ Enter("mode", 0, "idle") /\ boot'.mode = (new \/ Chip = "t8142")
                 /\ new \/ Chip # "t8152"
  <1>1. CASE ~new /\ (UnsafeWfi \/ Chip = "t8152")
    BY <1>1, Returns, Zenon DEF SetWfeMode, Goto
  <1>2. CASE ~(~new /\ (UnsafeWfi \/ Chip = "t8152"))
    <2> DEFINE m == new \/ Chip = "t8142"
    <2>1. boot.pc = "idle" /\ boot' = [NoLocals EXCEPT !.pc = "mode", !.then = "idle", !.mode = m]
      BY <1>2, Zenon DEF SetWfeMode, Goto
    <2>2. m \in BOOLEAN
      BY Zenon
    <2>3. Enter("mode", 0, "idle") /\ boot'.mode = m
      <3> HIDE DEF m
      <3> QED
        BY <2>1, <2>2, Numbers, Zenon DEF NoLocals, Return, Enter, BootLocals, BootPlaces, Functions
    <2> QED
      BY <1>2, <2>1, <2>3, Zenon
  <1> QED
    BY <1>1, <1>2, Zenon

\* The mode is stored, then told to the CPUs
LEMMA ModeStoreMoves ==
    ASSUME BootOK, ModeStore
    PROVE  /\ boot.pc = "mode"
           /\ \/ Chip = "t8142" /\ Go("mode_sev")
              \/ Chip # "t8142" /\ Go("mode_ipi")
  BY Zenon DEF ModeStore, Goto, Go, BootOK, BootLocals, BootPlaces

\* smp_set_wfe_mode returns to its caller
LEMMA ModeSevMoves ==
    ASSUME BootOK, ModeSev
    PROVE  /\ boot.pc = "mode_sev"
           /\ \/ boot.then = "idle" /\ Done("mode", 0)
              \/ boot.then \in {"start", "stop"} /\ Go(boot.then)
  <1>1. boot.pc = "mode_sev" /\ boot \in BootLocals /\ boot.then \in {"idle", "start", "stop"}
    BY Zenon DEF ModeSev, Goto, BootOK, Moding
  <1>2. CASE boot.then = "idle"
    BY <1>1, <1>2, Returns, Zenon DEF ModeSev, Goto
  <1>3. CASE boot.then # "idle"
    BY <1>1, <1>3, Zenon DEF ModeSev, Goto, Go, BootLocals, BootPlaces
  <1> QED
    BY <1>1, <1>2, <1>3, Zenon

\* smp_stop_secondaries refuses or enters WFE mode first
LEMMA StopSecondariesMoves ==
    ASSUME BootOK, NEW deep \in BOOLEAN, StopSecondaries(deep)
    PROVE  /\ boot.pc = "idle"
           /\ \/ Done("stop", -1)
              \/ Enter("mode", 1, "stop") /\ boot'.mode = TRUE /\ Chip # "t8152"
  <1>1. CASE Chip = "t8152"
    BY <1>1, Returns, Zenon DEF StopSecondaries, Goto
  <1>2. CASE Chip # "t8152"
    BY <1>2, Numbers, ZenonT(30) DEF StopSecondaries, Goto, NoLocals, Return, Enter, BootLocals, BootPlaces,
       Functions
  <1> QED
    BY <1>1, <1>2, Zenon

\* smp_stop_cpu: a dead CPU is skipped, a pending stop taken up again
LEMMA StopCheckMoves ==
    ASSUME BootOK, StopCheck
    PROVE  /\ boot.pc = "stop"
           /\ \/ flag[boot.i] = 0 /\ Loop("stop", FALSE)
              \/ flag[boot.i] # 0 /\ stop[boot.i].pending /\ Go("stop_ack")
              \/ flag[boot.i] # 0 /\ Go("stop_wait")
  <1>1. boot.pc = "stop" /\ boot.i \in CPUs /\ boot \in BootLocals
    BY Zenon DEF StopCheck, Goto, BootOK, Moding
  <1>2. CASE flag[boot.i] = 0
    BY <1>1, <1>2, Loops, Zenon DEF StopCheck, Goto
  <1>3. CASE flag[boot.i] # 0
    BY <1>1, <1>3, Zenon DEF StopCheck, Goto, Go, BootLocals, BootPlaces
  <1> QED
    BY <1>1, <1>2, <1>3, Zenon

\* cpu_sleep is dispatched
LEMMA StopPostMoves ==
    ASSUME BootOK, StopPost
    PROVE  /\ boot.pc = "stop_wait"
           /\ boot' \in BootLocals
           /\ boot'.pc = "call" /\ boot'.i = boot.i /\ boot'.then = "stop" /\ boot'.fn = Sleep
           /\ boot'.op = boot.op
  BY Zenon DEF StopPost, Goto, BootOK, BootLocals, BootPlaces, Functions

-----------------------------------------------------------------------------
(* Types                                                                   *)

\* Every step of the boot CPU leaves its locals consistent
LEMMA BootStep ==
    ASSUME TypeOK, BootOK, Boot
    PROVE  BootOK'
  <1> USE Numbers DEF BootOK, Moding, Calling
  <1>1. ASSUME NEW op, NEW ret, Done(op, ret), op # "wait" \/ ret # 0
        PROVE  BootOK'
    BY <1>1, Zenon DEF Done
  <1>2. ASSUME NEW p \in {"start", "stop"}, NEW f \in BOOLEAN, Loop(p, f)
        PROVE  BootOK'
    BY <1>2, <1>1, Zenon DEF Loop
  <1>3. CASE StartSecondaries
    BY <1>3, <1>1, StartSecondariesMoves, Zenon DEF Enter
  <1>4. CASE StartCheck
    <2>1. StartReports \in BOOLEAN
      BY DEF StartReports
    <2> QED
      BY <1>4, <2>1, <1>1, <1>2, StartCheckMoves, Zenon DEF Go
  <1>5. CASE StartTimeout
    <2>1. StartReports \in BOOLEAN
      BY DEF StartReports
    <2> QED
      BY <1>5, <2>1, <1>1, <1>2, StartTimeoutMoves, Zenon
  <1>6. CASE StartOk \/ StopBusy \/ StopUnacked \/ StopDone \/ StopFailed
    BY <1>6, <1>2, LoopMoves, Zenon
  <1>7. CASE StartSetup \/ StartRelease \/ ModeIpi \/ StopAcked
    BY <1>7, Goes, Zenon DEF Go
  <1>8. CASE CallTarget \/ CallKick
    BY <1>8, Goes, Zenon DEF Go
  <1>9. CASE CallPrepare
    BY <1>9, CallPrepareMoves, Zenon DEF Go
  <1>10. CASE CallRefuse
    BY <1>10, <1>1, <1>2, CallRefuseMoves, Zenon
  <1>11. CASE CallOk \/ CallTimeout
    BY <1>11, <1>1, CallEnds, Zenon DEF Go
  <1>12. ASSUME NEW i \in CPUs, Call(i)
         PROVE  BootOK'
    BY <1>12, CallMoves, Zenon DEF Enter, Call, bounds
  <1>13. ASSUME NEW i \in CPUs, Wait(i)
         PROVE  BootOK'
    <2>1. CASE Done("wait", -1)
      BY <2>1, <1>1
    <2>2. CASE Enter("wait", i, "idle")
      BY <2>2, Zenon DEF Enter
    <2> QED
      BY <1>13, <2>1, <2>2, WaitMoves, Zenon
  <1>14. ASSUME NEW i \in CPUs, GetReleaseAddr(i)
         PROVE  BootOK'
    BY <1>14, <1>1, ShortReturns, Zenon
  <1>15. CASE WaitTimeout
    BY <1>15, <1>1, ShortReturns DEF Timeout
  <1>16. CASE WaitDone
    BY <1>16, WaitDoneMoves, Zenon DEF Done
  <1>17. ASSUME NEW b \in BOOLEAN, SetWfeMode(b)
         PROVE  BootOK'
    BY <1>17, <1>1, SetWfeModeMoves, Zenon DEF Enter
  <1>18. ASSUME NEW b \in BOOLEAN, StopSecondaries(b)
         PROVE  BootOK'
    BY <1>18, <1>1, StopSecondariesMoves, Zenon DEF Enter
  <1>19. CASE ModeStore
    BY <1>19, ModeStoreMoves, Zenon DEF Go
  <1>20. CASE ModeSev
    BY <1>20, <1>1, ModeSevMoves, Zenon DEF Go
  <1>21. CASE StopCheck
    BY <1>21, <1>2, StopCheckMoves, Zenon DEF Go
  <1>22. CASE StopPost
    BY <1>22, StopPostMoves, Zenon DEF Fn, Sleep
  <1> QED
    BY <1>3, <1>4, <1>5, <1>6, <1>7, <1>8, <1>9, <1>10, <1>11, <1>12, <1>13, <1>14, <1>15, <1>16,
       <1>17, <1>18, <1>19, <1>20, <1>21, <1>22, Zenon DEF Boot

\* Clearing a slot keeps the spin table well typed
LEMMA ClearSlotType ==
    ASSUME TypeOK, NEW i \in CPUs, ClearSlot(i)
    PROVE  /\ mpidr' \in [CPUs -> CpuOrNone]
           /\ flag' \in [CPUs -> Nat]
           /\ target' \in [CPUs -> Functions]
           /\ args' \in [CPUs -> IdOrNone]
           /\ retval' \in [CPUs -> IdOrNone]
  BY Numbers, Zenon DEF TypeOK, ClearSlot, Functions

\* The steps of the boot CPU keep the types
LEMMA TypeBoot ==
    ASSUME TypeOK, BootOK, Boot, UNCHANGED soc
    PROVE  TypeOK'
  <1>0. BootOK' /\ boot' \in BootLocals /\ boot \in BootLocals
    BY BootStep, Zenon DEF BootOK
  <1> USE <1>0 DEF TypeOK, table, shared, secondary, masks, bounds, history
  <1>1. CASE \E i \in CPUs : Call(i) \/ Wait(i)
    BY <1>1, Zenon DEF Call, Wait
  <1>2. CASE WaitDone \/ WaitTimeout \/ CallOk \/ CallTimeout \/ (\E b \in BOOLEAN : StopSecondaries(b))
    BY <1>2, Zenon DEF WaitDone, WaitTimeout, CallOk, CallTimeout, StopSecondaries
  <1>3. CASE StopCheck \/ StopBusy \/ StopAcked \/ StopUnacked \/ StopFailed
    BY <1>3, Zenon DEF StopCheck, StopBusy, StopAcked, StopUnacked, StopFailed
  <1>4. CASE StartSecondaries
    <2>1. nstart' \in 0..MaxStarts
      BY <1>4, ConstantsAssumption DEF StartSecondaries
    <2> QED
      BY <1>4, <2>1, Zenon DEF StartSecondaries
  <1>16. ASSUME NEW b \in BOOLEAN, SetWfeMode(b)
         PROVE  TypeOK'
    <2>1. nmode' \in 0..MaxModes
      BY <1>16, ConstantsAssumption DEF SetWfeMode
    <2> QED
      BY <1>16, <2>1, Zenon DEF SetWfeMode
  <1>5. CASE StartCheck
    BY <1>5, StartCheckMoves, Zenon DEF StartCheck, BootOK, Moding
  <1>6. CASE StartOk \/ StartTimeout
    BY <1>6, LoopMoves, StartTimeoutMoves, Numbers, Zenon DEF StartOk, StartTimeout, Dummy, BootOK, Moding
  <1>7. CASE StartSetup
    <2>1. boot.i \in CPUs
      BY <1>7, Goes, Zenon DEF BootOK, Moding
    <2>2. CASE Chip = "t8152"
      BY <1>7, <2>2, Zenon DEF StartSetup
    <2>3. CASE Chip # "t8152"
      <3>1. post' \in [CPUs -> IdOrNone]
        BY <1>7, <2>3, Numbers, Zenon DEF StartSetup
      <3> QED
        BY <1>7, <2>1, <2>3, <3>1, ClearSlotType, Numbers, ZenonT(30) DEF StartSetup
    <2> QED
      BY <2>2, <2>3, Zenon
  <1>8. CASE StartRelease
    BY <1>8, Goes, ZenonT(30) DEF StartRelease, Sev, Places
  <1>9. CASE CallRefuse
    BY <1>9, Zenon DEF CallRefuse
  <1>10. CASE CallPrepare
    BY <1>10, CallPrepareMoves, ConstantsAssumption DEF CallPrepare, BootOK, Moding, IdOrNone
  <1>11. CASE CallTarget
    BY <1>11, Goes, Zenon DEF CallTarget, BootLocals
  <1>12. CASE CallKick \/ ModeIpi \/ ModeSev \/ ModeStore
    BY <1>12, ZenonT(30) DEF CallKick, ModeIpi, ModeSev, ModeStore, Sev, BootLocals
  <1>13. ASSUME NEW i \in CPUs, GetReleaseAddr(i)
         PROVE  TypeOK'
    BY <1>13, Numbers, Zenon DEF GetReleaseAddr
  <1>14. CASE StopPost
    BY <1>14, StopPostMoves, Zenon DEF StopPost, BootOK, BootLocals, Moding
  <1>15. CASE StopDone
    <2>1. boot.i \in CPUs
      BY <1>15, LoopMoves, Zenon DEF BootOK, Moding
    <2>2. post' \in [CPUs -> IdOrNone]
      BY <1>15, Numbers, Zenon DEF StopDone
    <2>3. stop' \in [CPUs -> [pending : BOOLEAN, deep : BOOLEAN, flag : Nat]]
      BY <1>15, <2>1, ZenonT(30) DEF StopDone
    <2> QED
      BY <1>15, <2>1, <2>2, <2>3, ClearSlotType, Zenon DEF StopDone
  <1> QED
    BY <1>1, <1>2, <1>3, <1>4, <1>5, <1>6, <1>7, <1>8, <1>9, <1>10, <1>11, <1>12, <1>13, <1>14,
       <1>15, <1>16, Zenon DEF Boot

\* A nonempty set of numbers has a least element
LEMMA HasLeast ==
    ASSUME NEW S, S \subseteq Nat, S # {}
    PROVE  \E i \in S : \A j \in S : i <= j
  <1> DEFINE R == OpToRel(<, Nat)
  <1>1. \E i \in S : \A j \in S : ~(<<j, i>> \in R)
    <2>1. IsWellFoundedOn(R, Nat)
      BY NatLessThanWellFounded, Zenon
    <2> HIDE DEF R
    <2> QED
      BY <2>1, WFMin, Zenon
  <1>2. \A i, j \in Nat : j < i => <<j, i>> \in R
    BY Zenon DEF OpToRel
  <1> HIDE DEF R
  <1>3. PICK i \in S : \A j \in S : ~(<<j, i>> \in R)
    BY <1>1, Zenon
  <1>4. ASSUME NEW j \in S
        PROVE  i <= j
    <2>1. ~(j < i)
      BY <1>2, <1>3, Zenon
    <2> QED
      BY <2>1
  <1> QED
    BY <1>4, Zenon

\* The lookup by MPIDR finds a slot
LEMMA FirstIn ==
    ASSUME NEW c \in CPUs, Published(c) # {}
    PROVE  First(Published(c)) \in Published(c)
  <1>1. Published(c) \subseteq Nat
    BY Numbers, Zenon DEF Published
  <1>2. \E i \in Published(c) : \A j \in Published(c) : i <= j
    BY <1>1, HasLeast, Zenon
  <1> QED
    BY <1>2, Zenon DEF First

\* A CPU that has entered has a slot
EntryOK ==
    /\ \A c \in CPUs : pc[c] \notin {"off", "reset", "entry"} => index[c] \in CPUs
    /\ Chip # "t8152" /\ (boot.pc = "start_release" \/ \E c \in CPUs : pc[c] # "off") =>
          target_cpu \in CPUs

\* Which steps lead the boot CPU to the places that matter below, and which of them start a CPU
Summary ==
    /\ boot'.pc = "start_release" => StartSetup
    /\ boot'.pc = "start_poll" => StartRelease
    /\ boot'.pc = "call_target" => CallPrepare
    /\ boot.pc = "call_target" => CallTarget
    /\ boot'.pc = "idle" /\ boot'.op = "wait" /\ boot'.ret = 0 => WaitDone
    /\ UNCHANGED <<rsMpidr, index, sp, fn, arg>>
    /\ StartSetup \/ UNCHANGED target_cpu
    /\ StartRelease \/ UNCHANGED pc

\* Every step of the boot CPU does what Summary says
LEMMA BootSummary ==
    ASSUME TypeOK, BootOK, Boot
    PROVE  Summary
  <1> USE DEF Summary, Done, Enter, Go, Loop, shared, secondary
  <1>1. CASE StartSecondaries
    BY <1>1, StartSecondariesMoves, Zenon DEF StartSecondaries
  <1>2. CASE StartCheck
    BY <1>2, StartCheckMoves, Zenon DEF StartCheck
  <1>3. CASE StartTimeout
    BY <1>3, StartTimeoutMoves, Zenon DEF StartTimeout
  <1>4. CASE StartOk \/ StopBusy \/ StopUnacked \/ StopDone \/ StopFailed
    BY <1>4, LoopMoves, Zenon DEF StartOk, StopBusy, StopUnacked, StopDone, StopFailed
  <1>5. CASE StartSetup
    <2>1. UNCHANGED <<rsMpidr, index, sp, fn, arg, pc>>
      BY <1>5, Zenon DEF StartSetup
    <2> QED
      BY <1>5, <2>1, Goes, Zenon
  <1>6. CASE StartRelease
    <2>1. UNCHANGED <<rsMpidr, index, sp, fn, arg, target_cpu>>
      BY <1>6, Zenon DEF StartRelease
    <2> QED
      BY <1>6, <2>1, Goes, Zenon
  <1>7. CASE CallTarget \/ CallKick \/ ModeIpi \/ StopAcked
    <2>1. UNCHANGED <<rsMpidr, index, sp, fn, arg, target_cpu, pc>>
      BY <1>7, Zenon DEF CallTarget, CallKick, ModeIpi, StopAcked
    <2> QED
      BY <1>7, <2>1, Goes, Zenon
  <1>8. CASE CallPrepare
    <2>1. UNCHANGED <<rsMpidr, index, sp, fn, arg, target_cpu, pc>>
      BY <1>8, Zenon DEF CallPrepare
    <2> QED
      BY <1>8, <2>1, CallPrepareMoves, Zenon
  <1>9. CASE CallRefuse
    BY <1>9, CallRefuseMoves, Zenon DEF CallRefuse
  <1>10. CASE CallOk \/ CallTimeout
    BY <1>10, CallEnds, Zenon DEF CallOk, CallTimeout
  <1>11. ASSUME NEW i \in CPUs, Call(i)
         PROVE  Summary
    BY <1>11, CallMoves, Zenon DEF Call
  <1>12. ASSUME NEW i \in CPUs, Wait(i)
         PROVE  Summary
    <2>1. UNCHANGED <<rsMpidr, index, sp, fn, arg, target_cpu, pc>>
      BY <1>12, Zenon DEF Wait
    <2>2. boot.pc = "idle" /\ (Done("wait", -1) \/ Enter("wait", i, "idle"))
      BY <1>12, WaitMoves, Zenon
    <2>3. boot.pc = "idle" /\ boot'.pc \in {"idle", "wait"} /\ (boot'.pc = "idle" => boot'.ret # 0)
      BY <2>2
    <2> QED
      BY <2>1, <2>3, Zenon
  <1>13. ASSUME NEW i \in CPUs, GetReleaseAddr(i)
         PROVE  Summary
    BY <1>13, ShortReturns, Zenon DEF GetReleaseAddr
  <1>14. CASE WaitDone
    <2>1. UNCHANGED <<rsMpidr, index, sp, fn, arg, target_cpu, pc>>
      BY <1>14, Zenon DEF WaitDone
    <2> QED
      BY <1>14, <2>1, WaitDoneMoves, Zenon
  <1>15. CASE WaitTimeout
    BY <1>15, ShortReturns DEF WaitTimeout, Timeout
  <1>16. ASSUME NEW b \in BOOLEAN, SetWfeMode(b)
         PROVE  Summary
    BY <1>16, SetWfeModeMoves, Zenon DEF SetWfeMode
  <1>17. ASSUME NEW b \in BOOLEAN, StopSecondaries(b)
         PROVE  Summary
    BY <1>17, StopSecondariesMoves, Zenon DEF StopSecondaries
  <1>18. CASE ModeStore \/ ModeSev
    BY <1>18, ModeStoreMoves, ModeSevMoves, Zenon DEF ModeStore, ModeSev
  <1>19. CASE StopCheck \/ StopPost
    BY <1>19, StopCheckMoves, StopPostMoves, Zenon DEF StopCheck, StopPost
  <1> QED
    BY <1>1, <1>2, <1>3, <1>4, <1>5, <1>6, <1>7, <1>8, <1>9, <1>10, <1>11, <1>12, <1>13, <1>14,
       <1>15,
       <1>16, <1>17, <1>18, <1>19, Zenon DEF Boot

\* The steps of a secondary keep the types: its index is a slot of the table
LEMMA TypeSecondary ==
    ASSUME TypeOK, BootOK, EntryOK, NEW c \in CPUs, Secondary(c), UNCHANGED soc
    PROVE  TypeOK' /\ BootOK'
  <1>0. pc[c] \notin {"off", "reset", "entry"} => index[c] \in CPUs
    BY Zenon DEF EntryOK
  <1> USE <1>0, Numbers DEF TypeOK, BootOK, Step, table, shared, masks, bounds, history
  <1>1. CASE CpuReset(c)
    <2>1. pc' \in [CPUs -> Places]
      BY <1>1, Zenon DEF CpuReset, Places
    <2>2. sp' \in [CPUs -> CpuOrNone]
      <3>1. \E s \in CpuOrNone : sp' = [sp EXCEPT ![c] = s]
        BY <1>1, FirstIn, Zenon DEF CpuReset, Published
      <3> QED BY <3>1
    <2> QED
      BY <1>1, <2>1, <2>2, Zenon DEF CpuReset
  <1>2. CASE EntryIndex(c)
    <2>1. pc' \in [CPUs -> Places]
      BY <1>2, Zenon DEF EntryIndex, Places
    <2>2. index' \in [CPUs -> CpuOrNone]
      <3>1. \E s \in CpuOrNone : index' = [index EXCEPT ![c] = s]
        BY <1>2, FirstIn, Zenon DEF EntryIndex, Published
      <3> QED BY <3>1
    <2> QED
      BY <1>2, <2>1, <2>2, ZenonT(30) DEF EntryIndex
  <1>3. CASE EntryPublish(c)
    BY <1>3, ZenonT(30) DEF EntryPublish, Places
  <1>4. CASE EntryFlag(c)
    <2>0. index[c] \in CPUs /\ flag[index[c]] \in Nat
      BY <1>4, Zenon DEF EntryFlag
    <2>1. flag' \in [CPUs -> Nat]
      BY <1>4, <2>0 DEF EntryFlag
    <2>2. mpidr' \in [CPUs -> CpuOrNone] /\ pc' \in [CPUs -> Places]
      BY <1>4, Zenon DEF EntryFlag, Places
    <2> QED
      BY <1>4, <2>1, <2>2, Zenon DEF EntryFlag
  <1>5. CASE Poll(c)
    <2>1. pc' \in [CPUs -> Places]
      BY <1>5, Zenon DEF Poll, Places
    <2>2. fn' \in [CPUs -> Functions]
      BY <1>5, Zenon DEF Poll
    <2> QED
      BY <1>5, <2>1, <2>2, Zenon DEF Poll
  <1>6. pc' \in [CPUs -> Places] /\ (ReadMode(c) \/ DeepWfi(c) \/ WfiWake(c)) => TypeOK' /\ BootOK'
    BY ZenonT(30) DEF ReadMode, DeepWfi, WfiWake
  <1>12. CASE ReadMode(c)
    BY <1>6, <1>12, Zenon DEF ReadMode, Places
  <1>13. CASE DeepWfi(c)
    BY <1>6, <1>13, Zenon DEF DeepWfi, Places
  <1>14. CASE WfiWake(c)
    BY <1>6, <1>14, Zenon DEF WfiWake, Places
  <1>15. CASE Wfe(c)
    BY <1>15, ZenonT(30) DEF Wfe, Places
  <1>16. CASE IpiAck(c)
    BY <1>16, ZenonT(30) DEF IpiAck, Places
  <1>7. CASE CallAck(c)
    <2>0. index[c] \in CPUs /\ flag[index[c]] \in Nat
      BY <1>7, Zenon DEF CallAck
    <2>1. flag' \in [CPUs -> Nat]
      BY <1>7, <2>0 DEF CallAck
    <2> QED
      BY <1>7, <2>1, ZenonT(30) DEF CallAck, Places
  <1>8. CASE CallEnter(c)
    <2>1. ran' \in [Ids -> Nat]
      BY <1>8 DEF CallEnter
    <2>2. arg' \in [CPUs -> IdOrNone]
      BY <1>8, Zenon DEF CallEnter
    <2>3. pc' \in [CPUs -> Places]
      BY <1>8, Zenon DEF CallEnter, Places
    <2> QED
      BY <1>8, <2>1, <2>2, <2>3, Zenon DEF CallEnter
  <1>9. CASE CallReturn(c)
    BY <1>9, ZenonT(30) DEF CallReturn, Places
  <1>10. CASE CallClear(c)
    BY <1>10, ZenonT(30) DEF CallClear, Places, Functions
  <1>11. CASE PowerOff(c)
    BY <1>11, ZenonT(30) DEF PowerOff, Places, Functions, Dummy
  <1> QED
    BY <1>1, <1>2, <1>3, <1>4, <1>5, <1>6, <1>7, <1>8, <1>9, <1>10, <1>11, <1>12, <1>13, <1>14,
       <1>15, <1>16, ZenonT(30) DEF Secondary, Dispatcher

TypeInv == TypeOK /\ BootOK /\ EntryOK

\* The initial state is well typed
LEMMA TypeInit == Init => TypeInv
  <1> SUFFICES ASSUME Init PROVE TypeInv
    BY Zenon
  <1>1. boot = Return("none", 0, 0) /\ boot \in BootLocals
    BY ReturnType, Numbers, Zenon DEF Init, NoLocals
  <1>2. BootOK
    BY <1>1, Zenon DEF BootOK, Return, Calling, Moding
  <1>3. EntryOK
    BY <1>1 DEF Init, EntryOK, Return
  <1>4. rsMpidr \in [CPUs -> CpuOrNone]
    BY Numbers, Zenon DEF Init
  <1>5. TypeOK
    BY <1>1, <1>4, Numbers, ConstantsAssumption DEF Init, TypeOK, Places, Functions, Dummy
  <1> QED
    BY <1>2, <1>3, <1>5, Zenon DEF TypeInv

\* Every step keeps the types
LEMMA TypeStep ==
    ASSUME TypeInv, Next
    PROVE  TypeInv'
  <1> USE DEF TypeInv
  <1>0. soc' = soc /\ Chip' = Chip
    BY Zenon DEF Next, Chip
  <1>1. CASE Boot
    <2>1. TypeOK' /\ BootOK'
      BY <1>0, <1>1, BootStep, TypeBoot, Zenon
    <2>2. CASE StartSetup
      <3>1. /\ boot.i \in CPUs /\ boot \in BootLocals /\ UNCHANGED <<pc, index>>
            /\ Chip # "t8152" => target_cpu' = boot.i
        BY <2>2, Goes, Zenon DEF StartSetup, secondary, BootOK, Moding
      <3> QED
        BY <1>0, <2>1, <3>1, Zenon DEF EntryOK
    <2>3. CASE StartRelease
      <3>1. boot.pc = "start_release" /\ boot'.pc = "start_poll" /\ UNCHANGED <<target_cpu, index>>
        BY <2>3, Goes, Zenon DEF StartRelease, shared, Go
      <3>2. \A c \in CPUs : pc'[c] = pc[c] \/ pc'[c] = "reset"
        BY <2>3, Zenon DEF StartRelease, TypeOK
      <3> QED
        BY <1>0, <2>1, <3>1, <3>2, Zenon DEF EntryOK
    <2>4. CASE ~StartSetup /\ ~StartRelease
      BY <1>0, <1>1, <2>1, <2>4, BootSummary, Zenon DEF EntryOK, Summary
    <2> QED
      BY <2>2, <2>3, <2>4, Zenon
  <1>2. ASSUME NEW c \in CPUs, Secondary(c)
        PROVE  TypeInv'
    <2>1. TypeOK' /\ BootOK'
      BY <1>0, <1>2, TypeSecondary, Zenon
    <2> USE DEF Step, shared, TypeOK
    <2>2. CASE EntryIndex(c)
      <3>1. index' = [index EXCEPT ![c] = index'[c]] /\ index'[c] \in CPUs
        <4>1. Published(c) # {} => First(Published(c)) \in CPUs
          BY FirstIn, Zenon DEF Published
        <4>2. Chip # "t8152" => target_cpu \in CPUs
          BY <2>2, Zenon DEF EntryIndex, EntryOK
        <4>3. \E s \in CPUs : index' = [index EXCEPT ![c] = s]
          BY <2>2, <4>1, <4>2, Zenon DEF EntryIndex
        <4> QED
          BY <4>3, Zenon
      <3> QED
        BY <1>0, <2>1, <2>2, <3>1, Zenon DEF EntryOK, EntryIndex
    <2>3. CASE PowerOff(c)
      BY <1>0, <2>1, <2>3, SMTT(60) DEF EntryOK, PowerOff
    <2>4. ASSUME NEW from \in Places \ {"off"}, NEW to \in Places,
                 Step(c, from, to), from \in {"reset", "entry"} => to \in {"reset", "entry"},
                 UNCHANGED <<index, target_cpu, boot>>
          PROVE  EntryOK'
      BY <1>0, <2>4, Zenon DEF EntryOK
    <2> HIDE DEF Step
    <2>5. CASE CpuReset(c) \/ EntryPublish(c) \/ EntryFlag(c)
      BY <2>1, <2>4, <2>5, Zenon DEF CpuReset, EntryPublish, EntryFlag, Places
    <2>6. CASE Poll(c) \/ ReadMode(c) \/ Wfe(c) \/ DeepWfi(c)
      BY <2>1, <2>4, <2>6, Zenon DEF Poll, ReadMode, Wfe, DeepWfi, Places
    <2>7. CASE WfiWake(c) \/ IpiAck(c)
      BY <2>1, <2>4, <2>7, Zenon DEF WfiWake, IpiAck, Places
    <2>8. CASE CallAck(c) \/ CallEnter(c) \/ CallReturn(c) \/ CallClear(c)
      BY <2>1, <2>4, <2>8, Zenon DEF CallAck, CallEnter, CallReturn, CallClear, Places
    <2> QED
      BY <1>2, <2>2, <2>3, <2>4, <2>5, <2>6, <2>7, <2>8, Zenon DEF Secondary, Dispatcher
  <1> QED
    BY <1>1, <1>2, Zenon DEF Next

\* So does a stuttering step
LEMMA TypeStutter ==
    ASSUME TypeInv, UNCHANGED vars
    PROVE  TypeInv'
  BY DEF TypeInv, TypeOK, BootOK, EntryOK, vars, table, shared, secondary, masks, bounds, history,
     Chip

\* The spin table, the reset-stack table and the locals of all CPUs keep their types, and no CPU
\* ever indexes the tables outside their bounds, on any system
THEOREM TypeTheorem == Spec => []TypeOK
  <1>1. TypeInv /\ [Next]_vars => TypeInv'
    BY TypeStep, TypeStutter, Zenon
  <1>2. TypeInv => TypeOK
    BY Zenon DEF TypeInv
  <1> QED
    BY <1>1, <1>2, TypeInit, PTL DEF Spec

-----------------------------------------------------------------------------
(* Starting                                                                *)

\* Places in smp_start_secondaries
Starting == {"start", "start_setup", "start_release", "start_poll"}

\* The loop of smp_start_secondaries remembers every CPU that did not start
StartInv ==
    /\ StartReports /\ boot.pc \in Starting /\ ~boot.failed =>
          \A j \in CPUs : j < boot.i => flag[j] # 0
    /\ StartReportsAll

\* A secondary never becomes dead by itself
LEMMA SecondaryFlags ==
    ASSUME TypeInv, NEW c \in CPUs, Secondary(c)
    PROVE  /\ boot' = boot
           /\ \A j \in CPUs : flag'[j] = flag[j] \/ (j = index[c] /\ flag'[j] = flag[j] + 1)
  <1>1. CASE EntryFlag(c) \/ CallAck(c)
    BY <1>1, Zenon DEF EntryFlag, CallAck, TypeInv, TypeOK
  <1>2. CASE CpuReset(c) \/ EntryIndex(c) \/ EntryPublish(c) \/ Poll(c) \/ ReadMode(c) \/ Wfe(c)
    BY <1>2, Zenon DEF CpuReset, EntryIndex, EntryPublish, Poll, ReadMode, Wfe, table
  <1>3. CASE \/ DeepWfi(c) \/ WfiWake(c) \/ IpiAck(c) \/ CallEnter(c) \/ CallReturn(c)
             \/ CallClear(c) \/ PowerOff(c)
    BY <1>3, Zenon DEF DeepWfi, WfiWake, IpiAck, CallEnter, CallReturn, CallClear, PowerOff, table
  <1> QED
    BY <1>1, <1>2, <1>3, Zenon DEF Secondary, Dispatcher

\* Every step keeps the account of the CPUs that have not started
LEMMA StartStep ==
    ASSUME TypeInv, StartInv, Next
    PROVE  StartInv'
  <1> USE Numbers DEF StartInv, StartReportsAll, Starting
  <1>0. /\ StartReports' <=> StartReports
        /\ TypeOK /\ BootOK /\ flag \in [CPUs -> Nat] /\ boot \in BootLocals
    BY Zenon DEF Next, StartReports, Chip, TypeInv, TypeOK
  <1> USE <1>0
  <1>1. ASSUME NEW c \in CPUs, Secondary(c)
        PROVE  StartInv'
    BY <1>1, SecondaryFlags
  <1>2. CASE Boot
    <2>1. ASSUME NEW op, NEW ret, Done(op, ret), op # "start" \/ ret # 0
          PROVE  StartInv'
      BY <2>1, Zenon DEF Done
    <2>2. ASSUME NEW f \in BOOLEAN, Loop("stop", f)
          PROVE  StartInv'
      BY <2>2, Zenon DEF Loop, Done
    <2>3. ASSUME NEW f \in BOOLEAN, Loop("start", f), flag' = flag, boot.pc \in Starting,
                 StartReports /\ ~f => flag[boot.i] # 0
          PROVE  StartInv'
      <3>1. boot.i \in CPUs
        BY <2>3, Zenon DEF BootOK, Moding
      <3>2. CASE boot'.pc = "start" /\ boot'.i = boot.i + 1 /\ boot'.failed = (boot.failed \/ f)
        <4>1. ASSUME NEW j \in CPUs, StartReports, ~boot'.failed, j < boot.i + 1
              PROVE  flag[j] # 0
          <5>1. ~boot.failed /\ ~f
            BY <3>2, <4>1, Zenon DEF BootLocals
          <5>2. j < boot.i \/ j = boot.i
            <6>1. \A x, y \in Nat : x < y + 1 => x < y \/ x = y
              OBVIOUS
            <6> QED
              BY <3>1, <4>1, <6>1, Zenon
          <5>3. \A k \in CPUs : k < boot.i => flag[k] # 0
            BY <2>3, <4>1, <5>1, <1>0, Zenon
          <5>4. flag[boot.i] # 0
            BY <2>3, <4>1, <5>1, Zenon
          <5> QED
            BY <5>2, <5>3, <5>4, Zenon
        <4> QED
          BY <2>3, <3>2, <4>1, Zenon
      <3>3. CASE boot.i = N /\ Done("start", IF boot.failed \/ f THEN -1 ELSE 0)
        <4>1. boot'.pc = "idle"
          BY <3>3, Zenon DEF Done
        <4>2. CASE StartReports /\ ~(boot.failed \/ f)
          <5>1. \A j \in CPUs : j < boot.i \/ j = boot.i
            BY <3>3, ConstantsAssumption DEF CPUs
          <5>2. \A j \in CPUs : flag[j] # 0
            BY <2>3, <4>2, <5>1, Zenon
          <5> QED
            BY <2>3, <4>1, <5>2, Zenon
        <4>3. CASE boot.failed \/ f
          BY <3>3, <4>3, <2>1
        <4>4. CASE ~StartReports
          BY <4>1, <4>4, Zenon
        <4> QED
          BY <4>2, <4>3, <4>4, Zenon
      <3> QED
        BY <2>3, <3>2, <3>3, Zenon DEF Loop
    <2>4. CASE StartSecondaries
      <3>1. flag' = flag
        BY <2>4, Zenon DEF StartSecondaries, table
      <3> QED
        <4>1. CASE Enter("mode", 1, "start") \/ Enter("start", 1, "start")
          <5>1. \A j \in CPUs : ~(j < boot'.i)
            BY <4>1 DEF Enter
          <5> QED
            BY <4>1, <5>1, Zenon DEF Enter
        <4>2. CASE Done("start", -1)
          BY <4>2, <2>1
        <4> QED
          BY <2>4, <4>1, <4>2, StartSecondariesMoves, Zenon
    <2>5. CASE StartCheck
      <3>1. flag' = flag /\ StartReports \in BOOLEAN
        BY <2>5 DEF StartCheck, table, StartReports
      <3> QED
        <4>1. boot.pc = "start"
          BY <2>5, StartCheckMoves, Zenon
        <4>2. CASE flag[boot.i] # 0 /\ Loop("start", FALSE)
          BY <3>1, <4>1, <4>2, <2>3, Zenon
        <4>3. CASE Go("start_setup")
          BY <3>1, <4>1, <4>3, Zenon DEF Go
        <4>4. CASE Done("start", -1)
          BY <4>4, <2>1
        <4>5. CASE Loop("start", StartReports)
          BY <3>1, <4>1, <4>5, <2>3, Zenon
        <4> QED
          BY <2>5, <4>2, <4>3, <4>4, <4>5, StartCheckMoves, Zenon
    <2>6. CASE StartSetup
      <3>1. boot.i \in CPUs
        BY <2>6, Goes, Zenon DEF BootOK, Moding
      <3>2. \A j \in CPUs : j # boot.i => flag'[j] = flag[j]
        <4>1. flag' = flag \/ flag' = [flag EXCEPT ![boot.i] = 0]
          BY <2>6, Zenon DEF StartSetup, ClearSlot, table
        <4> QED
          BY <3>1, <4>1, Zenon
      <3> QED
        BY <2>6, <3>1, <3>2, Goes DEF Go
    <2>7. CASE StartRelease
      <3>1. flag' = flag
        BY <2>7, Zenon DEF StartRelease, table
      <3> QED
        BY <2>7, <3>1, Goes, Zenon DEF Go
    <2>8. CASE StartOk
      <3>1. flag' = flag /\ flag[boot.i] # 0
        BY <2>8, Zenon DEF StartOk, table
      <3> QED
        BY <2>8, <3>1, <2>3, LoopMoves, Zenon
    <2>9. CASE StartTimeout
      <3>1. flag' = flag /\ StartReports \in BOOLEAN
        BY <2>9 DEF StartTimeout, table, StartReports
      <3> QED
        BY <2>9, <3>1, <2>1, <2>3, StartTimeoutMoves
    <2>10. ASSUME NEW i \in CPUs, Call(i) \/ Wait(i) \/ GetReleaseAddr(i)
           PROVE  StartInv'
      BY <2>10, <2>1, CallMoves, WaitMoves, ShortReturns, Zenon DEF Enter
    <2>11. CASE CallRefuse
      BY <2>11, <2>1, <2>2, CallRefuseMoves, Zenon
    <2>12. CASE CallPrepare \/ CallTarget \/ CallKick \/ ModeIpi \/ StopAcked
      BY <2>12, CallPrepareMoves, Goes, Zenon DEF Go
    <2>13. CASE CallOk \/ CallTimeout
      BY <2>13, <2>1, CallEnds, Zenon DEF Go
    <2>14. CASE WaitDone \/ WaitTimeout
      BY <2>14, <2>1, WaitDoneMoves, ShortReturns, Zenon
    <2>15. ASSUME NEW b \in BOOLEAN, SetWfeMode(b) \/ StopSecondaries(b)
           PROVE  StartInv'
      BY <2>15, <2>1, SetWfeModeMoves, StopSecondariesMoves, Zenon DEF Enter
    <2>16. CASE ModeStore
      BY <2>16, ModeStoreMoves, Zenon DEF Go
    <2>17. CASE ModeSev
      <3>1. boot.then # "idle" => boot.i = 1
        BY <2>17, ModeSevMoves, Zenon DEF BootOK, Moding
      <3> QED
        BY <2>17, <3>1, <2>1, ModeSevMoves DEF Go
    <2>18. CASE StopCheck
      BY <2>18, <2>2, StopCheckMoves, Zenon DEF Go
    <2>19. CASE StopPost
      BY <2>19, StopPostMoves, Zenon
    <2>20. CASE StopBusy \/ StopUnacked \/ StopDone \/ StopFailed
      BY <2>20, <2>2, LoopMoves, Zenon
    <2> QED
      BY <1>2, <2>4, <2>5, <2>6, <2>7, <2>8, <2>9, <2>10, <2>11, <2>12, <2>13, <2>14, <2>15, <2>16,
         <2>17, <2>18, <2>19, <2>20, Zenon DEF Boot
  <1> QED
    BY <1>1, <1>2, Zenon DEF Next

\* smp_start_secondaries returns success on T8140 and T8152 only with every CPU alive, whatever
\* the system, the number of CPUs and the calls before it
THEOREM StartReportsTheorem == Spec => []StartReportsAll
  <1>1. Init => StartInv
    BY TypeInit DEF Init, StartInv, Starting, StartReportsAll, NoLocals, Return
  <1>2. TypeInv /\ StartInv /\ [Next]_vars => TypeInv' /\ StartInv'
    <2>1. TypeInv /\ StartInv /\ UNCHANGED vars => TypeInv' /\ StartInv'
      BY TypeStutter, Zenon DEF StartInv, StartReportsAll, StartReports, Chip, vars, table
    <2> QED
      BY <2>1, TypeStep, StartStep, Zenon
  <1>3. StartInv => StartReportsAll
    BY Zenon DEF StartInv
  <1> QED
    BY <1>1, <1>2, <1>3, TypeInit, PTL DEF Spec
=============================================================================
