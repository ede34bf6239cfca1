---------------------------- MODULE HvWdtProof ----------------------------
(***************************************************************************)
(* Proof that the watchdog barks when it should and only then, and that    *)
(* one loop runs at most, for any timeout and any number of starts.        *)
(***************************************************************************)
EXTENDS HvWdt, TLAPS

Rounds == {"check", "first", "second", "compare"}

WdtStates == [active : BOOLEAN, enabled : BOOLEAN, pending : BOOLEAN, stamp : Nat]
LoopStates == [pc : Rounds \cup {"none", "posted", "done", "barked"}, stamp : Nat, now : Nat, quiet : Nat, lag : Nat]
BossStates == [pc : {"idle", "proxy", "petted", "calling", "joining"}, quiet : Nat, watched : Nat, starts : Nat]

Types ==
    /\ wdt \in WdtStates
    /\ loop \in LoopStates
    /\ loop.lag <= MaxLag
    /\ boss \in BossStates
    /\ now \in 0..MaxTime

\* While the watchdog is enabled, its time stamp is as old as the guest's silence
Stamped ==
    /\ wdt.stamp <= now
    /\ wdt.enabled \/ boss.pc = "petted" => boss.quiet = now - wdt.stamp
    /\ wdt.enabled => boss.watched <= boss.quiet
    /\ boss.pc \in {"proxy", "petted"} => ~wdt.enabled
    /\ boss.pc = "petted" \/ loop.pc = "posted" => boss.watched = 0

\* What the loop has read is no older than the silence it saw when the round began, and the time it took since
ReadsFresh ==
    /\ loop.pc = "first" => now - wdt.stamp <= loop.quiet + loop.lag
    /\ loop.pc = "second" => loop.stamp <= now /\ now - loop.stamp <= loop.quiet + loop.lag
    /\ loop.pc = "compare" =>
          loop.stamp <= loop.now /\ loop.now <= now /\ loop.now - loop.stamp <= loop.quiet + loop.lag
    /\ loop.pc = "barked" => loop.quiet + MaxLag > Timeout

\* A silence that is watched is either short or will be noticed in this round
Noticed ==
    wdt.enabled =>
        /\ loop.pc = "check" => boss.watched <= Timeout + loop.lag
        /\ loop.pc \in {"first", "second", "compare"} => boss.watched <= Timeout + MaxLag + loop.lag
        /\ loop.pc = "second" => boss.watched <= now - loop.stamp
        /\ loop.pc = "compare" => boss.watched <= (loop.now - loop.stamp) + loop.lag

DogInv == Types /\ Stamped /\ ReadsFresh /\ Noticed /\ OneLoop

Bounds == Timeout \in Nat /\ MaxLag \in Nat /\ MaxTime \in Nat /\ MaxStarts \in Nat /\ MaxTime < Wrap

\* A difference of two times is smaller than the counter is wide
LEMMA NoWrap ==
    ASSUME NEW d \in Nat, d < Wrap
    PROVE  d % Wrap = d
  BY DEF Wrap

\* Every step keeps the invariant
LEMMA DogStep ==
    ASSUME Bounds, DogInv, [Next]_wdtVars
    PROVE  DogInv'
  <1>0. Types /\ Stamped /\ ReadsFresh /\ Noticed /\ OneLoop /\ now \in Nat
    BY DEF DogInv, Types, Bounds
  <1> USE <1>0 DEF Types, WdtStates, LoopStates, BossStates, Rounds, Bounds
  <1>1. CASE UNCHANGED wdtVars
    BY <1>1 DEF wdtVars, DogInv, Stamped, ReadsFresh, Noticed, OneLoop
  <1>2. CASE Take
    <2>1. Types'
      <3>1. wdt' \in WdtStates
        BY <1>2 DEF Take
      <3>2. loop' \in LoopStates
        BY <1>2, Zenon DEF Take
      <3>3. boss' \in BossStates
        BY <1>2 DEF Take
      <3>4. now' \in 0..MaxTime /\ loop'.lag <= MaxLag
        BY <1>2 DEF Take
      <3> QED
        BY <3>1, <3>2, <3>3, <3>4
    <2>2. Stamped'
      BY <1>2 DEF Take, Stamped
    <2>3. ReadsFresh'
      BY <1>2 DEF Take, Stamped, ReadsFresh
    <2>4. Noticed'
      BY <1>2 DEF Take, Stamped, Noticed
    <2>5. OneLoop'
      BY <1>2 DEF Take, OneLoop
    <2> QED
      BY <2>1, <2>2, <2>3, <2>4, <2>5 DEF DogInv
  <1>3. CASE Check
    <2>1. Types'
      <3>1. wdt' \in WdtStates
        BY <1>3 DEF Check
      <3>2. loop' \in LoopStates
        BY <1>3, Zenon DEF Check
      <3>3. boss' \in BossStates
        BY <1>3 DEF Check
      <3>4. now' \in 0..MaxTime /\ loop'.lag <= MaxLag
        BY <1>3 DEF Check
      <3> QED
        BY <3>1, <3>2, <3>3, <3>4
    <2>2. Stamped'
      BY <1>3 DEF Check, Stamped
    <2>3. ReadsFresh'
      BY <1>3 DEF Check, Stamped, ReadsFresh
    <2>4. Noticed'
      BY <1>3 DEF Check, Stamped, Noticed
    <2>5. OneLoop'
      BY <1>3 DEF Check, OneLoop
    <2> QED
      BY <2>1, <2>2, <2>3, <2>4, <2>5 DEF DogInv
  <1>4. CASE ReadStamp("first", "second") /\ UNCHANGED <<wdt, boss, now>>
    <2>1. Types'
      <3>1. wdt' \in WdtStates
        BY <1>4 DEF ReadStamp
      <3>2. loop' \in LoopStates
        BY <1>4, Zenon DEF ReadStamp
      <3>3. boss' \in BossStates
        BY <1>4 DEF ReadStamp
      <3>4. now' \in 0..MaxTime /\ loop'.lag <= MaxLag
        BY <1>4 DEF ReadStamp
      <3> QED
        BY <3>1, <3>2, <3>3, <3>4
    <2>2. Stamped'
      BY <1>4 DEF ReadStamp, Stamped
    <2>3. ReadsFresh'
      BY <1>4 DEF ReadStamp, Stamped, ReadsFresh
    <2>4. Noticed'
      BY <1>4 DEF ReadStamp, Stamped, Noticed
    <2>5. OneLoop'
      BY <1>4 DEF ReadStamp, OneLoop
    <2> QED
      BY <2>1, <2>2, <2>3, <2>4, <2>5 DEF DogInv
  <1>5. CASE ReadNow("second", "compare") /\ UNCHANGED <<wdt, boss, now>>
    <2>1. Types'
      <3>1. wdt' \in WdtStates
        BY <1>5 DEF ReadNow
      <3>2. loop' \in LoopStates
        BY <1>5, Zenon DEF ReadNow
      <3>3. boss' \in BossStates
        BY <1>5 DEF ReadNow
      <3>4. now' \in 0..MaxTime /\ loop'.lag <= MaxLag
        BY <1>5 DEF ReadNow
      <3> QED
        BY <3>1, <3>2, <3>3, <3>4
    <2>2. Stamped'
      BY <1>5 DEF ReadNow, Stamped
    <2>3. ReadsFresh'
      BY <1>5 DEF ReadNow, Stamped, ReadsFresh
    <2>4. Noticed'
      BY <1>5 DEF ReadNow, Stamped, Noticed
    <2>5. OneLoop'
      BY <1>5 DEF ReadNow, OneLoop
    <2> QED
      BY <2>1, <2>2, <2>3, <2>4, <2>5 DEF DogInv
  <1>6. CASE hv_wdt_pet
    <2>1. Types'
      <3>1. wdt' \in WdtStates
        BY <1>6 DEF hv_wdt_pet, Pet, Heard
      <3>2. loop' \in LoopStates
        BY <1>6 DEF hv_wdt_pet, Pet, Heard
      <3>3. boss' \in BossStates
        BY <1>6, Zenon DEF hv_wdt_pet, Pet, Heard
      <3>4. now' \in 0..MaxTime /\ loop'.lag <= MaxLag
        BY <1>6 DEF hv_wdt_pet, Pet, Heard
      <3> QED
        BY <3>1, <3>2, <3>3, <3>4
    <2>2. Stamped'
      BY <1>6 DEF hv_wdt_pet, Pet, Heard, Stamped
    <2>3. ReadsFresh'
      BY <1>6 DEF hv_wdt_pet, Pet, Heard, Stamped, ReadsFresh
    <2>4. Noticed'
      BY <1>6 DEF hv_wdt_pet, Pet, Heard, Stamped, Noticed
    <2>5. OneLoop'
      BY <1>6 DEF hv_wdt_pet, Pet, Heard, OneLoop
    <2> QED
      BY <2>1, <2>2, <2>3, <2>4, <2>5 DEF DogInv
  <1>7. CASE hv_wdt_suspend
    <2>1. Types'
      <3>1. wdt' \in WdtStates
        BY <1>7, Zenon DEF hv_wdt_suspend
      <3>2. loop' \in LoopStates
        BY <1>7 DEF hv_wdt_suspend
      <3>3. boss' \in BossStates
        BY <1>7 DEF hv_wdt_suspend
      <3>4. now' \in 0..MaxTime /\ loop'.lag <= MaxLag
        BY <1>7 DEF hv_wdt_suspend
      <3> QED
        BY <3>1, <3>2, <3>3, <3>4
    <2>2. Stamped'
      BY <1>7 DEF hv_wdt_suspend, Stamped
    <2>3. ReadsFresh'
      BY <1>7 DEF hv_wdt_suspend, Stamped, ReadsFresh
    <2>4. Noticed'
      BY <1>7 DEF hv_wdt_suspend, Stamped, Noticed
    <2>5. OneLoop'
      BY <1>7 DEF hv_wdt_suspend, OneLoop
    <2> QED
      BY <2>1, <2>2, <2>3, <2>4, <2>5 DEF DogInv
  <1>8. CASE boss.pc = "proxy" /\ wdt' = Pet(wdt) /\ Heard("petted") /\ UNCHANGED <<loop, now>>
    <2>1. Types'
      <3>1. wdt' \in WdtStates
        BY <1>8 DEF Pet, Heard
      <3>2. loop' \in LoopStates
        BY <1>8 DEF Pet, Heard
      <3>3. boss' \in BossStates
        BY <1>8, Zenon DEF Pet, Heard
      <3>4. now' \in 0..MaxTime /\ loop'.lag <= MaxLag
        BY <1>8 DEF Pet, Heard
      <3> QED
        BY <3>1, <3>2, <3>3, <3>4
    <2>2. Stamped'
      BY <1>8 DEF Pet, Heard, Stamped
    <2>3. ReadsFresh'
      BY <1>8 DEF Pet, Heard, Stamped, ReadsFresh
    <2>4. Noticed'
      BY <1>8 DEF Pet, Heard, Stamped, Noticed
    <2>5. OneLoop'
      BY <1>8 DEF Pet, Heard, OneLoop
    <2> QED
      BY <2>1, <2>2, <2>3, <2>4, <2>5 DEF DogInv
  <1>9. CASE /\ boss.pc = "petted" /\ UNCHANGED <<loop, now>>
             /\ wdt' = [wdt EXCEPT !.enabled = TRUE] /\ boss' = [boss EXCEPT !.pc = "idle"]
    <2>1. Types'
      <3>1. wdt' \in WdtStates
        BY <1>9, Zenon
      <3>2. loop' \in LoopStates
        BY <1>9
      <3>3. boss' \in BossStates
        BY <1>9
      <3>4. now' \in 0..MaxTime /\ loop'.lag <= MaxLag
        BY <1>9
      <3> QED
        BY <3>1, <3>2, <3>3, <3>4
    <2>2. Stamped'
      BY <1>9 DEF Stamped
    <2>3. ReadsFresh'
      BY <1>9 DEF Stamped, ReadsFresh
    <2>4. Noticed'
      BY <1>9 DEF Stamped, ReadsFresh, Noticed
    <2>5. OneLoop'
      BY <1>9 DEF OneLoop
    <2> QED
      BY <2>1, <2>2, <2>3, <2>4, <2>5 DEF DogInv
  <1>10. CASE hv_wdt_start
    <2> DEFINE w == [active |-> TRUE, enabled |-> TRUE, pending |-> wdt.pending, stamp |-> now]
               b == [pc |-> "calling", quiet |-> 0, watched |-> 0, starts |-> boss.starts + 1]
    <2>0. /\ wdt' = w /\ boss' = b /\ now' = now /\ boss.pc = "idle" /\ ~wdt.pending
          /\ loop' \in {[loop EXCEPT !.pc = "posted"], loop} /\ loop.pc = "none"
      BY <1>10, Zenon DEF hv_wdt_start, Pet, OneLoop
    <2>1. Types'
      <3>1. wdt' \in WdtStates
        BY <2>0
      <3>2. loop' \in LoopStates
        BY <2>0
      <3>3. boss' \in BossStates
        BY <2>0
      <3>4. now' \in 0..MaxTime /\ loop'.lag <= MaxLag
        BY <2>0
      <3> QED
        BY <3>1, <3>2, <3>3, <3>4
    <2>2. Stamped'
      BY <2>0 DEF Stamped
    <2>3. ReadsFresh'
      BY <2>0 DEF Stamped, ReadsFresh
    <2>4. Noticed'
      BY <2>0 DEF Stamped, Noticed
    <2>5. OneLoop'
      BY <2>0 DEF OneLoop
    <2> QED
      BY <2>1, <2>2, <2>3, <2>4, <2>5 DEF DogInv
  <1>11. CASE StartReturns
    <2>1. Types'
      <3>1. wdt' \in WdtStates
        BY <1>11, Zenon DEF StartReturns, Alive
      <3>2. loop' \in LoopStates
        BY <1>11 DEF StartReturns, Alive
      <3>3. boss' \in BossStates
        BY <1>11 DEF StartReturns, Alive
      <3>4. now' \in 0..MaxTime /\ loop'.lag <= MaxLag
        BY <1>11 DEF StartReturns, Alive
      <3> QED
        BY <3>1, <3>2, <3>3, <3>4
    <2>2. Stamped'
      BY <1>11, Zenon DEF StartReturns, Alive, Stamped
    <2>3. ReadsFresh'
      BY <1>11, Zenon DEF StartReturns, Alive, Stamped, ReadsFresh
    <2>4. Noticed'
      BY <1>11, Zenon DEF StartReturns, Alive, Stamped, Noticed
    <2>5. OneLoop'
      BY <1>11, Zenon DEF StartReturns, Alive, OneLoop
    <2> QED
      BY <2>1, <2>2, <2>3, <2>4, <2>5 DEF DogInv
  <1>12. CASE hv_wdt_stop
    <2>1. Types'
      <3>1. wdt' \in WdtStates
        BY <1>12, Zenon DEF hv_wdt_stop
      <3>2. loop' \in LoopStates
        BY <1>12 DEF hv_wdt_stop
      <3>3. boss' \in BossStates
        BY <1>12 DEF hv_wdt_stop
      <3>4. now' \in 0..MaxTime /\ loop'.lag <= MaxLag
        BY <1>12 DEF hv_wdt_stop
      <3> QED
        BY <3>1, <3>2, <3>3, <3>4
    <2>2. Stamped'
      BY <1>12 DEF hv_wdt_stop, Stamped
    <2>3. ReadsFresh'
      BY <1>12 DEF hv_wdt_stop, Stamped, ReadsFresh
    <2>4. Noticed'
      BY <1>12 DEF hv_wdt_stop, Stamped, Noticed
    <2>5. OneLoop'
      BY <1>12 DEF hv_wdt_stop, OneLoop
    <2> QED
      BY <2>1, <2>2, <2>3, <2>4, <2>5 DEF DogInv
  <1>13. CASE Tick
    <2> DEFINE q == IF wdt.enabled \/ boss.pc = "petted" THEN boss.quiet + 1 ELSE 0
               w == IF wdt.enabled /\ Alive THEN boss.watched + 1 ELSE 0
               l == IF Alive THEN loop.lag + 1 ELSE 0
    <2>0. /\ q \in Nat /\ w \in Nat /\ l \in Nat /\ l <= MaxLag
          /\ boss' = [boss EXCEPT !.quiet = q, !.watched = w] /\ loop' = [loop EXCEPT !.lag = l]
          /\ now' = now + 1 /\ now < MaxTime /\ wdt' = wdt
      BY <1>13 DEF Tick, Alive
    <2>1. Types'
      <3>1. wdt' \in WdtStates
        BY <2>0 DEF Alive
      <3>2. loop' \in LoopStates
        BY <2>0 DEF Alive
      <3>3. boss' \in BossStates
        BY <2>0, Zenon DEF Alive
      <3>4. now' \in 0..MaxTime /\ loop'.lag <= MaxLag
        BY <2>0 DEF Alive
      <3> QED
        BY <3>1, <3>2, <3>3, <3>4
    <2>2. Stamped'
      BY <2>0 DEF Alive, Stamped
    <2>3. ReadsFresh'
      BY <2>0 DEF Alive, Stamped, ReadsFresh
    <2>4. Noticed'
      BY <2>0 DEF Alive, Stamped, Noticed
    <2>5. OneLoop'
      BY <2>0 DEF Alive, OneLoop
    <2> QED
      BY <2>1, <2>2, <2>3, <2>4, <2>5 DEF DogInv
  <1>14. CASE Compare
    <2>1. loop.pc = "compare" /\ UNCHANGED <<wdt, boss, now>>
      BY <1>14 DEF Compare
    <2>2. loop.now - loop.stamp \in Nat /\ loop.now - loop.stamp < Wrap
      <3>1. loop.stamp <= loop.now /\ loop.now <= now /\ now <= MaxTime /\ MaxTime < Wrap
        BY <2>1 DEF ReadsFresh
      <3> QED
        BY <3>1 DEF Wrap
    <2>3. \/ loop.now - loop.stamp > Timeout /\ loop' = [loop EXCEPT !.pc = "barked"]
          \/ loop.now - loop.stamp <= Timeout /\ loop' = [loop EXCEPT !.pc = "check"]
      BY <1>14, <2>2, NoWrap DEF Compare
    <2>4. Types' /\ Stamped'
      BY <2>1, <2>3 DEF Stamped
    <2>5. ReadsFresh'
      BY <2>1, <2>3 DEF ReadsFresh
    <2>6. Noticed'
      BY <2>1, <2>3 DEF Noticed
    <2>7. OneLoop'
      BY <2>1, <2>3 DEF OneLoop
    <2> QED
      BY <2>4, <2>5, <2>6, <2>7 DEF DogInv
  <1> QED
    BY <1>1, <1>2, <1>3, <1>4, <1>5, <1>6, <1>7, <1>8, <1>9, <1>10, <1>11, <1>12, <1>13, <1>14
       DEF Next, Reads, hv_wdt_resume

\* The watchdog barks only if the guest had not been heard of for as long as the timeout less one round of the loop,
\* a watched guest that stays quiet is barked at within two rounds of the timeout, and one loop runs at most, whatever
\* hv_wdt_start and hv_wdt_stop return (hv_wdt.c): for any timeout, and for runs shorter than the counter's period
THEOREM WatchdogTheorem ==
    ASSUME Bounds
    PROVE  Spec => []WatchdogSound
  <1>1. Init => DogInv
    BY DEF Bounds, Init, DogInv, Types, WdtStates, LoopStates, BossStates, Rounds, Stamped, ReadsFresh, Noticed, OneLoop
  <1>2. DogInv /\ [Next]_wdtVars => DogInv'
    BY DogStep
  <1>3. DogInv => WatchdogSound
    BY DEF Bounds, DogInv, Types, WdtStates, LoopStates, BossStates, Rounds, ReadsFresh, Noticed, WatchdogSound, BarkJustified, Alive
  <1> QED
    BY <1>1, <1>2, <1>3, PTL DEF Spec

=============================================================================
