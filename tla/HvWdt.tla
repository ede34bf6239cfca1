-------------------------------- MODULE HvWdt --------------------------------
(***************************************************************************)
(* The hypervisor's watchdog, src/hv/hv_wdt.c: a loop on a CPU of its own  *)
(* that enters the proxy when the guest has not been seen for too long.    *)
(* The other side is whichever CPU holds the hypervisor's lock: it pets    *)
(* the watchdog, suspends it around the proxy, and starts and stops it.    *)
(* The two run concurrently and every access to the shared variables is a  *)
(* step of its own.  smp_call4 and smp_wait are those of Smp.              *)
(***************************************************************************)
EXTENDS Integers

CONSTANTS
    Timeout,        \* hv_wdt_timeout, in ticks
    MaxLag,         \* ticks that one round of the loop may take
    MaxTime,        \* bound: time
    MaxStarts       \* bound: calls of hv_wdt_start

VARIABLES
    wdt,            \* hv_wdt_active, _enabled, _join_pending, _timestamp
    loop,           \* the watchdog's CPU: where it is, what it has read, ticks since it last began a round
    boss,           \* the other side: where it is, ticks since it was last heard of, those of them watched, starts
    now             \* CNTPCT_EL0
wdtVars == <<wdt, loop, boss, now>>

Wrap == 1024        \* width of the counter, larger than MaxTime

Init ==
    /\ wdt = [active |-> FALSE, enabled |-> FALSE, pending |-> FALSE, stamp |-> 0]
    /\ loop = [pc |-> "none", stamp |-> 0, now |-> 0, quiet |-> 0, lag |-> 0]
    /\ boss = [pc |-> "idle", quiet |-> 0, watched |-> 0, starts |-> 0]
    /\ now = 0

Pet(v) == [v EXCEPT !.stamp = now]
Alive == loop.pc \notin {"none", "posted", "done", "barked"}

-----------------------------------------------------------------------------
(* hv_wdt_main                                                             *)

Take == loop.pc = "posted" /\ loop' = [loop EXCEPT !.pc = "check", !.lag = 0] /\ UNCHANGED <<wdt, boss, now>>

\* The quiet time seen here is what a bark of this round is about
Check ==
    /\ loop.pc = "check"
    /\ loop' = [loop EXCEPT !.pc = IF ~wdt.active THEN "done" ELSE IF wdt.enabled THEN "first" ELSE "check",
                            !.quiet = boss.quiet, !.lag = 0]
    /\ UNCHANGED <<wdt, boss, now>>

ReadStamp(pc, next) == loop.pc = pc /\ loop' = [loop EXCEPT !.pc = next, !.stamp = wdt.stamp]
ReadNow(pc, next) == loop.pc = pc /\ loop' = [loop EXCEPT !.pc = next, !.now = now]

\* mutant: the time is read before the time stamp
ReadsSwapped == (ReadNow("first", "second") \/ ReadStamp("second", "compare")) /\ UNCHANGED <<wdt, boss, now>>

Reads == (ReadStamp("first", "second") \/ ReadNow("second", "compare")) /\ UNCHANGED <<wdt, boss, now>>

\* hv_wdt_bark does not return: it enters the proxy and then reboots
Compare ==
    /\ loop.pc = "compare"
    /\ loop' = [loop EXCEPT !.pc = IF (loop.now - loop.stamp) % Wrap > Timeout THEN "barked" ELSE "check"]
    /\ UNCHANGED <<wdt, boss, now>>

-----------------------------------------------------------------------------
(* The other side                                                          *)

Heard(pc) == boss' = [boss EXCEPT !.pc = pc, !.quiet = 0, !.watched = 0]

hv_wdt_pet == boss.pc = "idle" /\ wdt' = Pet(wdt) /\ Heard("idle") /\ UNCHANGED <<loop, now>>

hv_wdt_suspend ==
    /\ boss.pc = "idle" /\ wdt' = [wdt EXCEPT !.enabled = FALSE]
    /\ boss' = [boss EXCEPT !.pc = "proxy"] /\ UNCHANGED <<loop, now>>

\* The time stamp first, and the watchdog enabled after it
hv_wdt_resume ==
    \/ boss.pc = "proxy" /\ wdt' = Pet(wdt) /\ Heard("petted") /\ UNCHANGED <<loop, now>>
    \/ boss.pc = "petted" /\ wdt' = [wdt EXCEPT !.enabled = TRUE] /\ boss' = [boss EXCEPT !.pc = "idle"] /\ UNCHANGED <<loop, now>>

\* The call is posted, refused, or times out and may be taken later
hv_wdt_start ==
    /\ boss.pc = "idle" /\ ~wdt.active /\ ~wdt.pending /\ boss.starts < MaxStarts
    /\ wdt' = [Pet(wdt) EXCEPT !.active = TRUE, !.enabled = TRUE]
    /\ boss' = [boss EXCEPT !.pc = "calling", !.quiet = 0, !.watched = 0, !.starts = @ + 1]
    /\ loop' \in {[loop EXCEPT !.pc = IF loop.pc = "none" THEN "posted" ELSE "twice"], loop}
    /\ UNCHANGED now

StartReturns ==
    /\ boss.pc = "calling"
    /\ \/ Alive /\ wdt' = [wdt EXCEPT !.pending = TRUE]
       \/ loop.pc # "none" /\ wdt' = [wdt EXCEPT !.pending = TRUE, !.active = FALSE, !.enabled = FALSE]
       \/ loop.pc = "none" /\ wdt' = [wdt EXCEPT !.active = FALSE, !.enabled = FALSE]
    /\ boss' = [boss EXCEPT !.pc = "idle"] /\ UNCHANGED <<loop, now>>

hv_wdt_stop ==
    \/ /\ boss.pc = "idle" /\ wdt.pending
       /\ wdt' = [wdt EXCEPT !.active = FALSE] /\ boss' = [boss EXCEPT !.pc = "joining"] /\ UNCHANGED <<loop, now>>
    \/ /\ boss.pc = "joining" /\ loop.pc = "done"
       /\ wdt' = [wdt EXCEPT !.pending = FALSE] /\ loop' = [loop EXCEPT !.pc = "none"]
       /\ boss' = [boss EXCEPT !.pc = "idle"] /\ UNCHANGED now
    \/ boss.pc = "joining" /\ boss' = [boss EXCEPT !.pc = "idle"] /\ UNCHANGED <<wdt, loop, now>>       \* smp_wait timed out

\* The loop is not interrupted, and never held up for longer than MaxLag; smp_call4 waits for one second, which
\* is also the timeout
Tick ==
    /\ now < MaxTime /\ (Alive => loop.lag < MaxLag) /\ (boss.pc = "calling" => boss.quiet < Timeout)
    /\ now' = now + 1
    /\ loop' = [loop EXCEPT !.lag = IF Alive THEN @ + 1 ELSE 0]
    /\ boss' = [boss EXCEPT !.quiet = IF wdt.enabled \/ boss.pc = "petted" THEN @ + 1 ELSE 0,
                            !.watched = IF wdt.enabled /\ Alive THEN @ + 1 ELSE 0]
    /\ UNCHANGED wdt

Next ==
    /\ loop.pc # "barked"
    /\ \/ Take \/ Check \/ Reads \/ Compare
       \/ hv_wdt_pet \/ hv_wdt_suspend \/ hv_wdt_resume \/ hv_wdt_start \/ StartReturns \/ hv_wdt_stop
       \/ Tick
Spec == Init /\ [][Next]_wdtVars

-----------------------------------------------------------------------------
(* Properties                                                              *)

\* The watchdog barks only if the guest had not been heard of, with the watchdog enabled, for as long as the
\* timeout less one round of the loop, however pets, suspensions and time fall between the loop's reads; and
\* a guest that is watched and stays quiet for longer than the timeout and two rounds is barked at (hv_wdt_main, hv_wdt_resume).
BarkJustified ==
    /\ loop.pc = "barked" => loop.quiet + MaxLag > Timeout
    /\ Alive /\ wdt.active /\ wdt.enabled => boss.watched <= Timeout + 2 * MaxLag

\* At most one loop runs, and none that nobody will wait for: whatever hv_wdt_start and hv_wdt_stop returned,
\* a loop that was posted is joined before the next is (hv_wdt_join_pending).
OneLoop == loop.pc # "twice" /\ (boss.pc # "calling" /\ ~wdt.pending => loop.pc = "none")

\* What the watchdog promises to the host (hv_wdt.c)
WatchdogSound == BarkJustified /\ OneLoop
=============================================================================
