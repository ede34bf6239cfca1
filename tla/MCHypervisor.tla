---------------------------- MODULE MCHypervisor ----------------------------
(***************************************************************************)
(* The hypervisor under model checking, part by part: the exceptions and   *)
(* rendezvous of Hv, the stage-2 tables of HvVm, the shadow tables of      *)
(* HvSprr, the watchdog of HvWdt and the virtio devices of HvVirtio.  A    *)
(* behaviour is one of one part; the variables of the others do not        *)
(* change.  mem belongs to HvVm and HvSprr.                                *)
(***************************************************************************)
EXTENDS Hv, FiniteSets, TLC

CONSTANTS c1, c2

VARIABLES
    part,
    l2, mem, allocated, pt, fault, last, maps, protects, aborts,
    wp, mir, shadow, lru, cpu, job, ops,
    wdt, loop, boss, now,
    vdev, drv, avail, used, kicks, free, held, due, owed

\* Two blocks of two pages of two words.  The accesses: across a page and not aligned; across words and not
\* aligned; in the pool of shadow tables
Hw(to) == [k |-> "hw", to |-> to, ro |-> FALSE]
VmLeaves == {Hw(16), Hw(18), [k |-> "map", to |-> 33, ro |-> FALSE], [k |-> "hook", to |-> 1, ro |-> FALSE]}
VmAccesses == {[addr |-> 5, bytes |-> 8, write |-> TRUE, wb |-> TRUE], [addr |-> 9, bytes |-> 4, write |-> FALSE, wb |-> FALSE],
               [addr |-> 28, bytes |-> 4, write |-> TRUE, wb |-> TRUE]}
Vm == INSTANCE HvVm WITH
        W <- 2, P <- 2, B <- 2, Leaves <- VmLeaves, ram_base <- 0, base <- 2, Pool <- {3}, Accesses <- VmAccesses,
        MaxMaps <- 2, MaxProtects <- 1, MaxAborts <- 1

\* Two tables, the first of which refers to the second and to itself; two settings of the permissions that
\* differ in what either world may do
Descriptor(v, table, to, idx) == [v |-> v, table |-> table, to |-> to, idx |-> idx]
SprrInvalid == Descriptor(FALSE, FALSE, 0, 0)
SprrDescriptors == {SprrInvalid, Descriptor(TRUE, TRUE, 1, 0), Descriptor(TRUE, TRUE, 2, 0), Descriptor(TRUE, FALSE, 2, 1)}
SprrMemories ==
    {<<0 :> Descriptor(TRUE, TRUE, 2, 0) @@ 1 :> Descriptor(TRUE, TRUE, 1, 0), 0 :> SprrInvalid @@ 1 :> Descriptor(TRUE, FALSE, 2, 1)>>}
SprrPerms == <<[el1 |-> (0 :> 13 @@ 1 :> 7), el0 |-> (0 :> 0 @@ 1 :> 0)], [el1 |-> (0 :> 10 @@ 1 :> 7), el0 |-> (0 :> 2 @@ 1 :> 1)]>>
Sprr == INSTANCE HvSprr WITH
        Cpus <- {c1, c2}, Pages <- {1, 2}, Slots <- <<1, 2>>, Tables <- 1..6, Descriptors <- SprrDescriptors,
        Memories <- SprrMemories, Perms <- SprrPerms, MaxOps <- 4

\* The timeout is two ticks, of which a round of the loop takes at most one
Dog == INSTANCE HvWdt WITH Timeout <- 2, MaxLag <- 1, MaxTime <- 6, MaxStarts <- 2

\* A queue of two buffers and one of one, whose indices wrap around at four and at two
Vio == INSTANCE HvVirtio WITH Cpus <- {c1, c2}, Queues <- {1, 2}, Sizes <- <<{2}, {1}>>, IdxMod <- <<4, 2>>, UsedReset <- FALSE,
        Interfere <- FALSE

Symmetry == Permutations({c1, c2})

Unused == 0
NoVm == /\ l2 = Unused /\ allocated = Unused /\ pt = Unused /\ fault = Unused /\ last = Unused /\ maps = Unused
        /\ protects = Unused /\ aborts = Unused
NoSprr == /\ wp = Unused /\ mir = Unused /\ shadow = Unused /\ lru = Unused /\ cpu = Unused /\ job = Unused /\ ops = Unused
NoDog == wdt = Unused /\ loop = Unused /\ boss = Unused /\ now = Unused
NoVio == /\ vdev = Unused /\ drv = Unused /\ avail = Unused /\ used = Unused /\ kicks = Unused /\ free = Unused
         /\ held = Unused /\ due = Unused /\ owed = Unused
NoMem == mem = Unused

MCInit ==
    \/ part = "hv" /\ Init /\ NoMem /\ NoVm /\ NoSprr /\ NoDog /\ NoVio
    \/ part = "vm" /\ Vm!Init /\ Init /\ NoSprr /\ NoDog /\ NoVio
    \/ part = "sprr" /\ Sprr!Init /\ Init /\ NoVm /\ NoDog /\ NoVio
    \/ part = "wdt" /\ Dog!Init /\ Init /\ NoMem /\ NoVm /\ NoSprr /\ NoVio
    \/ part = "virtio" /\ Vio!Init /\ Init /\ NoMem /\ NoVm /\ NoSprr /\ NoDog

vmOwn == <<l2, allocated, pt, fault, last, maps, protects, aborts>>
sprrOwn == <<wp, mir, shadow, lru, cpu, job, ops>>
wdtOwn == <<wdt, loop, boss, now>>
vioOwn == <<vdev, drv, avail, used, kicks, free, held, due, owed>>
all == <<part, vars, mem, vmOwn, sprrOwn, wdtOwn, vioOwn>>

HvStep == part = "hv" /\ Next /\ UNCHANGED <<part, mem, vmOwn, sprrOwn, wdtOwn, vioOwn>>
VmStep == part = "vm" /\ Vm!Next /\ UNCHANGED <<part, vars, sprrOwn, wdtOwn, vioOwn>>
SprrStep == part = "sprr" /\ Sprr!Next /\ UNCHANGED <<part, vars, vmOwn, wdtOwn, vioOwn>>
WdtStep == part = "wdt" /\ Dog!Next /\ UNCHANGED <<part, vars, mem, vmOwn, sprrOwn, vioOwn>>
VioStep == part = "virtio" /\ Vio!Next /\ UNCHANGED <<part, vars, mem, vmOwn, sprrOwn, wdtOwn>>
\* The calls of these parts are bounded, and nothing more happens then
Over == part \in {"vm", "sprr", "wdt"} /\ UNCHANGED all

MCNext == HvStep \/ VmStep \/ SprrStep \/ WdtStep \/ VioStep \/ Over
MCSpec == MCInit /\ [][MCNext]_all

-----------------------------------------------------------------------------
(* The properties of each part, for its behaviours                         *)

\* The stage-2 tables map what the calls of hv_map say, in their order, and no table leaks (hv_pt_map, hv_pt_free_l3);
\* an aborted access is emulated whole, or retried only when it can go on, or fails (hv_handle_dabort)
GuestMemorySound == part = "vm" => Vm!WalkAgrees /\ Vm!TablesAccounted /\ Vm!RetryProgress /\ Vm!AccessWhole

\* The shadow tables a CPU translates with mirror the guest's tables as its SPRR registers say, are the ones of
\* its world, and never refer to a table that is no mirror (hv_sprr.c)
ShadowSound == part = "sprr" => Sprr!ShadowCoherent /\ Sprr!RightShadow /\ Sprr!ChildrenFirst

\* The watchdog barks at a guest that has been quiet for the timeout and at no other, and one loop of it runs at
\* a time, which is waited for before another starts (hv_wdt.c)
WatchdogSound == part = "wdt" => Dog!WatchdogSound

\* The host is told of each buffer of the guest once and in order, and the guest sees each one that is given back,
\* though ring indices wrap around and buffers are added and given back at any moment (hv_virtio.c)
VirtioSound == part = "virtio" => Vio!BuffersOnce /\ Vio!KickedBuffers /\ Vio!InterruptNotLost
=============================================================================
