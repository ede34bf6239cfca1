# Verification of Aura (m1n1)

TLA+ models of the concurrent and stateful parts of this boot loader and
hypervisor, TLC configurations that check them on small instances, and TLAPS
proofs of the results that matter most for any number of CPUs, pages or
requests. File names below are relative to `src/`.

Check a run with `tlc -config Smp_start.cfg MCSmp`, a proof with
`tlapm SmpProof.tla`. `PROJECT.json` lists every run with its properties, the
source lines behind every definition, the hazards, the theorems, and for every
property a mutant: a plausible bug, as an operator marked "mutant" next to the
definition it replaces, with which TLC finds the property violated.

## The system

Aura runs on the boot CPU of an Apple SoC. It brings up hardware, then serves a
host over UART or USB (the proxy), loads the next stage from storage or from a
payload, or runs a guest under its hypervisor.

| Part | State | What makes it hard | Modules |
|---|---|---|---|
| SMP dispatch (`smp.c`, `start.S`) | spin table, published stacks, wake-up mode, masks of started and failed CPUs | secondaries run on their own; start and call time out while the other side goes on; a CPU may come through the reset vector again | `Smp` |
| Hypervisor CPUs (`hv/hv.c`, `hv/hv_exc.c`) | big lock, masks of CPUs in the guest, started and told to exit, pinned and wanted CPU, time offset, queued IPIs | every CPU takes exceptions at any time; the lock is given up in the middle of handlers; masks are read without the lock | `Hv` |
| Stage-2 map and MMIO (`hv/hv_vm.c`) | page tables of four levels, the last read only by software | mappings split, join and cover each other; an access aborts while another CPU maps its page | `HvFlat`, `HvVm` |
| SPRR emulation (`hv/hv_sprr.c`) | mirrors of the guest's tables, cache of shadows | the guest stores to a table while it is being mirrored; a shadow gives way while another CPU uses one | `HvSprr` |
| Guest watchdog (`hv/hv_wdt.c`) | time stamp, on/off, loop on its own CPU | the call that starts the loop may be taken late; two reads that are not atomic | `HvWdt` |
| Virtio (`hv/hv_virtio.c`) | queues, interrupt state | 16-bit indices wrap; the driver runs on other CPUs | `HvVirtio` |
| NVMe (`nvme.c`) | queues with phase bits, failed flags, controller and coprocessor state, bounce buffer | completions after the time-out, wrong tags, a controller that dies, an inherited controller, tear-down in the right order | `Nvme` |
| RTKit and ASC (`rtkit.c`, `asc.c`) | mailboxes, power states, buffers | the coprocessor falls silent, crashes, or has messages of an earlier session pending; mailboxes fill up; maps fail | `Rtkit` |
| IOVA allocator (`iova.c`) | free list | merging, splitting, full domain | `IovaPages`, `Iova` |
| DART, SART (`dart.c`, `sart.c`) | tables in memory, entries in registers | roll-back of a partial map, stale cached translations, entries of the firmware | `Dart`, `Sart` |
| AFK endpoints (`afk.c`) | two shared rings, outstanding commands | rings that wrap and fill, late answers, callbacks while a command is waited for | `Afk` |
| Display (`display.c`, `dcp*.c`, `dcp/`) | session resources, mode, frame buffer; saved registers of the PHY | any step may fail, also while an earlier failure is being undone | `Display`, `AtcPhy` |
| Console (`iodev.c`, spin locks of `utils.c`) | ring, a read position per device, recursive locks | devices take output in parts, fall behind, come and go; drivers print themselves | `Console` |
| Proxy (`uartproxy.c`) | framing, selected device, checksum mode | lost and damaged bytes, several devices, events of another CPU | `UartProxy` |
| USB (`usb*.c`, `tps6598x.c`, `usb_dwc3_impl.inc`) | ports, scheduled transition, TRBs, event ring | the debug carrier cannot be taken back; events out of order, short packets, resets | `UsbLink`, `Dwc3` |
| Way to the next stage (`main.c`, `payload.c`, `boot_storage.c`, `chainload.c`, `stage1_config.c`) | chosen stage, placement of images, use of NVMe | fallbacks after half a hand-off, tight memory | `Boot` |
| Kernel hand-off (`kboot.c`) | the kernel's device tree | any node, value or word of room may be missing; the display changes state after the tree was written | `KbootTree`, `KbootDevices`, `KbootDisplay`, `Kboot` |
| Power domains (`pmgr.c`) | a tree of domains, saved modes | one of several does not follow, or follows late | `Pmgr` |
| PCIe (`pcie.c`) | state of up to three controllers | gives up at many places; two names of one controller | `Pcie` |
| Own page tables (`memory.c`) | live tables of the boot loader | a block is split while other CPUs walk it | `Mmu` |

NVMe, the display and the SMC use RTKit; RTKit uses the ASC mailboxes and maps
memory through SART or through DART with the IOVA allocator; the hypervisor uses
the dispatcher (`smp_call4`) to send CPUs into the guest and to start the
watchdog's loop; `main.c` calls into USB, NVMe, PCIe and `kboot.c` on its way;
everything prints. Where one model needs another part, it contains that part's
promise (its results, successful or not), which the other model opens up:
`rtkit_boot` in `Nvme`, `nvme_init` and `kboot_prepare_dt` in `Boot`,
`smp_call4` in `HvWdt`. `Hv` contains its dispatcher in this way, too.

## Modules

The modules named in the table above hold the models. `Outcomes` is the small
language of sequential code that may fail at any of many places: a step has a set
of outcomes, and operators compose them as `&&`, `goto fail` and "carry on
regardless" do. The proofs are in `SmpProof`, `SmpCalls`, `HvProof`,
`HvWdtProof`, `RtkitProof`, `NvmeProof`, `ConsoleProof` and `IovaProof`.

`MCSmp`, `MCHv`, `MCRtkit`, `MCIova` and `MCPcie` instantiate one model each. The
other three check several models in one run. Their variable `part` is chosen in
the initial state and says whose behaviour this is; the variables of all other
parts keep one value. `MCHypervisor` takes `Hv`, `HvVm`, `HvSprr`, `HvWdt` and
`HvVirtio`; `MCDevices` takes `Iova`, `Dart`, `Afk`, `AtcPhy`, `Display`,
`Console`, `Sart` and `UartProxy`; `MCBootPath` takes `Nvme`, `Boot`, `UsbLink`,
`Pcie`, `Kboot`, `Dwc3`, `Pmgr` and `Mmu`. Such a run is the union of its parts'
state spaces and says nothing of their interaction.

### CPUs

**Smp.** The boot CPU is a record `boot` with a place and the locals of the
`smp_*` function it is in; every secondary has `pc`, `index`, `sp`, `fn`, `arg`.
Each access to memory that the other side writes is a step; the barriers of the
code make these accesses sequentially consistent. `target`, `flag`, `args` and
`retval` are the fields of `spin_table`; `rsMpidr` is `smp_reset_stacks`. A
function handed over is a model of "some function" or `cpu_sleep`; arguments and
results are the number of the call. The system (`soc`) is chosen in `Init`: the
start path, retention, kind of IPI, unsafe WFI, refused reset vectors, and
whether a released CPU may enter after the boot CPU gave up on it. The RVBAR
relay (`smp.c` 140-188) is abstracted to the set of CPUs it refuses.

**Hv.** Each CPU has a `pc` that runs from `guest` through entry, lock, handler,
proxy and exit; `bhl` names the holder of the lock. The proxy is the host: while a
CPU is at `proxy` the host may switch, pin, start a CPU, tell one to exit, steal
time, or leave. `stolen_time` is a version number, so that two equal offsets are
the same offset. No guard reads it; its values are bounded (`MaxStolen`), tightly
except in `hv_time_race`, the run about them. The bounded poll of `hv_rendezvous` is taken to be long enough
for any CPU that can leave the guest; `RendezvousAnswered` names the states in
which it is not. `Init` is before the first session, or in a session with all
CPUs in the guest (`AllStarted`). All runs use the second, which keeps them
small; the proofs cover both.

### Hypervisor services

**HvVm and HvFlat.** `HvFlat` is the promise: what each word of the guest's memory
is mapped to after a sequence of `hv_map`. `HvVm` has the tables of `hv_vm.c`,
with the level that only software reads, `hv_pt_set_writable`, and the data abort
handler with its pieces of an access. `mem` follows `HvFlat` and `WalkAgrees`
compares every word.

**HvSprr.** Guest tables are mirrored entry by entry, with a store of the guest
possible between any two entries until the page is write-protected; the watch on pages,
the cache of shadows, `genter` and `gexit` are as in the code. Two levels of tables and
one of the two TTBRs.

**HvWdt.** The loop and the CPU that pets, suspends, resumes, starts and stops the
watchdog are two processes, each access to shared variables is a step. Time is a
number; the loop is not held up for longer than `MaxLag`. A bark ends the model.

**HvVirtio.** The emulated registers and rings against a driver with two CPUs and
an interrupt handler. Indices are taken modulo `IdxMod` (2^16 in the code).
`hv_exc_proxy` gives the lock away between the read of the ring and `avail_seen++`,
before it enters the proxy and when the host has switched to another CPU; the
driver's accesses go on there.

### Memory and devices

**Nvme.** One call of the driver at a time, its steps in the order of the code,
with the controller as a second process: it boots, gets ready, executes a command
late or never, with an error status, with a wrong tag, and may die. Queue memory
is a generation number, blocks are their address, buffers hold what was read into
them. Both generations (T8103 with SART, T8132 with the linear submission queue)
and the adoption of a controller that is already running are covered. A reset of
ANS may fail, which the driver does not look at; from then on (`unreset`) nothing
is promised of the controller.

**Rtkit.** A session is the sequence `rtkit_init`, `rtkit_boot` or
`rtkit_boot_timed`, calls of `rtkit_recv` by the driver, `rtkit_quiesce` or
`rtkit_sleep`, `rtkit_free`. The place `check` is the head of a wait for a power
state, `recv` the loop of `rtkit_recv`, `up` and `down` are between calls. A step
handles one message completely, its reply included. `late` says that the time
limit of the wait in progress has passed: the code tests it in
`rtkit_wait_for_power` after, in `rtkit_switch_power_state` before `rtkit_recv`,
and so do the actions. The coprocessor is external: it answers in the order of
the mailbox, may stop answering at any point, and sends a bounded number of
messages that nobody asked for. A driver may reset it before the next session or
leave it, with whatever is in the mailboxes. Memory is a set of numbers,
allocated and mapped; `memalign`, SART, DART and the translation of the
coprocessor's own buffers may fail.

**Iova and IovaPages.** `free_list` is the sequence of blocks; `live` is the set
of ranges its users hold. The users free what they were given. `IovaPages` knows
only a set of free addresses: an allocation takes any free range of whole pages
or fails, a free gives it back. `Implements` is the refinement. Failure of
`calloc` is left out.

**Dart.** One stream of one DART with two levels of tables of `W` entries. The
device walks the tables at any time and keeps what it has found until it is told
to forget. Tables come from the firmware's region or the heap, either of which may
run out. In two places the code calls `free` for what is no block of the heap: after
that the handle is `bad` and not used again.

**Sart.** The entries of each hardware version with the widths of their fields;
the firmware's own entries are protected.

**Afk.** A ring is a row of blocks that hold pieces of entries. AP and firmware are
two processes on them; a command may time out and be answered later, and the
firmware calls back. Both protocol versions.

**AtcPhy and Display.** Sequential code in which every register bank, power gate,
call to the firmware, allocation and mapping may fail, written with sets of
outcomes. `AtcPhy` is driven by the firmware's callbacks; `Display` goes from
set-up over mode changes to shutdown. What the PHY's driver fails to give back it
reports and forgets: `left` is what the hardware was when the driver last had
nothing of its own in it, and `MaxLost` bounds such failures. In `Display` a session
whose RTKit did not boot stays behind (`unbooted`), and using an IOVA domain that
could not be allocated ends the behaviour (`crashed`).

**Console.** A character is its place in the stream of everything printed. `out`
is what a device has output since it was last rewound, so that the properties
compare it with the stream itself. `off` is where the device was last found not
to be a console. Text that a driver prints while the console is using it goes
directly to the UARTs and changes none of this. A text longer than the ring is
included, which `iodev_console_write` handles, though `debug_printf` prints at
most 511 characters at a time. The devices in `Chatty` print while locked. The MMU
is on; a secondary whose own is still off writes past all of this to the UARTs.

**UartProxy.** Streams are sequences of tokens, some of which the line loses or
damages. A checksum is what it is taken over. The host may give up on a reply and
send again, over either device.

### Way to the next stage

**Boot.** From the point of `m1n1_main` where memory works to `next_stage`, with
the payload scan, storage, chain loading, and the host's requests that take part.
Addresses are pages, so that overlapping placements show.

**Kboot** and its three modules. The tree is what the edits leave: status of nodes,
properties, reservations, free words. `KbootDevices` has one definition for each
`dt_*` function with what it looks up, writes and lets pass; `KbootDisplay` has the
display of the T8140 with its snapshots; `Kboot` runs them in the order of
`kboot_prepare_dt` and goes on with `kboot_boot`. Values written are abstract. A
host may prepare the tree again, and call `kboot_boot` again after it was refused
(`again`), which then works on the tree the first call has left.

**UsbLink and Dwc3.** `UsbLink` has the ports, the scheduled change from the debug
carrier to the CDC link, its watchdog, and the re-announcement of a link
that was open and is lost. `torn` marks a PHY whose change of lanes was written
and then timed out. `Dwc3` has the controller's events and
transfer blocks: events are first copied and then handled one at a time, while
the controller goes on. Data are numbered tokens of a session of the host.

**Pcie.** `pcie_init` and `pcie_shutdown` in any order, with an outcome for each
place where the start of a controller may give up.

**Pmgr.** Calls run to their end and are one action each; a poll may time out at
any place, and the register may still follow later. `early` records that a request
for a path asked a domain on before what feeds it. The clean-up of `pmgr_init`, which
takes the parents in the order of the list, and requests by name do not count.

**Mmu.** Page tables of the boot loader. A change of a live descriptor is a
sequence of steps (break, invalidate, make) between which another CPU may walk.

## Runs

| Run | Bounds | Shows |
|---|---|---|
| `smp_start` | 2 secondaries of T8142, T8152 and T8140, 2 starts, 1 call; late entries on the first two only | own slot and stack (`OwnSlot`, `OwnStack`), a call in flight is left alone (`InFlightPreserved`), a CPU taken for dead is out of the loop (`DeadIsOut`), success of the start means all CPUs (`StartReportsAll`) |
| `smp_modes` | 1 secondary, with retention and without, 1 start, 2 calls, 2 changes of mode | no wake-up is lost (`CallTaken`, with fairness); calls run once with their own arguments and `smp_wait` returns the result of the last call (`CallsSound`) |
| `hv_session` | 2 CPUs, 2 sessions, 2 exceptions of which one may be a guest IPI, 2 host operations (leave, exit a CPU, start a CPU, time stealing) | a CPU in the guest is announced and none of one session is left for the next (`SessionSafe`), the join ends (`JoinEnds`) |
| `hv_switch` | 2 CPUs, 3 proxied exceptions, 2 host operations (switch, pin, add time), prompt polls | a CPU switched to reaches the proxy wherever it is, except in the inner loop of `hv_exc_proxy` (`SwitchServed`), and rendezvous end (`RendezvousEnds`) |
| `rtkit` | 8 devices, mailboxes of 2, 1 or 2 sessions, 1 unasked message | memory the coprocessor can reach is neither freed nor unmapped (`BuffersSafe`), both sides agree on version and shutdown (`StatesAgree`), a crash is not forgotten (`CrashIsFinal`), calls return (`CallsReturn`, `LiveIopBoots`) |
| `hypervisor` | see below | `LockedAlone`, `IpiNotLost` of `Hv`; `GuestMemorySound`, `ShadowSound`, `WatchdogSound`, `VirtioSound` |
| `devices` | see below | `NoOverlap` and `FreeListImplements` of `Iova`; `FiltersSound`, `RingsSound`, `PhySound`, `DisplaySound`, `ConsoleSound`, `ProxySound` |
| `boot_path` | see below | `QueuesSafe`, `ReadsCorrect`, `PreservedUntouched` of `Nvme`; `HandoffSound`, `TreeSound`, `UsbSound`, `PowerSound`, `OwnTablesSound`, `PcieSound` |
| `hv_time_race` | 2 CPUs | violated: `TimeConsistent` |
| `hv_rendezvous_exit` | 3 CPUs | violated: `RendezvousAnswered` |
| `iova_panic` | nothing reserved | violated: `NoPanic` |
| `pcie_shutdown` | 2 calls | violated: `ShutdownQuiesces` |

The properties of the three runs over several models:

| Property | Model and bounds | Consists of |
|---|---|---|
| `LockedAlone`, `IpiNotLost` | `Hv`: 2 CPUs, 2 exceptions of which one may be a guest IPI, 1 host operation (pin or time) | the lock, guest IPIs |
| `GuestMemorySound` | `HvVm`: 2 blocks of 2 pages of 2 words, 2 maps, 1 protection, 1 abort | every word keeps its latest mapping (`WalkAgrees`), no table leaks (`TablesAccounted`), an access run again gets on (`RetryProgress`), emulated accesses are whole (`AccessWhole`) |
| `ShadowSound` | `HvSprr`: 2 CPUs, their MMUs on or off, 2 tables, 2 cached shadows, 6 mirrors, 4 traps and stores | mirrors agree with the tables as they are now (`ShadowCoherent`), CPUs translate with theirs (`RightShadow`), an update frees no mirror it stands on (`ChildrenFirst`) |
| `WatchdogSound` | `HvWdt`: time-out 2, lag 1, time up to 6, 2 starts | barks when, and only when, the guest is quiet for too long (`BarkJustified`), one loop (`OneLoop`) |
| `VirtioSound` | `HvVirtio`: queues of 2 and of 1, indices modulo 4 and 2, 2 CPUs, no interference with a loop that has given the lock away (`Interfere`) | `BuffersOnce`, `KickedBuffers`, `InterruptNotLost` |
| `NoOverlap`, `FreeListImplements` | `Iova`: up to 6 pages of 2 units, requests of 1 to 3 pages | no address is handed out twice; the refinement of `IovaPages` |
| `FiltersSound` | `Dart`: tables of 2 entries, 3 in the region, 3 on the heap, 3 generations, 4 calls; `Sart`: 4 versions, 3 entries, 5 calls | a device reaches what the calls have mapped (`TranslationAgrees`, `TableExact`), tables are neither lost nor freed in use (`TablesOwned`), searches are right (`SearchExact`); not after a `dart_init` that ran out of memory or a `free` of a firmware table |
| `RingsSound` | `Afk`: rings of 4 blocks, 2 commands, 1 callback or unasked entry | rings are queues (`RingsFifo`), a command gets its own reply (`ReplyMatches`) |
| `PhySound` | `AtcPhy`: 8 saved registers, 1 failed hand-back | a PHY handed back is as it was found, but for a part whose restoration failed (`HandedBack`); ownership is nested (`OwnershipNested`) |
| `DisplaySound` | `Display`: 4 machines, 3 calls | what is scanned out is mapped (`ScanoutMapped`, not after a failed remap), parts are released in order (`TeardownOrder`, but for a session that did not boot) |
| `ConsoleSound` | `Console`: 2 CPUs, 2 devices, ring of 2, 5 characters, 2 changes | `InOrder`, `NothingLost`, and no deadlock |
| `ProxySound` | `UartProxy`: 5 requests, payload of 2, 3 sends, 1 fault, 1 event | acknowledged writes are whole (`WritesWhole`), frames are not torn (`FramesWhole`) |
| `QueuesSafe`, `ReadsCorrect`, `PreservedUntouched` | `Nvme`: both types, queues of 2, reads of up to 2 blocks, 2 sessions, 3 commands | no DMA to freed memory, no leak, quiet after a shutdown; no completion taken for another's, no wrong data, all of these until a reset of ANS has failed (no leak also after that); a preserved controller is untouched |
| `HandoffSound` | `Boot`: 13 sequences of payloads, 3 variables, 3 requests | what the next stage gets, `SpansDisjoint`, `AdoptCarried` |
| `TreeSound` | `Kboot`: 8 machines, any one fact missing, or a room of 8 to 544 words in steps of 8; a second `kboot_boot` after a refused one is excepted from parts of the first two | `ClaimBacked`, `ExternalWhole`, `WholeOrOut`, `MemoryUpToDate` |
| `PcieSound` | `Pcie`: all generations, 2 ports, 4 calls | the result is what the boot path takes it for (`ResultHonest`), half a start is not retried (`HalfNotRetried`) |
| `UsbSound` | `UsbLink`: 2 ports, 3 requests; `Dwc3`: chains of 2, ring of 3, 2 sessions, 3 tokens, 2 writes, resets, requests or errors | `WatchdogCovers`, `MaskOriginal`, `LinkWhole` (also through re-announcements; a torn change of lanes excepted); the program reads what the host has sent, once and in order (`OutStream`) |
| `PowerSound` | `Pmgr`: every topology of up to 3 domains, depth 3, and two trees with 3 calls | `TopologyExact`, `PoweredWhole`, `RestoredWhole`, `ProtectedUntouched` |
| `OwnTablesSound` | `Mmu`: 8 pages of RAM, 2 pages to an L2 and 4 to an L1 entry, 2 changes | mappings are as asked for, never two translations of a page at once, tables reach themselves, read-only pages are in no block |

The bounds let the hard cases happen. Two secondaries are needed for one to enter
late while the other is being started; a second start for a re-entry. Queues of
two wrap, and change their phase, after two commands; three commands leave room
for a time-out, its late completion and a following read. Mailboxes of two fill
up, so that `asc_send` times out. A ring of two is overtaken by three characters,
one of four blocks by two entries. The free list reaches four blocks. Two maps are
enough for one to be split or covered by the other, two shadows for two CPUs to
compete for a third. Virtio indices wrap after four buffers and after two. The rooms of the
device tree let it run out of space in each of its parts. Three domains give every
shape of two parents and a cycle. Larger instances were checked once and are not
kept as runs because of their size: a console with three devices, the invariants
of `hv_session` with three CPUs, `SessionInv` of `HvProof` with three CPUs, and
the watchdog with a time-out of 3 and time up to 10.

Deadlock is checked except in `hv_session`, where the host may be done with its
sessions, in `hv_switch`, where a CPU switched to in the inner loop of
`hv_exc_proxy` is waited for by all for ever, in `iova_panic`, where `iova_free` may panic, and in `pcie_shutdown`,
whose calls are bounded. In the runs over several models a part whose calls are
bounded, or that may stop for good, may stay where it is (`Over`); that leaves `Hv`,
`HvVirtio`, `Afk`, `Console` and `Nvme`, in which a deadlock would be found. (A
silent coprocessor is not a deadlock of the AP: `CallsReturn` is about that.)

### Fairness

- `smp_modes`: a secondary in the dispatch loop keeps running, and the boot CPU
  finishes the stores of a call or a change of mode it has begun. Functions need
  not return.
- `hv_session`, `hv_switch`: each CPU keeps running its handlers, the timer tick
  of each CPU keeps firing, a pending FIQ is taken, and the host returns from
  the proxy. `PromptSpin` says that a host round trip takes longer than one
  iteration of a CPU that polls `hv_want_cpu`; see the assumptions below.
- `rtkit`: the AP keeps running and time passes. Nothing is assumed of the
  coprocessor, except in `LiveIopBoots`, which assumes it in so many words: a
  boot without a time limit returns if the coprocessor answers.

## Proofs

For every value of the constants, from the named assumptions of the modules (types
of the constants in `ConstantsAssumption`; for `Iova`, that a section is a whole
number of pages, `PageAssumption`, and that addresses have a largest one,
`LimitsAssumption`):

- `SmpProof` and `SmpCalls`, for any number of CPUs, starts, calls and changes of
  mode. In `SmpProof`, `TypeTheorem`: types, and `StartReportsTheorem`: a start that
  reports success has started every CPU. In `SmpCalls`, `DeadIsOutTheorem`: a CPU
  taken for dead is not in the loop.
  Under `AllPunctual` (each system either finds a CPU's place from its MPIDR, as
  T8142 and T8152 do, or its CPUs enter in time): `OwnSlotTheorem` and
  `OwnStackTheorem`, and `NoLostWakeupTheorem`, that a CPU which waits with a call
  in its slot has an event or an interrupt coming. If, besides, no slot is cleared
  under a call (`~BusyRelease`): `CallsSoundTheorem`, that a call runs once, with
  its own arguments, and `smp_wait` returns its result, and `InFlightTheorem`, the
  action property that a call in flight is left alone. Both assumptions are those
  of the runs; without them TLC finds the properties violated (see below).
  The inductive invariant `CoreInv` says of each CPU where its slot and stack are
  (`Place`), what its slot holds (`Slot`), that the boot CPU has at most one call
  for it (`Served`), what a pending stop means (`Stopped`), when it has no flag
  (`Alive`), and that it is never left waiting the wrong way round (`Mode`,
  `Wake`). It is a conjunction over the CPUs, so a step of one CPU concerns one
  instance. The steps of the boot CPU are first described by where they lead it
  (the lemmas of `SmpProof` ending in `Moves`). `CallInv` and `Ledger` add the history: what each
  slot was last posted, and that no two slots hold the same call. `StartInv` keeps
  that the loop of the start remembers every failure.
- `LockedAloneTheorem`, `TypeTheorem`, `IpiNotLostTheorem` (`HvProof`): the lock is
  held exactly in the locked sections; types; a queued guest IPI has its hardware
  IPI outstanding. Inductive invariant `LockInv`: the three with `Returns` (nested
  handlers return to places that hold the lock as expected) and `JoinRange` (the CPU
  `hv_join_cpus` is at exists). One step per action.
- `SessionSafeTheorem` (`HvProof`): if no CPU is started while `hv_join_cpus`
  runs (`~LateStart`), every CPU in the guest is announced, and none of an earlier
  session is left there when the next one is prepared, for any number of CPUs, with
  time-outs of the join. Inductive invariant `SessionInv`, on top of `LockInv`: a
  slot is busy while its CPU is away (`Slots`), a CPU that is not out is among the
  started ones (`Listed`), one on its way to the guest is announced already
  (`Announced`), and the CPUs the join has gone by without a time-out are out
  (`Passed`). Most steps are those of one CPU inside the session; a frame lemma
  (`LocalKeeps`) disposes of these, and start, entry, exit and join remain.
- `WatchdogTheorem` (`HvWdtProof`): for any time-out and any lag of the loop, as
  long as the time does not wrap (`Bounds`), the watchdog barks only at a guest that
  was quiet, barks at one that is, and at most one loop runs. Inductive invariant
  `DogInv`: the stamp is never ahead of the time and accounts for the silence
  (`Stamped`), the loop's copies are at most one round old (`ReadsFresh`), and a
  silence that is watched is short or will be noticed in this round (`Noticed`).
- `BuffersTheorem`, `CrashTheorem` (`RtkitProof`): for any devices, mailboxes and
  number of sessions, freed memory is out of the coprocessor's reach and what it was
  told of is mapped; from a crash to `rtkit_free` nothing is taken from the
  coprocessor, no change of power is begun or succeeds, and only the driver's own
  messages are sent (an action property). Inductive invariants: `BufferInv`, that also a reply still in the
  mailbox names a buffer that is mapped, or one of an earlier session; `CrashInv`,
  that nobody is left in a wait once the crash is known.
- `MemoryTheorem`, `PreservedTheorem`, `CompletionTheorem`, `ReadTheorem`
  (`NvmeProof`): for any size of the queues, any reads, any number of sessions and
  commands, and a controller that is late, silent, wrong or dead: the queues it
  was given stay allocated as long as it may use them and are not leaked, and
  after a shutdown it holds no command; a controller preserved after a failed
  set-up is left alone (an action property); a command succeeds only by its own
  completion; and a read that succeeds has left the blocks asked for in the
  buffer. All but the second are stated until a reset of ANS has failed (`unreset`),
  of which the driver knows nothing; `Elder` says that only the older controllers,
  which are never preserved, get there. `Sane` says what the constants are; of the number of commands,
  `MaxCmds`, nothing is assumed. There are three layers of invariant, each used by
  the next. `LifeInv`: which place in which call goes with which state of the
  session, the memory and the controller (`Life`, `Memory`, `Controller`).
  `QueueInv`: memory of a new session is blank and unknown to the controller
  (`Unused`, `Prepared`); while the queues are in use (`Known`) each one that has
  not failed is in step (`Synced`): all completions are taken, the phases in
  memory are those of the last round and the controller writes where the driver
  looks, or just the awaited completion is there. A queue that failed is out of
  step for good, which is why it must refuse commands. `DataInv`: with a
  controller that transfers only the first block of a multi-block read (the defect
  that is modelled) the fill pattern stays at the end of the buffer until the
  verification (`Multi`), the blocks before the one being read singly are right
  (`Single`), and so is the buffer after a successful return (`Delivered`). Each
  layer has one lemma per action or group of actions.
- `ConsoleTheorem` (`ConsoleProof`): for any number of CPUs and devices, any ring
  and texts of any length, a device outputs what was printed in order and nothing
  twice, and what it has not output is in the ring and before it, unless the ring
  has lost it or the device was no console. `Sane` says what the constants are.
  Inductive invariant `ConInv`: the owner of `console_lock` has taken it as often
  as it is between its locks and unlocks (`Held`), hence there is one writer; where
  the writer and its device are (`Writer`); the ring has the last characters
  (`Ring`); and of each device that its position is at most as far as the writer
  allows (`Extent`), that what it has output is in order and before its position
  (`Ordered`), and that all before its position was output or dropped (`Covered`).
- `NoOverlapTheorem` (`IovaProof`): no address is handed out twice, for any page
  size, domain and sequence of requests. Inductive invariant `IovaInv`: the list
  is a sequence of non-empty blocks and ranges in use have the size they were
  asked with, rounded up (`Shape`), and `NoOverlap`. The lemmas say what dropping,
  changing and inserting a block does to an ordered list, then what each
  operation does.
- `ImplementsTheorem` (`IovaProof`): the free list implements `IovaPages`, the
  allocator that knows only a set of free addresses. From `IovaInv` and `Bounded`
  (free addresses and those handed out lie in the domain), each operation changes the set of addresses in the
  list by just the range it hands out or takes back, and a failed one not at all.

Only model-checked: everything that needs fairness or ENABLED, which the prover
does not support (`CallTaken`, `JoinEnds`, `SwitchServed`, `RendezvousEnds`,
`CallsReturn`, `LiveIopBoots`, and the absence of deadlock); the own slot and stack
on the other start paths when CPUs may enter late, where they do not hold; and all of the
models without a proof module. Facts that need induction over data are out of the
prover's reach, which concerns the models built on the folds of `Outcomes` (`Boot`,
`Pcie`, `UsbLink`, `Kboot`, `Display`, `AtcPhy`), and so are RECURSIVE operators, which
`Mmu` and `Pmgr` use.

`StatesAgree` of `Rtkit` stays with TLC for another reason: it does not hold for all
constants. A coprocessor that is not reset between sessions and answers each of
them only after the AP has given up leaves its answers in the mailbox. With a
mailbox of eight messages and seven sessions given up, the eighth takes the
collected answers of the earlier ones for a whole boot, and `BootAgrees` is violated;
with five and five it still holds, as it does with the two sessions of the run.

## Disagreements with the source

Shown by the runs that are expected to be violated:

- `hv_time_race`: `hv_exc_exit` loads the time offset and unlocks before it marks
  the CPU as in the guest; a rendezvous in between overlooks it, and it runs the
  guest with an old offset.
- `hv_rendezvous_exit`: a secondary that leaves the guest takes the lock before
  it clears its in-guest bit, for which the holder of the lock may be waiting.
- `iova_panic`: `iova_free` reports corruption when the freed range lies above all
  free blocks.
- `pcie_shutdown`: on chips other than T8140 `pcie_init` tries the two names of the
  first controller with one state; the second, which does not exist, clears what
  `pcie_shutdown` needs to know of the first.

Some models define a further property that says what a comment or message of the
code says, and that the code does not keep. They are not part of a run; TLC finds
each of them violated when it is added to its model's invariants.

| Property | Source | The code says | What happens |
|---|---|---|---|
| `PanelSurvivesExternal` (`Kboot`) | `kboot.c` 4881 | "The internal panel does not depend on the external DCP" | the external display is taken out of the tree after `fdt_pack` has taken its room: a status that has to be added cannot be, and the boot is refused |
| `ShadowHidden` (`HvSprr`) | `hv/hv_sprr.c` 592 | "a shadow root it should never have seen" (`hv/hv_vm.c` 1279) | a CPU whose shadows were switched off meanwhile reads the address of the one it still has loaded |
| `FallbackScheduled` (`UsbLink`) | `usb.c` 335 | "This PHY requires a deferred carrier transition" | the fallback asks for a delay of 0, which the state machine refuses |
| `TrbRetired` (`Dwc3`) | `usb_dwc3_impl.inc` 470 | "allows the controller 1 ms to retire DMA before reusing the TRB" | a completion that was queued before the pipe was reopened is taken for that of the new transfer, and the blocks the controller works on are written again |
| `ContinuesAnyway` (`Display`) | `display.c` 431 | "failed to set power on (continuing anyway)" | the error stays in `ret`, and a connected display is not set up (452) |

## What the passing runs assume

These situations are left out of the passing runs. The code does not exclude all of
them by itself, so the properties named here hold only under the assumption. Where
it says so, TLC was run without the assumption and found the property violated.

| Assumption | Source | Without it |
|---|---|---|
| on the start paths other than T8142 and T8152 no CPU enters after its start timed out (`lateEntry`) | `smp.c` 193 | `OwnStack` violated (shared `_reset_stack`) |
| `DeadIsOut` is stated without late entries | `smp.c` 330 | a CPU that enters between the test of its flag and the clearing of its slot in a repeated start is lost |
| no call is in flight in `smp_get_release_addr` (`BusyRelease`) | `smp.c` 940 | `InFlightPreserved` violated |
| a poll of `hv_want_cpu` is quicker than the host (`PromptSpin`) | `hv_exc.c` 102 | deadlock: the CPU is switched back to before it has seen -1, and waits for its own number |
| `SwitchServed` is not stated for a CPU in the inner loop of `hv_exc_proxy` | `hv_exc.c` 123 | violated: it waits behind the pinned CPU, every other CPU for it |
| no switch in a session with exits | `hv.c` 356 | deadlock, that of `hv_rendezvous_exit`; what lies behind it was not explored |
| no CPU is started during `hv_join_cpus` (`LateStart`) | `hv.c` 71 | `SessionJoined` violated, with three CPUs; with the two of `hv_session` the situation cannot arise |
| a virtio driver resets a device only when it finds its index at 0 (`UsedReset`) | `hv/hv_virtio.c` 187 | `BuffersOnce` violated: `avail_seen` survives the reset |
| no other CPU notifies a queue while its loop has given the lock away, and no switch to the CPU in it (`Interfere`) | `hv/hv_virtio.c` 133 | `BuffersOnce` violated: a buffer is told twice and one is skipped |
| no reset of ANS fails (`unreset`) | `nvme.c` 564, 716 | `DmaSafe` violated: the queues of a controller that may still run are freed |
| no `kboot_boot` follows a refused one on the same tree (`again`) | `kboot.c` 4867, 4875 | `ClaimBacked`, `ExternalWhole` violated: the second finds the external display disabled or half deleted and skips the check |
| a change of lanes that was written does not time out (`torn`) | `usb_cdc_atc.c` 232 | `LinkWhole` violated: `active_lane` keeps the old lanes, a cable turned back is not programmed |
| the loop of the watchdog is never held up for long (`MaxLag`) | `hv/hv_wdt.c` 88 | not stated: the bounds of `BarkJustified` are in terms of it |
| the answer to a command of the first AFK protocol is not late | `afk.c` 780 | the protocol has nothing to tell answers apart by |
| I/O pages are in the window of one translation root | `dart.c` | not explored |
| the console does not use a device whose driver prints while it is locked (`Chatty`) | `iodev.c` 210 | deadlock: `console_lock` and the device's lock are taken in both orders |
| devices are unregistered only when unused | `iodev.c` 52 | not explored |

Seen in the code and not the subject of a property: `hv_should_exit` outlives the
exit it was set for (`hv.c` 323); a CPU started after time was stolen gets the new
offset only at its first slow exception (`hv.c` 225); a second SYSLOG or IOREPORT
buffer request leaks the first buffer (`rtkit.c` 483); a failed boot of the DCP
skips `rtkit_free` (`dcp.c` 223); a freed range is not merged with the block before
it alone (`iova.c` 213); `iova_reserve` refuses a range that ends with its block
(`iova.c` 92); `cpu > MAX_CPUS` is off by one (`hv.c` 351); `dart_search` does not
look at the last entry of a table (`dart.c` 831); a roll-back of power modes does not
set `PMGR_AUTO_ENABLE` again (`pmgr.c` 105, 351); `dt_set_sio_fwdata` loses its failures
(`kboot.c` 4037); `dcp_init` uses an IOVA domain without looking whether there is one
(`dcp.c` 195); after a failed remap a mode may be shown at address 0 (`display.c` 537).

## Not modelled

Left out of the models above: the RVBAR relay and EL3 stacks of `smp.c`; system
registers other than the IPI registers and PMU interrupts in the hypervisor;
tracing; banked registers and allocation failures of the SPRR emulation; the choice
among display modes; the values written to the kernel's device tree; descriptors
and the high-speed build of the USB engine; fuses, tunable values and MSI maps of
PCIe. `PROJECT.json` says so part by part.

Not modelled at all:

- Code without state of its own, or whose state is one register: clocks and
  frequencies, buses (I2C, SPI, SPMI, GPIO), the interrupt controller, CPU features
  and work-arounds, the hardware watchdog. The interrupts, features and the watchdog
  that other parts depend on are in their models.
- Sequential clients of modelled parts: the SMC and the secure enclave (one command
  at a time over the mailboxes of `Rtkit`), the table of proxy commands, the
  emulated UART of the hypervisor, UART drivers and the frame buffer console behind
  `Console`.
- Exception vectors and entry to the guarded levels: straight-line register code on
  one CPU, whose correctness rests on the hardware's rules.
- Pure functions over strings and trees: device-tree access, formatting, parsing of
  names, configuration and dictionaries, the Rust code. They have no interleavings
  or failures that a state model would show.
- Vendored libraries.
