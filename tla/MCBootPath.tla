----------------------------- MODULE MCBootPath -----------------------------
(***************************************************************************)
(* The way from power-on to the next stage, under model checking, part by  *)
(* part: m1n1's page tables (Mmu), power (Pmgr), NVMe, from which the next *)
(* stage is read, its choice (Boot), the device tree for a kernel (Kboot), *)
(* PCIe, and the link to the host (UsbLink, Dwc3).  A behaviour is one of  *)
(* one part; the variables of the others do not change.  Parts share the   *)
(* variables of the same name.                                             *)
(***************************************************************************)
EXTENDS Kboot, TLC

VARIABLES
    part,
    mach, requests, q, pend, ret,   \* of more than one part
    type, initialized, reboot_required, adopt_live_session, gen, alloced, ngen, cqes, cmd_timed_out, multi_enabled,
    multi_verified, buf, bounce, pc, adopting, cmd, ok, req, dev, dq, broken, unreset, ncmd,
    b,
    u,
    pcie_initialized, ctl,
    d, hw, call, host, n,
    pmach, pm, last,
    mc, pt, on, todo, op, brk, tlb, want, maps

(* Machines to prepare the device tree of, each with one thing missing or  *)
(* with too little room                                                    *)
KbootMachines ==
    {[chip |-> "t8140", ext |-> TRUE, dispext0 |-> e, shared |-> x] : e, x \in BOOLEAN}
    \cup {[chip |-> "t8140", ext |-> FALSE, dispext0 |-> FALSE, shared |-> FALSE]}
    \cup {[chip |-> c, ext |-> TRUE, dispext0 |-> FALSE, shared |-> FALSE] : c \in {"t8103", "t8112", "t8142"}}
FdtFacts == {"chosen", "framebuffer", "cpus", "aic", "affinities", "cpu-map", "serial0", "atcphy", "ave", "gpu", "opps", "hw-cal-a", "touchbar",
             "sep", "pmp", "nvram", "keyboard", "soc", "sio", "isp", "dcp", "dcpext", "disp0", "graph", "piodma", "ext-power", "valid",
             "reserved-memory", "memory", "rc", "adapter", "nhi", "pciec"}
AdtFacts == {"chosen", "random-seed", "audio", "speaker-profile", "model", "target-type", "mac", "wlan", "sku-info", "bluetooth",
             "atc", "atc-groups", "axi2af", "atc-tunables", "acio", "rc-tunables", "adapter-tunables", "nhi-tunables", "drom", "pciec-tunables", "ave-segments", "ave", "sgx", "gpu-regions", "touchbar", "sepfw",
             "manifests", "pmp", "nvram", "ipd", "arm-io", "usb-drd", "spi2", "sio-data", "sio", "isp", "virtio", "vram", "dram", "region14",
             "dcp-nub", "nub-segments", "dcpext"} \cup Range(InternalRegions) \cup Range(ExternalRegions)
SysFacts == {"video", "depth", "sep", "initrd", "uboot-config", "mpidr", "usb4-uuid", "gpu-power", "gpu-initdata", "isp", "ram-extent",
             "fw-ro", "malloc", "malloc-ext", "malloc-group", "malloc-withdraw", "fuses"}
OneMissing ==
    {{Fdt(x)} : x \in FdtFacts} \cup {{Adt(x)} : x \in AdtFacts} \cup {{Sys(x)} : x \in SysFacts} \cup
    {{Dart(x)} : x \in Range(InternalRegions) \cup Range(ExternalRegions) \cup {"vram", "segments", "dcp", "dcpext"}}
Plenty == 600
KbootFlaws == {[bad |-> x, room |-> Plenty] : x \in OneMissing \cup {{}}} \cup {[bad |-> {}, room |-> r] : r \in {8 * i : i \in 1..68}}

Nvm == INSTANCE Nvme WITH
        Types <- {"t8103", "t8132"}, QueueSize <- 2, MaxCount <- 2, Lbas <- {1}, Faults <- {"status", "tag", "multi", "fatal"},
        MaxInits <- 2, MaxCmds <- 3

\* The loader at page 2, the protected range of T8140 and the heap above it at various distances
Layouts ==
    {[base |-> 2, top |-> top, heap |-> heap, ro |-> ro] :
     top \in {4, 6, 7}, heap \in {7, 8}, ro \in {<<>>, <<0, 1>>, <<3, 4>>, <<5, 6>>}}
Fits(l) == l.heap > l.top /\ (l.ro # <<>> => l.ro[2] <= l.top)
Machine(chip, config, debug, l) ==
    [chip |-> chip, config |-> config, debug |-> debug, base |-> l.base, top |-> l.top, heap |-> l.heap, ro |-> l.ro]
Roomy == [base |-> 2, top |-> 7, heap |-> 8, ro |-> <<0, 1>>]
BootMachines ==
    {Machine("T8140", "valid", FALSE, l) : l \in {y \in Layouts : Fits(y) /\ y.ro # <<>>}}
    \cup {Machine("other", "valid", FALSE, l) : l \in {y \in Layouts : Fits(y) /\ y.ro = <<>>}}
    \cup {Machine(chip, config, debug, Roomy) : chip \in {"T8140", "other", "T8152"}, config \in {"none", "valid", "damaged"}, debug \in BOOLEAN}
BootPayloads ==
    {<<>>, <<"gz kernel", "fdt", "initramfs">>, <<"other fdt", "gz kernel", "fdt", "tso">>, <<"fdt", "kernel", "boot">>,
     <<"boot">>, <<"boot", "tso", "initramfs", "fdt">>, <<"chosen", "chosen", "chosen", "chosen">>, <<"chosen", "chainload">>,
     <<"chosen", "chosen", "chosen", "chainload">>, <<"chosen", "chainload config">>, <<"chainload", "boot">>, <<"fdt", "cpio", "gz kernel">>, <<"gz kernel", "bad gz", "fdt">>}
Bt == INSTANCE Boot WITH Machines <- BootMachines, Payloads <- BootPayloads, MAX_CHOSEN_VARS <- 3, MaxRequests <- 3

Usb == INSTANCE UsbLink WITH Machines <- [chip : {"t8140", "other"}, debug : BOOLEAN, window : BOOLEAN], Ports <- {0, 1}, MaxRequests <- 3

PcieMachines ==
    {m \in [chip : {"t8140", "other"}, type : {"t81xx", "t602x", "t6031", "t8122", "t8140"},
            nodes : SUBSET {"apcie", "apcie0", "ge0"}, bridges : {{0}, {1}, {0, 1}}] :
        /\ m.chip = "t8140" <=> m.type = "t8140"
        /\ ~({"apcie", "apcie0"} \subseteq m.nodes)
        /\ "ge0" \in m.nodes => m.type = "t602x"}
Pci == INSTANCE Pcie WITH Machines <- PcieMachines, Ports <- {0, 1}, MaxCalls <- 4

Dwc == INSTANCE Dwc3 WITH NTrb <- 2, Ring <- 3, MaxSessions <- 2, MaxTokens <- 3, MaxBus <- 2

(* Every topology of up to three devices is validated; calls work on two:  *)
(* a device below a virtual and a real parent with a common root, and one  *)
(* below a protected parent                                                *)
PowerDev(id, p0, p1) == [id |-> id, parents |-> <<p0, p1>>, virtual |-> FALSE, protected |-> FALSE, addr |-> TRUE]
PowerReg(m, auto) == [target |-> m, actual |-> m, auto |-> auto]
PowerOff(ds) == [die \in {0} |-> [i \in 1..Len(ds) |-> PowerReg(0, FALSE)]]
PowerProbe(ds) == [adt |-> TRUE, devices |-> ds, boot |-> PowerOff(ds), gates |-> <<>>, calls |-> 1]
PowerTree == <<PowerDev(5, 3, 4), [PowerDev(3, 2, 0) EXCEPT !.virtual = TRUE, !.addr = FALSE], PowerDev(4, 2, 0), PowerDev(2, 0, 0)>>
PowerProtected == <<PowerDev(5, 3, 2), [PowerDev(3, 2, 0) EXCEPT !.protected = TRUE], PowerDev(2, 0, 0)>>
PowerGates == << <<<<0, 4>>, <<0, 5>>>>, <<<<0, 5>>, <<0, 9>>>>, <<<<1, 2>>>> >>
PowerWork(ds, adt) ==
    {[adt |-> adt, devices |-> ds, boot |-> x, gates |-> PowerGates, calls |-> 3] :
     x \in [{0} -> [1..Len(ds) -> {PowerReg(0, FALSE), PowerReg(15, TRUE)}]]}
PowerMachines ==
    {PowerProbe(<<PowerDev(1, x[1], x[2]), PowerDev(2, x[3], x[4]), PowerDev(3, x[5], x[6])>>) : x \in [1..6 -> 0..3]}
    \cup {PowerProbe(<<PowerDev(x[1], x[2], 0), PowerDev(x[3], x[4], x[5])>>) : x \in [1..5 -> 0..3]}
    \cup PowerWork(PowerTree, TRUE) \cup PowerWork(PowerProtected, TRUE) \cup PowerWork(PowerProtected, FALSE)
Pwr == INSTANCE Pmgr WITH Machines <- PowerMachines, PMGR_MAX_PARENT_DEPTH <- 3, MaxSaved <- 3, Dies <- 1

(* RAM is pages 4 to 11, two to a level 2 entry and four to a level 1      *)
(* entry; m1n1 lies at page 5, 6 or 7, the firmware of T8140 anywhere      *)
MmuCall(from, size, at) == [from |-> from, to |-> from, n |-> size, at |-> at]
MmuCalls == {MmuCall(4, 2, "NC"), MmuCall(10, 1, "RX_EL0"), MmuCall(10, 2, "NC"), MmuCall(11, 1, "NC")}
MmuMachine(chip, carve, ro, base, watch) ==
    [chip |-> chip, carve |-> carve, ro |-> ro, base |-> base, heap |-> base + 3, watch |-> watch, calls |-> MmuCalls]
MmuMachines ==
    {MmuMachine(chip, chip # "4K", 0, base, watch) : chip \in {"16K", "4K"}, base \in 5..7, watch \in {4, 10}}
    \cup {MmuMachine("T8140", TRUE, ro, base, 10) : ro \in {0} \cup 4..8, base \in 5..7}
    \cup {MmuMachine("T8140", FALSE, 4, 7, 10), MmuMachine("T8152", TRUE, 0, 6, 10)}
Mem == INSTANCE Mmu WITH Machines <- MmuMachines, L2Pages <- 2, L1Pages <- 4, RamBase <- 4, RamPages <- 8, MaxMaps <- 2

Unused == 0
NoNvme ==
    /\ type = Unused /\ initialized = Unused /\ reboot_required = Unused /\ adopt_live_session = Unused
    /\ gen = Unused /\ alloced = Unused /\ ngen = Unused /\ cqes = Unused /\ cmd_timed_out = Unused
    /\ multi_enabled = Unused /\ multi_verified = Unused /\ buf = Unused /\ bounce = Unused /\ pc = Unused
    /\ adopting = Unused /\ cmd = Unused /\ ok = Unused /\ req = Unused /\ dev = Unused /\ dq = Unused
    /\ broken = Unused /\ unreset = Unused /\ ncmd = Unused
NoBoot == b = Unused
NoUsb == u = Unused
NoPcie == pcie_initialized = Unused /\ ctl = Unused
NoKboot == k = Unused /\ fault = Unused /\ again = Unused
NoDwc3 == d = Unused /\ hw = Unused /\ call = Unused /\ host = Unused /\ n = Unused
NoPmgr == pmach = Unused /\ pm = Unused /\ last = Unused
NoMmu ==
    /\ mc = Unused /\ pt = Unused /\ on = Unused /\ todo = Unused /\ op = Unused /\ brk = Unused /\ tlb = Unused
    /\ want = Unused /\ maps = Unused
NoShared ==
    /\ mach = Unused /\ requests = Unused /\ q = Unused /\ pend = Unused /\ ret = Unused /\ phase = Unused /\ calls = Unused
NoOther == NoNvme /\ NoBoot /\ NoUsb /\ NoPcie /\ NoKboot /\ NoDwc3 /\ NoShared

MCInit ==
    \/ /\ part = "nvme" /\ Nvm!Init /\ mach = Unused /\ phase = Unused /\ requests = Unused /\ calls = Unused
       /\ NoBoot /\ NoUsb /\ NoPcie /\ NoKboot /\ NoDwc3 /\ NoPmgr /\ NoMmu
    \/ /\ part = "boot" /\ Bt!Init /\ q = Unused /\ ret = Unused /\ pend = Unused /\ calls = Unused /\ NoNvme /\ NoUsb
       /\ NoPcie /\ NoKboot /\ NoDwc3 /\ NoPmgr /\ NoMmu
    \/ /\ part = "usb" /\ Usb!Init /\ q = Unused /\ ret = Unused /\ pend = Unused /\ calls = Unused /\ NoNvme
       /\ NoBoot /\ NoPcie /\ NoKboot /\ NoDwc3 /\ NoPmgr /\ NoMmu
    \/ /\ part = "pcie" /\ Pci!Init /\ q = Unused /\ pend = Unused /\ phase = Unused /\ requests = Unused /\ NoNvme
       /\ NoBoot /\ NoUsb /\ NoKboot /\ NoDwc3 /\ NoPmgr /\ NoMmu
    \/ /\ part = "kboot" /\ Init /\ q = Unused /\ ret = Unused /\ pend = Unused /\ mach = Unused /\ requests = Unused
       /\ NoNvme /\ NoBoot /\ NoUsb /\ NoPcie /\ NoDwc3 /\ NoPmgr /\ NoMmu
    \/ /\ part = "dwc3" /\ Dwc!Init /\ ret = Unused /\ mach = Unused /\ phase = Unused /\ requests = Unused
       /\ calls = Unused /\ NoNvme /\ NoBoot /\ NoUsb /\ NoPcie /\ NoKboot /\ NoPmgr /\ NoMmu
    \/ part = "pmgr" /\ Pwr!Init /\ NoOther /\ NoMmu
    \/ part = "mmu" /\ Mem!Init /\ NoOther /\ NoPmgr

nvmeOwn == <<type, initialized, reboot_required, adopt_live_session, gen, alloced, ngen, cqes, cmd_timed_out,
            multi_enabled, multi_verified, buf, bounce, pc, adopting, cmd, ok, req, dev, dq, broken, unreset, ncmd>>
bootOwn == <<b>>
usbOwn == <<u>>
pcieOwn == <<pcie_initialized, ctl>>
kbootOwn == <<k, fault, again>>
dwc3Own == <<d, hw, call, host, n>>
pmgrOwn == <<pmach, pm, last>>
mmuOwn == <<mc, pt, on, todo, op, brk, tlb, want, maps>>
other == <<q, ret, pend, mach, phase, requests, calls, nvmeOwn, bootOwn, usbOwn, pcieOwn, kbootOwn, dwc3Own>>

NvmeStep == part = "nvme" /\ Nvm!Next /\ UNCHANGED <<part, mach, phase, requests, calls, bootOwn, usbOwn, pcieOwn, kbootOwn, dwc3Own, pmgrOwn, mmuOwn>>
BootStep == part = "boot" /\ Bt!Next /\ UNCHANGED <<part, q, ret, pend, calls, nvmeOwn, usbOwn, pcieOwn, kbootOwn, dwc3Own, pmgrOwn, mmuOwn>>
UsbStep == part = "usb" /\ Usb!Next /\ UNCHANGED <<part, q, ret, pend, calls, nvmeOwn, bootOwn, pcieOwn, kbootOwn, dwc3Own, pmgrOwn, mmuOwn>>
PcieStep == part = "pcie" /\ Pci!Next /\ UNCHANGED <<part, q, pend, phase, requests, nvmeOwn, bootOwn, usbOwn, kbootOwn, dwc3Own, pmgrOwn, mmuOwn>>
KbootStep == part = "kboot" /\ Next /\ UNCHANGED <<part, q, ret, pend, mach, requests, nvmeOwn, bootOwn, usbOwn, pcieOwn, dwc3Own, pmgrOwn, mmuOwn>>
Dwc3Step == part = "dwc3" /\ Dwc!Next /\ UNCHANGED <<part, ret, mach, phase, requests, calls, nvmeOwn, bootOwn, usbOwn, pcieOwn, kbootOwn, pmgrOwn, mmuOwn>>
PmgrStep == part = "pmgr" /\ Pwr!Next /\ UNCHANGED <<part, other, mmuOwn>>
MmuStep == part = "mmu" /\ Mem!Next /\ UNCHANGED <<part, other, pmgrOwn>>
all == <<part, other, pmgrOwn, mmuOwn>>
\* The calls of these parts are bounded, or they end with the hand-off
Over == part # "nvme" /\ UNCHANGED all

MCNext == NvmeStep \/ BootStep \/ UsbStep \/ PcieStep \/ KbootStep \/ Dwc3Step \/ PmgrStep \/ MmuStep \/ Over
MCSpec == MCInit /\ [][MCNext]_all

-----------------------------------------------------------------------------
(* The properties of each part, for its behaviours                         *)

\* No memory of a queue is freed while the controller may use it, none leaks on the older controllers, and after a
\* shutdown the controller is off and writes nothing (nvme_init, nvme_shutdown); all but the second only as long as no
\* pmgr_reset of ANS failed, whose result is ignored
QueuesSafe == part = "nvme" => Nvm!NoLeak /\ (unreset \/ (Nvm!DmaSafe /\ Nvm!QuietAfterShutdown))

\* A command succeeds by its own completion, and a read that succeeds leaves the blocks asked for in the buffer,
\* whatever was late, in error or wrong with multi-block reads before, as long as no reset of ANS failed (nvme_read_blocks)
ReadsCorrect == part = "nvme" => unreset \/ (Nvm!CompletionMatches /\ Nvm!ReadCorrect)

\* Once a set-up has failed with ANS running, the driver touches neither the controller nor the queues again
\* (reboot_required)
PreservedUntouched == [][part = "nvme" => Nvm!Preserved]_all

\* The next stage gets an NVMe controller that nobody drives any more, a kernel with its own device tree and
\* RAM disk, and on T8140 all CPUs (next_stage, payload_run); a chain-loaded image is copied over nothing that is
\* needed, and is told of a live NVMe session whatever else it is told (chainload_image)
HandoffSound == part = "boot" => Bt!HandoffSound /\ Bt!SpansDisjoint /\ Bt!AdoptCarried

\* The device tree handed to a kernel claims the display only with all it needs, as the hardware was when it was
\* looked at last, and has a display that is not handed over off, unless the tree was refused once and tried again;
\* the devices whose failures the boot survives are whole or out, as WholeOrOut lists them; the memory it describes
\* ends below every block taken from the top while it was prepared (kboot_prepare_dt, kboot_boot)
TreeSound == part = "kboot" => ClaimBacked /\ ExternalWhole /\ WholeOrOut /\ MemoryUpToDate

\* pcie_init reports what state it left the controller in, and a controller left half initialised is never
\* touched again
PcieSound == [](part = "pcie" => Pci!ResultHonest) /\ [][part = "pcie" => Pci!HalfNotRetried]_all

\* The USB link is handed over under a watchdog that runs until the host has opened it, and is whole wherever its
\* controller runs, also announced again; the interrupt masks kept for the type-C controllers are the ones they had
\* (usb_cdc.c, usb.c); what the program reads from a pipe of it is what the host has sent since it opened it
\* (usb_dwc3_impl.inc)
UsbSound ==
    /\ part = "usb" => Usb!WatchdogCovers /\ Usb!MaskOriginal /\ Usb!LinkWhole
    /\ part = "dwc3" => Dwc!OutStream

\* pmgr_init accepts the topologies that can be worked with and no others; a device that is reported on has all
\* it needs on; a failed enable that is rolled back leaves the targets it found; and no protected device is written (pmgr.c)
PowerSound ==
    part = "pmgr" => Pwr!TopologyExact /\ Pwr!PoweredWhole /\ Pwr!RestoredWhole /\ Pwr!ProtectedUntouched

\* m1n1's own tables map what was asked for, no CPU sees two translations of a page while one is replaced, the
\* tables stay within reach of their own stores, and no block covers the firmware's read-only pages (memory.c)
OwnTablesSound ==
    part = "mmu" => Mem!MapExact /\ Mem!BreakBeforeMake /\ Mem!TableReachable /\ Mem!BlocksSplit
=============================================================================
