-------------------------------- MODULE Boot --------------------------------
(***************************************************************************)
(* From m1n1_main to the next stage: the scan of the payloads, the choice  *)
(* between a kernel in the image, a kernel on the EFI system partition, a  *)
(* second stage of this program and the proxy, what each of them does to   *)
(* NVMe, and the vector to the next stage (src/main.c, src/payload.c,      *)
(* src/boot_storage.c, src/chainload.c, src/stage1_config.c and the        *)
(* requests of src/proxy.c that take part).                                *)
(*                                                                         *)
(* NVMe is what nvme_init and nvme_shutdown promise: off, live, or stuck   *)
(* (a reboot is required); left is how the last session left the           *)
(* controller; on the older controllers its reset is taken to have worked  *)
(* (Nvme looks at one that fails).  Addresses are pages of 16K.            *)
(***************************************************************************)
EXTENDS Integers, Sequences, FiniteSets, FiniteSetsExt, Outcomes

CONSTANTS
    Machines,           \* records of chip, config ("none", "valid", "damaged"), debug (the proxy is asked for
                        \* by the boot arguments) and the layout of memory
    Payloads,           \* sequences of what is appended to the image
    MAX_CHOSEN_VARS,
    MaxRequests         \* bound: requests of the host

VARIABLES mach, b, phase, requests
vars == <<mach, b, phase, requests>>

T8140 == mach.chip = "T8140"
Capacity == MAX_CHOSEN_VARS + 1
None == "none"
Adopt == "nvme.adopt"
RamEnd == 12        \* of a machine whose memory begins at 0
SepSize == 1        \* SEPFW; the boot arguments follow it
StubSize == 1

Init ==
    /\ mach \in Machines
    /\ \E list \in Payloads :
       b = [payload |-> list, entry |-> None, kernel |-> None, fdt |-> None, initrd |-> None,
            chainload |-> None, boot |-> FALSE, scanned |-> FALSE, applied |-> FALSE, chosen |-> <<"version">>,
            tso |-> FALSE, cpus |-> "parked", tso_set |-> FALSE, noroom |-> FALSE,
            nvme |-> "off", left |-> "off", keep |-> FALSE, spans |-> {}]
    /\ phase = "start"
    /\ requests = 0

Fail(t) == {Err([t EXCEPT !.entry = None])}
Chance(t) == Maybe(t, t)       \* something that may fail and changes nothing here

-----------------------------------------------------------------------------
(* NVMe, as its callers see it                                             *)

NvmeInit(t) ==
    CASE t.nvme = "live" -> {Ok(t)}
      [] t.nvme = "stuck" -> {Err(t)}
      [] OTHER -> {Ok([t EXCEPT !.nvme = "live"]), Err(t)}
                  \cup (IF T8140 THEN {Err([t EXCEPT !.nvme = "stuck"])} ELSE {})

NvmeShutdown(t) ==
    CASE t.nvme = "stuck" -> {Err(t)}
      [] t.nvme = "off" -> {Ok(t)}
      [] OTHER -> IF T8140 THEN Maybe(t, [t EXCEPT !.nvme = "off", !.left = IF t.keep THEN "running" ELSE "rtkit"])
                  ELSE {Ok([t EXCEPT !.nvme = "off", !.left = "off"])}
Quietly(A) == {Ok(o.s) : o \in A}       \* a call whose result is not looked at

-----------------------------------------------------------------------------
(* The scan                                                                *)

\* check_var: a variable of the payload.
CheckVar(t, v) ==
    CASE v = "chosen" -> IF Len(t.chosen) >= MAX_CHOSEN_VARS THEN t ELSE [t EXCEPT !.chosen = Append(@, v)]
      [] v = "chainload" -> [t EXCEPT !.chainload = "appended"]
      [] v = "chainload config" -> [t EXCEPT !.chainload = "config"]    \* the target of the configuration
      [] v = "boot" -> [t EXCEPT !.boot = TRUE]
      [] v = "tso" -> [t EXCEPT !.tso = TRUE]
      [] OTHER -> t

\* What ends the scan: a kernel or an archive that is not compressed has no known size, and what does
\* not uncompress neither
Ends(p) == p \in {"kernel", "cpio", "bad gz"}

load_kernel(t) == [t EXCEPT !.kernel = "payload"]
load_fdt(t, p) == IF p = "fdt" THEN [t EXCEPT !.fdt = "payload"] ELSE t
load_cpio(t, p) == IF p = "initramfs" THEN [t EXCEPT !.initrd = "payload"] ELSE t
decompress(t, p) == IF p = "gz kernel" THEN load_kernel(t) ELSE t
load_one_payload(t, p) ==
    CASE p \in {"gz kernel", "bad gz"} -> decompress(t, p)
      [] p = "kernel" -> load_kernel(t)
      [] p \in {"fdt", "other fdt"} -> load_fdt(t, p)
      [] p \in {"initramfs", "cpio"} -> load_cpio(t, p)
      [] OTHER -> CheckVar(t, p)

Scan(t) ==
    IF t.scanned THEN t
    ELSE LET end == {i \in 1..Len(t.payload) : Ends(t.payload[i])}
             n == IF end = {} THEN Len(t.payload) ELSE Min(end)
         IN  [FoldLeft(load_one_payload, t, SubSeq(t.payload, 1, n)) EXCEPT !.scanned = TRUE]

\* The configuration in the image of stage 1 names a second stage, once
stage1_config_valid == mach.config = "valid"
ApplyConfig(t) ==
    IF t.applied \/ ~stage1_config_valid THEN {Ok([t EXCEPT !.applied = TRUE])}
    ELSE IF t.chainload = "appended" THEN {Err(t)}      \* the targets differ
    ELSE IF Len(t.chosen) >= MAX_CHOSEN_VARS THEN {Err([t EXCEPT !.chainload = "config"])}
    ELSE {Ok([t EXCEPT !.chainload = "config", !.chosen = Append(@, "esp"), !.applied = TRUE])}

-----------------------------------------------------------------------------
(* Chain loading                                                           *)

Overlap(x, y) == x[1] < y[2] /\ y[1] < x[2]
Span(name, first, n) == [name |-> name, at |-> <<first, first + n>>]

\* Where memalign may put n pages: above the memory of the loader, clear of the blocks in use
Places(n, used) == {p \in mach.top..RamEnd - n : \A u \in used : ~Overlap(<<p, p + n>>, u)}

\* Whether the firmware block has to go elsewhere: packed behind the image it would lie in memory that
\* is write-protected or in use.
Park(image_end, packed_end) ==
    \/ mach.ro # <<>> /\ packed_end > mach.ro[1] /\ image_end < mach.ro[2]
    \/ mach.heap > mach.top /\ packed_end > mach.top /\ image_end < mach.heap

Destination(image_end, packed_end) ==
    /\ packed_end <= RamEnd
    /\ ~(mach.ro # <<>> /\ image_end > mach.ro[1] /\ mach.base < mach.ro[2])
    /\ ~(mach.heap > mach.top /\ image_end > mach.top /\ mach.base < mach.heap)

chainload_image(t, size) ==
    LET u == [t EXCEPT !.entry = None]
        image_end == mach.base + size
        fw_size == SepSize + 1
        packed_end == image_end + fw_size
        park == Park(image_end, packed_end)
        copy_size == IF park THEN size ELSE size + fw_size
        Vector(parked, new) ==
            LET fw == IF park THEN parked ELSE image_end
                high == Max({image_end, fw + fw_size, mach.heap, mach.top} \cup (IF mach.ro = <<>> THEN {} ELSE {mach.ro[2]}))
            IN  [u EXCEPT !.entry = "stub",
                          !.spans = {Span("dest", mach.base, copy_size), Span("source", new, copy_size + StubSize),
                                     Span("firmware", fw, fw_size), Span("kept", 0, high)}]
    IN  IF (T8140 /\ mach.ro = <<>>) \/ ~Destination(image_end, packed_end) THEN {Err(u)}
        ELSE {Err(u)} \cup      \* no SEPFW, no memory
             UNION {{Ok(Vector(parked, new)) : new \in Places(copy_size + StubSize, IF park THEN {<<parked, parked + fw_size>>} ELSE {})}
                    : parked \in IF park THEN Places(fw_size, {}) ELSE {0}}

\* The variable that tells the next stage to adopt the session goes into the extra slot, once
AddAdopt(t) ==
    IF ~T8140 \/ Adopt \in Range(t.chosen) THEN {Ok(t)}
    ELSE IF Len(t.chosen) >= Capacity THEN OrElse({Err([t EXCEPT !.noroom = TRUE])}, NvmeShutdown)
    ELSE {Ok([t EXCEPT !.chosen = Append(@, Adopt)])}

chainload_load(t) ==
    Then(NvmeInit(t), LAMBDA a :
    Then(AddAdopt(a), LAMBDA c :
    LET loaded == Then(Chance(c), LAMBDA d : UNION {chainload_image(d, size) : size \in 1..2})
    IN  UNION {UNION {IF ~n.ok \/ ~o.ok THEN Fail(n.s) ELSE {n} : n \in NvmeShutdown(o.s)} : o \in loaded}))

-----------------------------------------------------------------------------
(* A kernel on the EFI system partition                                    *)

boot_prepare_image(t) == Chance(t)      \* inflates, checks the header, copies to aligned memory
boot_check_dtb(t) == Chance(t)
\* boot_storage_load: kernel, device tree and perhaps an initial RAM disk are all loaded and checked
\* before any of them is used
boot_storage_load(t) ==
    Then(Chance(t), LAMBDA x :          \* the specification of the files
    Then(NvmeInit(x), LAMBDA a :
    OrElse(Then(ForEach(a, <<"kernel", "dtb", "initrd">>, LAMBDA c, f : Chance(c)), LAMBDA c :
           Then(Then(boot_check_dtb(c), boot_prepare_image), LAMBDA d :
           {Ok([d EXCEPT !.kernel = "storage", !.fdt = "storage", !.initrd = i]) : i \in {"storage", None}})),
           NvmeShutdown)))

-----------------------------------------------------------------------------
(* payload_run                                                             *)

\* Secondary CPUs, mitigations and TSO: only T8140 insists on them
Cpus(t) ==
    {LET u == [t EXCEPT !.cpus = cpus, !.tso_set = @ \/ (t.tso /\ tso)]
     IN  IF T8140 /\ (cpus # "whole" \/ (t.tso /\ ~tso)) THEN Err(u) ELSE Ok(u) : cpus \in {"whole", "some"}, tso \in BOOLEAN}

kboot(t) == Then(Then(Chance(t), Chance), LAMBDA a : {Ok([a EXCEPT !.entry = a.kernel])})

BootFailed(t) ==
    LET u == [t EXCEPT !.entry = None]
    IN  IF ~t.boot THEN {Ok(u)} ELSE NvmeShutdown([u EXCEPT !.initrd = None, !.keep = FALSE])

BootKernel(t) ==
    IF t.kernel = None \/ t.fdt = None THEN {Err(t)}
    ELSE OrElse(Then(Then(Cpus(t), kboot), LAMBDA a : {Ok([a EXCEPT !.keep = @ \/ a.boot])}), BootFailed)

payload_run(t) ==
    Then(ApplyConfig(Scan(t)), LAMBDA a :
    IF a.chainload # None
    THEN IF a.boot THEN Fail(a)
         ELSE OrElse(chainload_load([a EXCEPT !.entry = None]), LAMBDA c : NvmeShutdown([c EXCEPT !.entry = None]))
    ELSE IF ~a.boot THEN BootKernel(a)
    ELSE Then(Or(boot_storage_load(a), Fail), BootKernel))

payload_boot_storage(t) == payload_run([t EXCEPT !.boot = TRUE])

-----------------------------------------------------------------------------
(* main                                                                    *)

\* Up to run_actions: memory and power controllers are only insisted on by T8140, and T8152 goes to the
\* proxy.  A host that calls in the window of stage 1 keeps the machine in the proxy.
m1n1_main ==
    /\ phase = "start"
    /\ phase' \in (IF mach.chip = "T8152" THEN {"proxy"} ELSE {"actions"})
                 \cup (IF mach.chip # "T8152" /\ stage1_config_valid /\ ~mach.debug THEN {"window"} ELSE {})
                 \cup (IF mach.chip = "other" THEN {} ELSE {"panic"})
    /\ UNCHANGED <<mach, b, requests>>

\* A payload that cannot be run ends in the proxy, or nowhere if no carrier for it is left
stage1_proxy_payload_action(valid) == IF valid THEN {"handoff"} ELSE {"proxy", "panic"}

\* run_actions, outside of the window
run_actions ==
    /\ phase = "actions"
    /\ \/ /\ ~mach.debug
          /\ \E o \in payload_run(b) : b' = o.s /\ phase' \in stage1_proxy_payload_action(o.ok)
       \/ mach.debug /\ phase' \in stage1_proxy_payload_action(FALSE) /\ b' = b
    /\ UNCHANGED <<mach, requests>>

InProxy == phase \in {"proxy", "window", "last"}

\* What the host asks for; a request that succeeds in setting up the next stage leaves the proxy
Request(A, leave) ==
    /\ InProxy /\ requests < MaxRequests
    /\ requests' = requests + 1
    /\ \E o \in A : b' = o.s /\ phase' = IF o.ok /\ leave THEN (IF phase = "last" THEN "panic" ELSE "handoff") ELSE phase
    /\ UNCHANGED mach

P_KBOOT_BOOT_STORAGE == Request(payload_boot_storage(b), TRUE)
P_KBOOT_BOOT == Request(Then(Chance(b), LAMBDA t : {Ok([t EXCEPT !.entry = "host"])}), TRUE)
P_VECTOR == Request({Ok([b EXCEPT !.entry = "host"])}, TRUE)
P_KBOOT_SET_INITRD == Request({Ok([b EXCEPT !.initrd = "host"])}, FALSE)
P_NVME_INIT == Request(Quietly(NvmeInit(b)), FALSE)
P_NVME_SHUTDOWN == Request(Quietly(NvmeShutdown(b)), FALSE)
P_EXIT ==
    /\ InProxy /\ UNCHANGED <<mach, b, requests>>
    /\ phase' = CASE phase = "proxy" -> "handoff" [] phase = "window" -> IF b.entry = None THEN "window" ELSE "handoff" [] OTHER -> "panic"

\* The end of m1n1_main.  (mutant: the result of nvme_shutdown is not looked at)
NextStageAnyway ==
    /\ phase = "handoff"
    /\ \E o \in NvmeShutdown(b) : b' = o.s
    /\ phase' = IF b.entry = None THEN "panic" ELSE "gone"
    /\ UNCHANGED <<mach, requests>>
next_stage ==
    /\ phase = "handoff"
    /\ \/ b.entry = None /\ phase' = "panic" /\ b' = b
       \/ /\ b.entry # None
          /\ \E o \in IF mach.chip = "T8152" THEN {Ok(b)} ELSE NvmeShutdown(b) :
             b' = o.s /\ phase' = IF o.ok THEN "gone" ELSE "last"
    /\ UNCHANGED <<mach, requests>>

Next ==
    \/ m1n1_main \/ run_actions \/ next_stage
    \/ P_KBOOT_BOOT_STORAGE \/ P_KBOOT_BOOT \/ P_VECTOR \/ P_KBOOT_SET_INITRD \/ P_NVME_INIT \/ P_NVME_SHUTDOWN \/ P_EXIT

Spec == Init /\ [][Next]_vars

-----------------------------------------------------------------------------
(* Properties                                                              *)

\* The next stage gets an NVMe controller that nobody drives any more.  The controller is left running
\* only for a kernel that came from storage, and such a kernel comes with its own device tree and never
\* with the RAM disk of another.  On T8140 it has all CPUs.
HandoffSound ==
    phase = "gone" =>
       /\ b.entry # None
       /\ mach.chip # "T8152" => b.nvme = "off"
       /\ b.left = "running" => b.entry = "storage"
       /\ b.entry = "storage" => b.fdt = "storage" /\ b.initrd # "payload"
       /\ b.entry \in {"payload", "storage"} => (T8140 => b.cpus = "whole" /\ (b.tso => b.tso_set))

\* "The extra slot carries nvme.adopt without reducing the chosen-variable limit": there is always room
\* for it, and a second stage that finds a live session has been told so
AdoptCarried ==
    /\ ~b.noroom
    /\ b.entry = "stub" /\ T8140 => Adopt \in Range(b.chosen)

\* A chain-loaded image is copied over nothing that is still needed: its own source with the stub that
\* copies it, a firmware block that was parked, and write-protected memory; and the firmware block is
\* below what the next stage takes for free memory
SpansDisjoint ==
    b.entry = "stub" =>
       LET At(name) == (CHOOSE s \in b.spans : s.name = name).at
       IN  /\ ~Overlap(At("dest"), At("source"))
           /\ ~Overlap(At("firmware"), At("source"))
           /\ Overlap(At("dest"), At("firmware")) => At("firmware")[2] = At("dest")[2]
           /\ mach.ro # <<>> => ~Overlap(At("dest"), mach.ro) /\ ~Overlap(At("firmware"), mach.ro)
           /\ At("kept")[2] >= At("firmware")[2]
=============================================================================
