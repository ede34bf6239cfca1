------------------------------- MODULE Kboot --------------------------------
(***************************************************************************)
(* Starting a kernel: kboot_prepare_dt() and kboot_boot() of src/kboot.c.  *)
(*                                                                         *)
(* The first writes the device tree of the kernel from that of the         *)
(* firmware, the second sets up the hardware that must not wait and names  *)
(* the kernel as the next stage.  Both give up at the first failure that a *)
(* device cannot do without.  Between them the display coprocessors may    *)
(* change state, which the T8140 checks again.                             *)
(***************************************************************************)
EXTENDS KbootDisplay

CONSTANTS
    Machines,       \* the machines: records of chip, ext (it has an external display controller),
                    \* dispext0 (with a master of its own) and shared (disp0 lists its scanout too)
    Flaws,          \* records of what the machine lacks (bad: a set of Fdt(_), Adt(_), Dart(_), Sys(_)) and of
                    \* the free words of the device tree, once opened (room)
    MaxCalls        \* bound: calls of kboot_prepare_dt

VARIABLES
    k,              \* the state of the boot loader, with the tree it edits
    phase,          \* "idle", "prepared", "handoff", "refused"
    calls,          \* calls of kboot_prepare_dt
    fault,          \* the last kboot_boot met a failure outside the display
    again           \* kboot_boot was called once more with a tree it had refused
vars == <<k, phase, calls, fault, again>>

Nodes == Internal \cup External \cup {"dcp_mbox", "dispext0", "piodma", "routes", "framebuffer", "ave", "gpu", "pmp", "nvram", "sio",
          "isp", "spi2", "usb", "usb-child", "usb-dart", "usb-phy", "usb-pd", "pcie", "pcie-dart",
          "uat-handoff", "uat-pagetables", "uat-ttbs", "hw-cal-a", "hw-cal-b", "globals"}
OnInTemplate == {"dcp_mbox", "routes", "ave", "gpu", "isp", "spi2", "usb", "usb-child", "usb-dart", "usb-phy", "usb-pd", "pcie", "pcie-dart"}
RamTop == 20
Cpus == {"boot", "cpu1", "cpu2"}

\* The tree as the kernel's package brings it: fdt_open_into() with room for modifications
Template(m, room) ==
    [st |-> [n \in Nodes |-> IF n \in OnInTemplate THEN "none" ELSE "disabled"], props |-> {}, resv |-> {},
     scan |-> (IF m.shared THEN {"disp0"} ELSE {}) \cup (IF m.dispext0 THEN {"dispext0"} ELSE {}),
     room |-> room, mem |-> RamTop, extra |-> {}, cpus |-> Cpus, aff |-> Cpus, map |-> <<{"boot", "cpu1"}, {"cpu2"}>>]

\* Only the code for T8140 looks at the state of the coprocessors
Init ==
    /\ \E m \in Machines, f \in Flaws, h \in [dcp : BOOLEAN, ext : BOOLEAN, power : BOOLEAN] :
      /\ m.chip = "t8140" \/ h = [dcp |-> TRUE, ext |-> TRUE, power |-> TRUE]
      /\ k = [chip |-> m.chip, has_ext |-> m.ext, has_dispext0 |-> m.dispext0, bad |-> f.bad, hw |-> h,
              template |-> Template(m, f.room), dt |-> Template(m, f.room), top |-> RamTop, blocks |-> <<>>, log |-> 0,
              alive |-> {"cpu1"}, isp_heap |-> FALSE]
    /\ phase = "idle" /\ calls = 0 /\ fault = FALSE /\ again = FALSE

-----------------------------------------------------------------------------
(* kboot_prepare_dt                                                        *)

\* Memory the kernel must leave alone: the tree, the boot loader with its heap, read-only firmware
ReserveSelf(t) ==
    Then(Do(t, Must(<<Fdt("valid")>>) \o Reserve(<<"dt">>)), LAMBDA a :
    Do(a, IF T8140(a)
          THEN Must(<<Sys("ram-extent")>>) \o Reserve(<<"heap", "image">>) \o Must(<<Sys("fw-ro")>>) \o Reserve(<<"fw-ro-rsv">>) \o
               Must(<<Fdt("reserved-memory")>>) \o Reserve(<<"fw-ro">>)
          ELSE Reserve(<<"image", "ctrr">>)))

\* A node the kernel may map.  The label is written only to a node that is there, and must be then.
Phram(t, n) ==
    LET added == Do(t, Must(<<Fdt("reserved-memory")>>) \o Set(n, <<"node", "reg">>))
    IN UNION {IF o.ok THEN Do(o.s, Set(n, <<"label">>)) ELSE {Ok(o.s)} : o \in added}
\* The ADT and the console log, whose buffer comes from the top of memory; the result is ignored
dt_setup_mtd_phram(t) ==
    {Ok(o.s) : o \in Then(Phram(t, "phram-adt"), LAMBDA a :
                          Phram([TopAlloc(a) EXCEPT !.log = Last(TopAlloc(a).blocks)], "phram-log"))}

\* The usable range, and what is reserved beyond it but to be mapped
dt_set_memory(t) ==
    Do([t EXCEPT !.dt.mem = t.top, !.dt.extra = IF <<"phram-log", "reg">> \in t.dt.props THEN {t.log} ELSE {}],
       Must(<<Adt("chosen"), Fdt("memory")>>) \o Set("memory", <<"reg">>))

\* The devices, in the order in which kboot_prepare_dt sees to them
Identity(t) ==
    Then(Then(Then(Then(Then(dt_set_chosen(t), dt_set_speaker_safety), dt_set_uboot_config),
    dt_set_serial_number), dt_set_smbios), dt_set_cpus)
Links(t) ==
    Then(Then(Then(Then(Then(Then(dt_set_mac_addresses(t), dt_set_wifi), dt_set_bluetooth), dt_set_uboot),
    kboot_setup_atc), dt_set_acio_tunables), dt_set_pcie_tunables)
Coprocessors(t) ==
    Then(Then(Then(Then(Then(Then(Then(dt_set_ave(t), dt_set_display), dt_set_gpu), dt_set_multitouch),
    dt_set_sep), dt_set_pmp), dt_set_nvram), dt_set_ipd)
\* dt_set_pmgr does something on T8012 only
Remaining(t) ==
    Then(Then(Then(Then(dt_disable_missing_devs(t), dt_disable_missing_j700_touch_id), dt_setup_sio), dt_isp),
    dt_transfer_virtios)
Devices(t) == Then(Then(Then(Identity(t), Links), Coprocessors), Remaining)

Prepare(t) ==
    Then(ReserveSelf([isp_init(t) EXCEPT !.dt = t.template]), LAMBDA a :
    Then(dt_setup_mtd_phram(a), LAMBDA b :
    Then(Devices(b), LAMBDA c :
    Then(dt_set_memory(c), LAMBDA d : {Ok(IF T8140(d) THEN d ELSE Pack(d))}))))

kboot_prepare_dt ==
    /\ phase # "handoff" /\ calls < MaxCalls
    /\ \E o \in Prepare(k) : k' = o.s /\ phase' = IF o.ok THEN "prepared" ELSE "idle"
    /\ calls' = calls + 1 /\ again' = FALSE /\ UNCHANGED fault

\* The coprocessors run on their own
HardwareChanges ==
    /\ phase \in {"prepared", "refused"} /\ k.chip = "t8140"
    /\ \E h \in [dcp : BOOLEAN, ext : BOOLEAN, power : BOOLEAN] : h # k.hw /\ k' = [k EXCEPT !.hw = h]
    /\ UNCHANGED <<phase, calls, fault, again>>

-----------------------------------------------------------------------------
(* kboot_boot                                                              *)

dt_disable_t8140_pcie(t) == DisableAll(t, <<"pcie", "pcie-dart">>)

\* The last look at the display before the hand-off
RecheckNothing(t) == {Ok(t)}
Recheck(t) ==
    IF Claim \notin t.dt.props THEN {Ok(t)}
    ELSE IF ~t.hw.dcp
    THEN Then(dt_t8140_refuse_display(t), LAMBDA a : {Ok(Pack(a))})
    ELSE IF t.has_ext /\ t.dt.st["dcpext"] = "okay" /\ ~(t.hw.power /\ t.hw.ext)
    THEN Then(dt_t8140_disable_dcpext(t), LAMBDA a : {Ok(Pack(a))})
    ELSE {Ok(t)}

\* mcc: the memory cache is enabled; pcie: the result of pcie_init(); dapf: the address filters are set
BootT8140(t, mcc, pcie, dapf) ==
    IF ~mcc \/ pcie < 0 THEN {Err(t)}
    ELSE Then(IF pcie > 0 THEN dt_disable_t8140_pcie(t) ELSE {Ok(t)}, LAMBDA a :
         IF dapf THEN Recheck(Pack(a)) ELSE {Err(Pack(a))})

\* Its callers have a tree that kboot_prepare_dt made without an error; a refused one may be tried again
kboot_boot ==
    /\ phase \in {"prepared", "refused"}
    /\ again' = (again \/ phase = "refused")
    /\ \E mcc \in BOOLEAN, pcie \in {-1, 0, 1}, dapf \in BOOLEAN :
         /\ fault' = (~mcc \/ pcie # 0 \/ ~dapf)
         /\ \E o \in IF T8140(k) THEN BootT8140(k, mcc, pcie, dapf) ELSE {Ok(k)} :
              k' = o.s /\ phase' = IF o.ok THEN "handoff" ELSE "refused"
    /\ UNCHANGED calls

Next == kboot_prepare_dt \/ HardwareChanges \/ kboot_boot
Spec == Init /\ [][Next]_vars

-----------------------------------------------------------------------------
(* Properties                                                              *)

On(t, S) == \A n \in S : t.dt.st[n] = "okay"
Off(t, S) == \A n \in S : t.dt.st[n] = "disabled"
Mapped(t, rs, n) == \A i \in DOMAIN rs : rs[i] \in t.dt.resv /\ <<rs[i], n>> \in t.dt.props
HandedOff == phase = "handoff" /\ T8140(k)

\* At the hand-off of a T8140 the claim that the display coprocessor is quiet is there only if the coprocessor passed
\* the last check with its panel, its IOMMUs and every region it uses published, however often kboot_boot was called;
\* without the claim no part of the display is left enabled, unless kboot_boot had already given up on this very tree,
\* with the display half refused.  (dt_set_display_t8140 with its roll-backs, dt_t8140_refuse_display, and the second
\* look in kboot_boot, with failures of any write in between.)
ClaimBacked ==
    HandedOff =>
        IF Claim \in k.dt.props
        THEN k.hw.dcp /\ On(k, Internal) /\ Mapped(k, <<"vram">> \o InternalRegions, "dcp")
        ELSE ~again => Off(k, Internal \cup {"dcp_mbox"}) /\ (k.has_ext => Off(k, External))

\* At the hand-off the external display controller is there with its whole dependency group, its regions and a live
\* coprocessor, or it is off: disabled, and its scanout DART, where the tree names one, listed by no master.  A call of
\* kboot_boot after one that was refused half-way through disabling it is excepted: it finds the node disabled already
\* and does not look again.  Always its regions and firmware properties were published all or not at all, as the
\* snapshots of the tree are there to ensure.
ExternalWhole ==
    (HandedOff /\ k.has_ext) =>
        /\ \/ On(k, External \cup {"piodma"}) /\ k.hw.ext /\ k.hw.power /\ Mapped(k, ExternalRegions, "dcpext")
           \/ Off(k, External) /\ Listing(k) = {}
           \/ again
        /\ (\E x \in k.dt.props : x[1] = "dcpext") => Mapped(k, ExternalRegions, "dcpext")

\* The range of RAM in the tree of a prepared boot ends a guard page below every block taken from the top of memory,
\* whatever was taken while the tree was being prepared; no two blocks are one, and the log buffer is listed apart.
MemoryUpToDate ==
    phase \in {"prepared", "handoff"} =>
        /\ k.dt.mem = k.top
        /\ \A i, j \in DOMAIN k.blocks : k.blocks[i] > k.dt.mem /\ (i # j => k.blocks[i] # k.blocks[j])
        /\ <<"phram-log", "reg">> \in k.dt.props => k.dt.extra = {k.log}

\* A device whose failures do not end the boot is left whole or out: the tunables of a node all or none (those of a
\* type-C PHY that come from fuses only with the others); the NVRAM and the external display of T8112 enabled only with
\* what their drivers need, the SIO only with its two regions (its parameters may be missing: dt_set_sio_fwdata loses
\* that failure); a camera without a heap, a codec or GPU of T8140 without regions disabled.
Tunables == {<<"atc", Tail(AtcProps)>>, <<"atc", DpProps>>, <<"rc", RcProps>>, <<"nhi", NhiProps>>, <<"pciec", PciecProps>>}
WholeOrOut ==
    phase \in {"prepared", "handoff"} =>
        /\ \A x \in Tunables :
             LET there == {p \in Range(x[2]) : <<x[1], p>> \in k.dt.props} IN there \in {{}, Range(x[2])}
        /\ <<"atc", "common-a">> \in k.dt.props => <<"atc", "common">> \in k.dt.props
        /\ k.dt.st["sio"] = "okay" => Mapped(k, <<"sio-asc", "sio-data">>, "sio")
        /\ (T8140(k) /\ Has(k, Fdt("gpu")) /\ k.dt.st["gpu"] # "disabled") =>
             \A i \in DOMAIN Uat : k.dt.st[Uat[i]] = "okay" /\ <<Uat[i], "reg">> \in k.dt.props
        /\ k.dt.st["nvram"] = "okay" => <<"nvram", "reg">> \in k.dt.props
        /\ (Has(k, Fdt("ave")) /\ T8140(k) /\ k.dt.st["ave"] # "disabled") => "ave-asc" \in k.dt.resv /\ <<Chosen, "ave-crc">> \in k.dt.props
        /\ (Has(k, Fdt("isp")) /\ k.dt.st["isp"] # "disabled") => "isp-heap" \in k.dt.resv
        /\ (k.chip = "t8112" /\ k.dt.st["dcpext"] = "okay") => "dcpext-asc" \in k.dt.resv /\ <<"dcpext", "fw-compat">> \in k.dt.props

\* "The internal panel does not depend on the external DCP": when nothing else fails and the internal coprocessor is
\* well, a change of the external one before the hand-off does not stop the boot.
PanelSurvivesExternal ==
    ~(phase = "refused" /\ k.bad = {} /\ k.hw.dcp /\ ~fault)
=============================================================================
