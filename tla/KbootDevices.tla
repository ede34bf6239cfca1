---------------------------- MODULE KbootDevices ----------------------------
(***************************************************************************)
(* What kboot_prepare_dt() of src/kboot.c writes for each device, in the   *)
(* language of KbootTree: one definition for each dt_* function, with what *)
(* it looks up, what it writes, in which order, and which failures it      *)
(* passes on.  Only the display of the T8140 is elsewhere (KbootDisplay).  *)
(***************************************************************************)
EXTENDS KbootTree

T8140(t) == t.chip = "t8140"
Chosen == "chosen"

\* get_notchless_fb only changes the values written
dt_set_fb(t) ==
    IF ~Has(t, Sys("video")) \/ ~Has(t, Fdt("framebuffer")) THEN {Ok(t)}
    ELSE Then(Do(t, Set("framebuffer", <<"reg", "name", "width", "height", "stride">>)),
              LAMBDA a : IF ~Has(t, Sys("depth")) THEN {Ok(a)}
                         ELSE Then(Do(a, Set("framebuffer", <<"format">>)),
                                   LAMBDA b : Do(DelStatus(b, "framebuffer"), Try("dcp", <<"notch-height">>))))

Seeds == <<"kaslr-seed", "rng-seed">>
dt_set_rng_seed_adt(t) == Do(t, Must(<<Adt("chosen")>>) \o Need(<<Adt("random-seed")>>) \o Set(Chosen, Seeds))
dt_set_rng_seed_sep(t) == Do(t, Must(<<Sys("sep")>>) \o Set(Chosen, Seeds))
dt_set_wfx_args(t) == Do(t, Set(Chosen, <<"bootargs">>))

dt_set_chosen(t) ==
    Then(Do(t, Must(<<Fdt("chosen")>>) \o Set(Chosen, <<"params">>)), LAMBDA a :
    Then(IF T8140(a) THEN dt_set_wfx_args(a) ELSE {Ok(a)}, LAMBDA b :
    Then(IF Has(b, Sys("initrd")) THEN Do(b, Set(Chosen, <<"initrd-start", "initrd-end">>) \o Reserve(<<"initrd">>)) ELSE {Ok(b)}, LAMBDA c :
    Then(dt_set_fb(c), LAMBDA d :
    Then(Do(d, Set(Chosen, <<"fw-versions">>) \o Try(Chosen, <<"preboot-uuid">>)), LAMBDA e :
    IF e.chip = "t8103"                                 \* the SEP is not warm
    THEN Or(dt_set_rng_seed_sep(e), dt_set_rng_seed_adt)
    ELSE dt_set_rng_seed_adt(e))))))

dt_set_speaker_safety(t) ==
    Do([t EXCEPT !.dt.props = {x \in @ : x[1] # "speaker"}],
       Must(<<Fdt("chosen")>>) \o
       IF T8140(t) THEN Need(<<Adt("audio")>>) \o Must(<<Adt("speaker-profile")>>) \o Set("speaker", <<"node", "policy", "limits">>)
                   ELSE <<>>)

dt_set_uboot_config(t) == Do(t, Need(<<Sys("uboot-config")>>) \o Set("config", <<"node", "params">>))
dt_set_serial_number(t) == Do(t, Set("/", <<"serial-number">>))
dt_set_smbios(t) == Do(t, Set("smbios", <<"node">>) \o Try("smbios", <<"compatible">>) \o Must(<<Adt("model")>>) \o
                          Set("smbios", <<"baseboard">>) \o Must(<<Adt("target-type")>>) \o Try("smbios", <<"product">>) \o
                          Set("smbios", <<"chassis">>) \o Try("smbios", <<"chassis-type">>))

\* The CPUs that did not start go, from the list, the interrupt affinities and the CPU map, where
\* a cluster that is left empty goes too
Dead(t) == t.template.cpus \ (t.alive \cup {"boot"})
PruneCpus(t) == Then(Do(t, Must(<<Fdt("cpus"), Sys("mpidr")>>)), LAMBDA a : {Ok([a EXCEPT !.dt.cpus = @ \ Dead(t)])})
PruneAffinities(t) ==
    Then(Do(t, Must(<<Fdt("aic")>>)), LAMBDA a : {Ok(IF Has(a, Fdt("affinities")) THEN [a EXCEPT !.dt.aff = @ \ Dead(t)] ELSE a)})
PruneMap(t) ==
    {Ok(IF Has(t, Fdt("cpu-map"))
        THEN [t EXCEPT !.dt.map = SelectSeq([i \in DOMAIN @ |-> @[i] \ Dead(t)], LAMBDA c : c # {})] ELSE t)}
dt_set_cpus(t) == Then(PruneCpus(t), LAMBDA a : Then(PruneAffinities(a), PruneMap))

dt_set_mac_addresses(t) ==
    Do(t, Must(<<Adt("chosen")>>) \o Need(<<Adt("mac")>>) \o Set("wifi", <<"mac">>) \o
          IF T8140(t) THEN Set(Chosen, <<"wifi-mac">>) ELSE <<>>)
dt_set_wifi(t) == IF T8140(t) THEN {Ok(t)}
                  ELSE Do(t, Need(<<Adt("wlan")>>) \o Must(<<Adt("sku-info")>>) \o Try("wifi", <<"sku", "cal">>))
dt_set_bluetooth(t) == IF T8140(t) THEN {Ok(t)} ELSE Do(t, Need(<<Adt("bluetooth")>>) \o Try("bluetooth", <<"cal">>))
dt_set_uboot(t) == Do(t, Need(<<Fdt("serial0")>>) \o Try("serial", <<"pre-reloc">>) \o Try("pmgr", <<"pre-reloc">>))

-----------------------------------------------------------------------------
(* Tunables: a node has all of them or none; a node that fails does not    *)
(* fail the boot, nor keep another from its own.                           *)

AtcProps == <<"common-a", "common-b", "lane0", "lane1", "common">>
DpProps == <<"dp-pre", "dp-lpdptx", "dp-post", "dp-training">>
\* The tables of which one property of a USB4 node is made, each appended to it
RcProps == <<"top", "hbw", "lbw">>
AdapterProps == <<"pcie-adapter">>
NhiProps == <<"tx-desc", "merge", "int-ctl">>
PciecProps == <<"port", "debug", "fabric", "pcie-rc">>

Clear(t, n, ps) == FoldLeft(LAMBDA u, p : DelProp(u, n, p), t, ps)

\* The J700 has lists for DisplayPort: all are prepared before the first is written
PrepareGroups(t) == Do(t, Must(<<Adt("atc-groups"), Sys("malloc-group")>>))
ExportAxi(t) == Or(Do(t, Must(<<Adt("axi2af")>>) \o Set("atc", <<"axi2af">>)), LAMBDA u : {Ok(Clear(u, "atc", <<"axi2af">>))})
ExportDp(t) == Or(Then(PrepareGroups(t), LAMBDA a : Do(a, Set("atc", DpProps))), LAMBDA u : {Ok(Clear(u, "atc", DpProps))})
dt_export_j700_atc(t) == IF T8140(t) THEN Then(ExportAxi(t), ExportDp) ELSE {Ok(t)}

\* A port that no entry of the list of fuses is for goes without the property
dt_append_fuses(t) == Do(t, Need(<<Sys("fuses")>>) \o Set("atc", <<"common-a">>))
dt_append_atc_tunables(t) ==
    Do(t, (IF T8140(t) THEN <<>> ELSE Set("atc", <<"axi2af">>)) \o Set("atc", <<"common-b", "lane0">>) \o
          Must(<<Adt("atc-tunables")>>) \o Set("atc", <<"lane1">>))
dt_copy_atc_tunables(t) ==
    IF ~Has(t, Adt("atc")) THEN {Ok(t)}
    ELSE Or(Then(dt_append_fuses(t), LAMBDA a :
            Then(dt_append_atc_tunables(a), LAMBDA b : Do(b, Must(<<Sys("malloc")>>) \o Set("atc", <<"common">>)))),
            LAMBDA u : {Ok(Clear(u, "atc", AtcProps \o <<"axi2af">>))})
kboot_setup_atc(t) == IF Has(t, Fdt("atcphy")) THEN Then(dt_export_j700_atc(t), dt_copy_atc_tunables) ELSE {Ok(t)}

\* The tunables ps of node n are copied, the last from what fact f stands for
dt_append_acio_tunables(t, n, ps, f) ==
    Do(t, SubSeq(Set(n, ps), 1, Len(ps) - 1) \o Must(<<f>>) \o SubSeq(Set(n, ps), Len(ps), Len(ps)))
dt_copy_acio_tunables(t, n, ps, f) ==
    IF ~Has(t, Adt("acio")) \/ ~Has(t, Fdt(n)) THEN {Ok(t)} ELSE Or(dt_append_acio_tunables(t, n, ps, f), LAMBDA u : {Ok(Clear(u, n, ps))})
dt_copy_usb4_drom(t) == Do(t, Need(<<Adt("acio"), Fdt("nhi"), Adt("drom")>>) \o Try("nhi", <<"drom">>))
dt_set_acio_tunables(t) ==
    Then(Do(t, Must(<<Sys("usb4-uuid")>>)), LAMBDA a :
    Then(dt_copy_acio_tunables(a, "rc", RcProps, Adt("rc-tunables")), LAMBDA b :
    Then(dt_copy_acio_tunables(b, "adapter", AdapterProps, Adt("adapter-tunables")), LAMBDA c :
    Then(dt_copy_acio_tunables(c, "nhi", NhiProps, Adt("nhi-tunables")), dt_copy_usb4_drom))))
dt_copy_pciec_tunables(t) ==
    IF ~Has(t, Fdt("pciec")) THEN {Ok(t)}
    ELSE Or(dt_append_acio_tunables(t, "pciec", PciecProps, Adt("pciec-tunables")), LAMBDA u : {Ok(Clear(u, "pciec", PciecProps))})
dt_set_pcie_tunables(t) == dt_copy_pciec_tunables(t)

-----------------------------------------------------------------------------
(* Coprocessors.  Where the code says so, a device that cannot be given    *)
(* all it needs is disabled instead.                                       *)

OrDisable(t, n, A) == Or(A, LAMBDA u : SetStatus(u, n, "disabled"))

\* A node of /reserved-memory, the translation of the region for a device, and the region in the list of the device
dt_get_or_add_reserved_mem(t, r) == Do(t, Must(<<Fdt("reserved-memory")>>) \o Reserve(<<r>>))
dt_device_set_reserved_mem(t, r, n) == Do(t, Set(r, <<n>>))
dt_device_add_mem_region(t, n, r) == Do(t, Set(n, <<r>>))

dt_reserve_asc_firmware(t, n) ==
    IF ~Has(t, Fdt(n)) THEN {Ok(t)}
    ELSE Then(Do(t, Must(<<Adt(n)>>)), LAMBDA a :
         Then(dt_get_or_add_reserved_mem(a, Asc[n]), LAMBDA b :
         Then(dt_device_set_reserved_mem(b, Asc[n], n), LAMBDA c : dt_device_add_mem_region(c, n, Asc[n]))))

dt_set_ave(t) ==
    IF ~T8140(t) \/ ~Has(t, Fdt("ave")) THEN {Ok(t)}
    ELSE OrDisable(t, "ave", Then(Do(t, Must(<<Adt("ave-segments")>>)), LAMBDA a :
                             Then(dt_reserve_asc_firmware(a, "ave"), LAMBDA b : Do(b, Set(Chosen, <<"ave-crc">>)))))

Uat == <<"uat-handoff", "uat-pagetables", "uat-ttbs">>
Regions(rs) == FoldLeft(LAMBDA es, r : es \o << <<"put", r, "okay">>, <<"set", r, "reg">> >>, <<>>, rs)
dt_set_gpu_t8140(t) ==
    IF ~Has(t, Fdt("gpu")) THEN {Ok(t)}
    ELSE OrDisable(t, "gpu", Do(t, Must(<<Adt("sgx"), Fdt("opps"), Adt("gpu-regions")>>) \o Regions(Uat)))
\* The performance states, of which the power table is computed (calc_power), into the operating points
GpuPower(t) == Do(t, Must(<<Adt("sgx"), Sys("gpu-power")>>))
GpuPoints(t) == Do(t, Set("gpu", <<"core-leak", "sram-leak">>) \o Must(<<Fdt("opps")>>))
\* The initial data of the GPU firmware comes from the top of memory; older device trees have no place for it
GpuInitdata(t) ==
    Then(Do(t, << <<"top">>, <<"top">>, <<"top">> >> \o Must(<<Sys("gpu-initdata")>>)), LAMBDA a :
    UNION {IF o.ok THEN Do(o.s, Regions(<<"hw-cal-b", "globals">>) \o Try("gpu", <<"debug">>)) ELSE {Ok(o.s)} :
             o \in Do(a, Must(<<Fdt("hw-cal-a")>>) \o Regions(<<"hw-cal-a">>))})
dt_set_gpu(t) ==
    IF T8140(t) THEN dt_set_gpu_t8140(t)
    ELSE IF ~Has(t, Fdt("gpu")) \/ t.chip \notin {"t8103", "t8112"} THEN {Ok(t)}
    ELSE Then(GpuPower(t), LAMBDA a : Then(GpuPoints(a), LAMBDA b :
         Then(Do(b, Must(<<Adt("gpu-regions")>>) \o Regions(Uat) \o Set("gpu", <<"fw-version", "fw-compat">>) \o Try("gpu", <<"abi">>)),
              GpuInitdata)))

dt_set_multitouch(t) == Do(t, Need(<<Fdt("touchbar")>>) \o Must(<<Adt("touchbar")>>) \o Try("touchbar", <<"cal">>))
dt_set_sep(t) == Do(t, Need(<<Fdt("sep")>>) \o Must(<<Adt("sepfw")>>) \o Reserve(<<"sep-firmware">>) \o Set("sep", <<"memory-region">>) \o
                       Need(<<Adt("manifests")>>) \o Try("sep", <<"manifests">>))
dt_set_pmp(t) == Do(t, Need(<<Fdt("pmp")>>) \o Must(<<Adt("pmp")>>) \o Set("pmp", <<"ids", "tunables">>) \o << <<"tryput", "pmp", "okay">> >>)
\* Every failure is let pass, and the device is enabled only after its registers are written
dt_set_nvram(t) == {Ok(o.s) : o \in Do(t, Need(<<Adt("nvram"), Fdt("nvram")>>) \o Set("nvram", <<"reg">>) \o << <<"tryput", "nvram", "okay">> >>)}
dt_set_ipd(t) == Do(t, Must(<<Fdt("chosen")>>) \o Need(<<Adt("ipd")>>) \o Set(Chosen, <<"kblang">>) \o
                       Need(<<Fdt("keyboard")>>) \o Set("keyboard", <<"layout", "country">>))

\* Devices the ADT does not have, with their children; then the suppliers they name, those under /soc and
\* the one that controls the port
Disable(t, ns) == ForEach(t, ns, LAMBDA u, n : IF u.dt.st[n] = "disabled" THEN {Ok(u)} ELSE SetStatus(u, n, "disabled"))
DisablePrimary(t) == Disable(t, <<"usb", "usb-child">>)
DisableSecondary(t) == Then(Disable(t, <<"usb-dart", "usb-phy">>), LAMBDA a : Disable(a, <<"usb-pd">>))
dt_disable_missing_devs(t) ==
    Then(Do(t, Must(<<Adt("arm-io"), Fdt("soc")>>)), LAMBDA a :
    IF Has(a, Adt("usb-drd")) THEN {Ok(a)} ELSE Then(DisablePrimary(a), DisableSecondary))
dt_disable_missing_j700_touch_id(t) ==
    IF ~T8140(t) THEN {Ok(t)}
    ELSE Then(Do(t, Must(<<Adt("arm-io")>>)), LAMBDA a :
         IF Has(a, Adt("spi2")) THEN {Ok(a)} ELSE Do(a, << <<"put", "spi2", "disabled">> >>))

\* The firmware data of the SIO, in buffers from the top of memory
sio_setup_fwdata(t) == Do(t, << <<"top">> >> \o Must(<<Adt("sio-data")>>))
\* A failure to append the parameters is lost: the function ends with "return 0" after its label err
dt_set_sio_fwdata(t) ==
    Then(Do(t, Set("sio", <<"phandle">>)), LAMBDA a :
    Then(sio_setup_fwdata(a), LAMBDA b :
    Then(dt_get_or_add_reserved_mem(b, "sio-data"), LAMBDA c :
    Then(dt_device_set_reserved_mem(c, "sio-data", "sio"), LAMBDA d :
    Then(dt_device_add_mem_region(d, "sio", "sio-data"), LAMBDA e : {Ok(o.s) : o \in Do(e, Set("sio", <<"params">>))})))))
\* Neither failure ends the boot, the node just stays as it was
dt_setup_sio(t) ==
    IF ~Has(t, Fdt("sio")) THEN {Ok(t)}
    ELSE {Ok(o.s) : o \in Then(dt_reserve_asc_firmware(t, "sio"), LAMBDA a :
                          Then(dt_set_sio_fwdata(a), LAMBDA b : Do(b, << <<"tryput", "sio", "okay">> >>)))}

\* isp_init: the heap of the camera comes from the top of memory
isp_init(t) == IF Has(t, Sys("isp")) THEN [TopAlloc(t) EXCEPT !.isp_heap = TRUE] ELSE [t EXCEPT !.isp_heap = FALSE]
dt_set_isp_fwdata(t) ==
    IF ~Has(t, Fdt("isp")) THEN {Ok(t)}
    ELSE Then(Do(t, Set("isp", <<"fw-version", "fw-compat">>)), LAMBDA a :
         IF a.isp_heap THEN Do(a, Set("isp", <<"phandle">>) \o Reserve(<<"isp-heap">>))
         ELSE SetStatus(a, "isp", "disabled"))
dt_isp(t) == Then(IF T8140(t) /\ ~t.isp_heap THEN {Ok(t)} ELSE dt_reserve_asc_firmware(t, "isp"), dt_set_isp_fwdata)

dt_transfer_virtios(t) == Do(t, Must(<<Adt("arm-io"), Fdt("aic")>>) \o Need(<<Adt("virtio")>>) \o Set("virtio", <<"node", "reg", "irq">>))

-----------------------------------------------------------------------------
(* The display of the other chips                                          *)

InternalRegions == <<"asc-firmware", "dcp_data", "region57", "region94", "region95", "region233">>
dt_set_dcp_firmware(t, n) == Do(t, Set(n, <<"fw-version", "fw-compat">>))

\* The translation found in the tables of the DART: without one the T8140 gives up, the others go on
dt_device_set_reserved_mem_from_dart(t, r, n) ==
    IF Has(t, Dart(r)) THEN dt_device_set_reserved_mem(t, r, n)
    ELSE IF T8140(t) THEN {Err(t)} ELSE {Ok(t)}
EnableDisplay(t, n, disp) ==
    IF T8140(t) THEN {Ok(t)}
    ELSE Do(t, (IF disp THEN << <<"put", "disp0_dart", "okay">> >> ELSE <<>>) \o << <<"put", n, "okay">> >>)
dt_add_reserved_regions(t, n, disp, rs) ==
    IF ~Has(t, Fdt(n)) \/ (disp /\ ~Has(t, Fdt("disp0"))) THEN IF T8140(t) THEN {Err(t)} ELSE {Ok(t)}
    ELSE Then(Do(t, Must(<<Dart(n)>>)), LAMBDA a :
         Then(ForEach(a, rs, LAMBDA u, r :
                  Then(dt_get_or_add_reserved_mem(u, r), LAMBDA v :
                  Then(dt_device_set_reserved_mem_from_dart(v, r, n), LAMBDA w : dt_device_add_mem_region(w, n, r)))), LAMBDA b :
         EnableDisplay(b, n, disp)))
\* Every region is looked up before the tree is touched
dt_carveout_reserved_regions(t, n, disp, rs) ==
    IF ~Has(t, Fdt(n)) THEN {Ok(t)}
    ELSE Then(dt_set_dcp_firmware(t, n), LAMBDA a :
         Then(Do(a, Must([i \in DOMAIN rs |-> Adt(rs[i])])), LAMBDA b : dt_add_reserved_regions(b, n, disp, rs)))
dt_vram_reserved_region(t) ==
    IF ~Has(t, Fdt("dcp")) THEN {Ok(t)}
    ELSE Then(Do(t, Must(<<Adt("vram")>>)), LAMBDA a : dt_add_reserved_regions(a, "dcp", TRUE, <<"vram">>))

\* A controller without firmware properties is skipped, one that cannot be reserved ends the loop; neither is an
\* error, and a controller is enabled only once all it needs is there
dt_reserve_dcpext_firmware(t) ==
    {Ok(o.s) : o \in IF ~Has(t, Fdt("dcpext")) \/ ~Has(t, Adt("dcpext")) THEN {Ok(t)}
                     ELSE Then(dt_reserve_asc_firmware(t, "dcpext"), LAMBDA a :
                          Then(dt_set_dcp_firmware(a, "dcpext"), LAMBDA b : Do(b, << <<"put", "dcpext", "okay">> >>)))}
dt_reserve_m5_display_segments(t) ==
    Do(t, Must(<<Adt("dcp-nub"), Dart("segments")>>) \o Reserve(<<"segments">>) \o Set("dcp", <<"segments">>))
dt_set_display_carveouts(t) ==
    Then(dt_carveout_reserved_regions(t, "dcp", TRUE, InternalRegions), LAMBDA a :
    Then(IF a.chip = "t8103" THEN dt_carveout_reserved_regions(a, "dcpext", FALSE, <<"dcpext0_data">>) ELSE {Ok(a)}, LAMBDA b :
    Then(IF b.chip = "t8112" THEN dt_reserve_dcpext_firmware(b) ELSE {Ok(b)}, LAMBDA c :
    Then(dt_vram_reserved_region(c), LAMBDA d : IF d.chip = "t8142" THEN dt_reserve_m5_display_segments(d) ELSE {Ok(d)}))))
=============================================================================
