---------------------------- MODULE KbootDisplay ----------------------------
(***************************************************************************)
(* The hand-over of the live display of the T8140 to the kernel:           *)
(* dt_set_display_t8140() of src/kboot.c and what it calls.                *)
(*                                                                         *)
(* Either the display coprocessor (dcp) with its panel (disp0) is handed   *)
(* over, claimed in /chosen, with every region its firmware uses reserved  *)
(* and mapped; or the whole display is disabled.  The external             *)
(* coprocessor (dcpext) is optional: it is handed over with all it depends *)
(* on, or withdrawn.  Snapshots of the tree undo what fails halfway.       *)
(***************************************************************************)
EXTENDS KbootDevices

Claim == <<Chosen, "dcp-rtkit-quiesced">>
ExternalRegions == <<"ext-firmware", "dcpext0_data", "region74", "region234">>

\* Nodes: the internal group, and the external one with the power domain of the controller
Internal == {"dcp", "disp0", "dcp_dart", "disp0_dart"}
External == {"dcpext", "dcpext_dart", "dispext_dart", "dcpext_mbox", "dispext_power"}
ExternalOrder == <<"dcpext_dart", "dispext_dart", "dcpext_mbox", "piodma", "dcpext", "dispext_power">>

DisableAll(t, list) == ForEach(t, list, LAMBDA u, n : SetStatus(u, n, "disabled"))

\* Masters (display-subsystem nodes) that list the scanout DART of the external controller; which one that is
\* only its node piodma says
Listing(t) == IF Has(t, Fdt("piodma")) THEN t.dt.scan ELSE {}

\* dt_t8140_refusal_preflight: nothing is edited before the graph is known to be what the aliases say.
\* The alias dispext0 must name a master that lists the external scanout DART.
Preflight(t) ==
    IF Has(t, Fdt("graph")) /\ (t.has_dispext0 => "dispext0" \in Listing(t)) THEN {Ok(t)} ELSE {Err(t)}

\* dt_t8140_withdraw_external_scanout: a specifier of two cells leaves each master that lists the DART, once the
\* tree is saved
Withdraw(t) ==
    IF Listing(t) = {} THEN {Ok(t)}
    ELSE IF ~Has(t, Sys("malloc-withdraw")) THEN {Err(t)}
    ELSE {Ok([t EXCEPT !.dt.scan = {}, !.dt.room = @ + 2 * Cardinality(Listing(t))])}

\* dt_t8140_power_paths: the chain of power domains of the external controller
PowerPaths == <<"dispext_power">>
dt_t8140_disable_refs(t, providers) == DisableAll(t, providers)
dt_t8140_disable_typec_routes(t) == SetStatus(t, "routes", "disabled")
dt_t8140_disable_dcpext(t) ==
    Then(Preflight(t), LAMBDA a :
    IF ~a.has_ext THEN {Ok(a)}
    ELSE Then(Withdraw(a), LAMBDA b :
         Then(DisableAll(b, <<"dcpext">> \o (IF b.has_dispext0 THEN <<"dispext0">> ELSE <<>>) \o PowerPaths), LAMBDA c :
         Then(dt_t8140_disable_refs(c, (IF Has(c, Fdt("piodma")) THEN <<"dispext_dart">> ELSE <<>>) \o <<"dcpext_dart", "dcpext_mbox">>),
              dt_t8140_disable_typec_routes))))

dt_t8140_refuse_display(t) ==
    Then(Preflight(t), LAMBDA a :
    Then(Do(a, Must(<<Fdt("chosen")>>)), LAMBDA b :
    Then(dt_t8140_disable_dcpext(b), LAMBDA c :
    Then(dt_t8140_disable_refs(DelProp(c, Claim[1], Claim[2]), <<"disp0_dart", "dcp_dart", "dcp_mbox">>), LAMBDA d :
    DisableAll(d, <<"dcp", "disp0">>)))))

\* dt_t8140_enable_consumer: the IOMMU, then the node
EnableConsumer(t, n, dart) == Do(t, Must(<<Fdt(n)>>) \o << <<"put", dart, "okay">>, <<"put", n, "okay">> >>)

\* dt_t8140_enable_external: the whole dependency group, or the tree as it was
dt_t8140_enable_external(t) ==
    OrElse(Then(Do(t, Must(<<Fdt("piodma"), Fdt("ext-power"), Sys("malloc-group")>>)), LAMBDA a :
           ForEach(a, ExternalOrder, LAMBDA u, n : SetStatus(u, n, "okay"))), LAMBDA v : {Ok(Restore(v, t))})

\* A carve-out, checked against the extent of the RAM; the data regions are published in two parts, since
\* their tail is mapped apart
dt_t8140_reserve_carveout(t, n, r) == Then(Do(t, Must(<<Adt(r)>>)), LAMBDA a : dt_add_reserved_regions(a, n, FALSE, <<r>>))
DataTail == [dcp_data |-> "dcp_data_tail", dcpext0_data |-> "dcpext0_data_tail"]
dt_t8140_reserve_data(t, n, r) ==
    Then(Do(t, Must(<<Adt(r), Adt("nub-segments")>>)), LAMBDA a : dt_add_reserved_regions(a, n, FALSE, <<r, DataTail[r]>>))
ReserveRegion(t, n, r) == IF r \in DOMAIN DataTail THEN dt_t8140_reserve_data(t, n, r) ELSE dt_t8140_reserve_carveout(t, n, r)

\* The regions of the internal display, with its firmware properties
ReserveInternal(t) ==
    Then(dt_vram_reserved_region(t), LAMBDA a :
    Then(dt_set_dcp_firmware(a, "dcp"), LAMBDA b :
    ForEach(b, InternalRegions, LAMBDA u, r : ReserveRegion(u, "dcp", r))))

\* The external controller is validated when it has power; on failure its part of the tree is undone
ReserveExternal(t) ==
    IF ~t.has_ext \/ ~t.hw.power THEN {Err(t)}
    ELSE OrElse(Then(dt_set_dcp_firmware(t, "dcpext"), LAMBDA a :
                Then(ForEach(a, ExternalRegions, LAMBDA u, r : ReserveRegion(u, "dcpext", r)), LAMBDA b :
                IF b.hw.ext THEN {Ok(b)} ELSE {Err(b)})), LAMBDA v : {Ok(Restore(v, t))})

\* Once both are validated: enable, withdraw the external one if it is not ready, claim
Publish(t, ext_ready) ==
    Then(EnableConsumer(t, "dcp", "dcp_dart"), LAMBDA a :
    Then(EnableConsumer(a, "disp0", "disp0_dart"), LAMBDA b :
    Then(IF ext_ready THEN Or(dt_t8140_enable_external(b), dt_t8140_disable_dcpext)
                      ELSE dt_t8140_disable_dcpext(b), LAMBDA c :
    Then(IF c.has_dispext0 THEN SetStatus(c, "dispext0", "disabled") ELSE {Ok(c)}, LAMBDA d :
    Do(d, Set(Claim[1], <<Claim[2]>>) \o Try(Chosen, <<"ext-preflight">>))))))

Rollback(t, saved) == dt_t8140_refuse_display(Restore(t, saved))

\* What is known of the external display, for diagnosis
dt_t8140_external_metadata(t) == Do(t, Try(Chosen, <<"ext-metadata">>))
\* Two descriptions of the framebuffer agree, and there is a display to hand over
DisplayPreflight(t) ==
    Do(t, Must(<<Adt("vram"), Sys("video"), Adt("chosen"), Adt("dram"), Adt("region14"), Adt("dcp-nub"), Fdt("dcp"), Fdt("disp0"),
                 Sys("malloc")>>))
dt_set_display_t8140(t) ==
    Then(dt_t8140_external_metadata(t), LAMBDA saved :
    Or(Then(DisplayPreflight(saved), LAMBDA a :
       Then(ReserveInternal(a), LAMBDA b :
       Then(IF b.hw.dcp /\ Has(b, Sys("malloc-ext")) THEN {Ok(b)} ELSE {Err(b)}, LAMBDA c :
       UNION {Publish(o.s, o.ok) : o \in ReserveExternal(c)}))), LAMBDA v : Rollback(v, saved)))

dt_set_display(t) == IF T8140(t) THEN dt_set_display_t8140(t) ELSE dt_set_display_carveouts(t)
=============================================================================
