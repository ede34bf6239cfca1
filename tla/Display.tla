------------------------------- MODULE Display ------------------------------
(***************************************************************************)
(* Bringing up the display coprocessor, setting modes and shutting it down *)
(* again: src/display.c over src/dcp.c, src/dcp_iboot.c and the endpoints  *)
(* of src/dcp/.  Every call to the firmware, every allocation and every    *)
(* mapping may fail.  What the session holds is the set held; what each    *)
(* part needs while it is released is Needs.                               *)
(*                                                                         *)
(* Device addresses (DVAs) are numbers, 0 for none; 1 and 2 are found by   *)
(* dart_find_iova, the others come from the IOVA allocator.  Frame buffers *)
(* are numbered too, 0 is the one of the boot firmware; the size 4 is more *)
(* than the reserved address space.                                        *)
(***************************************************************************)
EXTENDS Integers, Sequences, FiniteSets, Outcomes

CONSTANTS
    Machines,       \* the machines: records of kind ("plain", "dptx" with a DisplayPort PHY behind
                    \* HDMI, "t8152" with one behind USB-C), external, and mapped (the boot
                    \* firmware has mapped its frame buffer)
    MaxCalls        \* bound: calls

VARIABLES mach, s, calls
vars == <<mach, s, calls>>

TooBig == 4
Found == 1..2
Dvas == 0..2 + MaxCalls
Darts == {"disp", "dcp"}
NoMap == [pa |-> -1, size |-> 0]
Endpoints == {"dpav_ep", "dptx_ep", "system_ep", "iboot_ep"}
Needs(r) ==
    CASE r \in Endpoints -> {"afk", "rtkit", "iovad", "dart_dcp"}
      [] r = "afk" -> {"rtkit"}
      [] r \in {"rtkit", "unbooted"} -> {"iovad", "dart_dcp"}
      [] r = "iovad" -> {"dart_dcp"}
      [] OTHER -> {}

Init ==
    /\ mach \in Machines
    /\ s = [held |-> {}, bad |-> FALSE, iboot |-> FALSE, phy |-> FALSE,
            map |-> [d \in Darts |-> [v \in Dvas |-> IF v = 1 /\ mach.mapped THEN [pa |-> 0, size |-> 1] ELSE NoMap]],
            iova |-> {}, fb_dva |-> 0, fb_size |-> 1, vram |-> [pa |-> 0, size |-> 1],
            base |-> 0, basesize |-> 1,
            scan |-> IF mach.mapped THEN 1 ELSE 0, scansize |-> 1, remap_failed |-> FALSE,
            neg |-> FALSE, gaveup |-> FALSE, done |-> FALSE,
            null |-> FALSE, foreign |-> {}, crashed |-> FALSE]
    /\ calls = 0

Take(t, r) == {Ok([t EXCEPT !.held = @ \cup {r}]), Err(t)}
Drop(t, r) == [t EXCEPT !.held = @ \ {r}, !.bad = @ \/ r \notin t.held \/ ~(Needs(r) \subseteq t.held)]
\* The IOVA domain is used without a look at whether it was allocated
UseIovad(t) == [t EXCEPT !.crashed = @ \/ t.null]
DropIfHeld(t, r) == IF r \in t.held THEN Drop(t, r) ELSE t
DropAll(t, list) == FoldLeft(Drop, t, list)
Cmd(t) == Maybe(t, t)       \* a call that may fail and changes nothing here

-----------------------------------------------------------------------------
(* The coprocessor                                                         *)

\* An EPIC endpoint with its interface: dcp_ib_init, dcp_dpav_init, dcp_dptx_init, dcp_system_init
StartEndpoint(t, ep) == Then(Take(t, ep), LAMBDA a : OrElse(Cmd(a), LAMBDA b : {Ok(Drop(b, ep))}))

\* afk_epic_shutdown: the endpoints still there go first
AfkShutdown(t) == Drop(FoldLeft(DropIfHeld, t, SetToSeq(Endpoints)), "afk")

\* dcp_hdmi_dptx_init (without RTKIT_SYSLOG, no system endpoint)
HdmiInit(t) ==
    Then(Cmd(t), LAMBDA a :
    Then(Take(a, "phy"), LAMBDA b :
    Then(StartEndpoint([b EXCEPT !.phy = TRUE], "dpav_ep"), LAMBDA c :
    OrElse(StartEndpoint(c, "dptx_ep"), LAMBDA d : {Ok(Drop(d, "dpav_ep"))}))))

\* dcp_init: a ladder of labels.  A session that does not boot is not freed: it stays as "unbooted".
\* The IOVA domain is new, and may be null.
Boot(t) ==
    LET up == [t EXCEPT !.held = @ \cup {"rtkit"}]
    IN  {Ok(up), Err([t EXCEPT !.held = @ \cup {"unbooted"}]), Err(UseIovad([t EXCEPT !.held = @ \cup {"unbooted"}]))}
IovadInit(t) == {Ok([t EXCEPT !.held = @ \cup {"iovad"}, !.null = n, !.iova = {}, !.foreign = {}]) : n \in BOOLEAN}
DcpInit(t) ==
    Then(Take(t, "dart_dcp"), LAMBDA a : OrElse(
    Then(Take(a, "dart_disp"), LAMBDA b : OrElse(
        Then(Then(Then(IovadInit(b), Cmd), Cmd), LAMBDA d :      \* firmware mappings, asc_init
        Then(Then(Cmd(d), Boot), LAMBDA f :                      \* rtkit_init, rtkit_boot
        OrElse(Then(Take(f, "afk"), LAMBDA g :
               OrElse(IF mach.kind = "dptx" THEN HdmiInit(g) ELSE {Ok(g)}, LAMBDA h : {Ok(AfkShutdown(h))})),
               LAMBDA i : {Ok(Drop(i, "rtkit"))}))),
    LAMBDA j : {Ok(DropAll(UseIovad(j), <<"iovad", "dart_disp">>))})),
    LAMBDA k : {Ok(Drop(k, "dart_dcp"))}))

DcpShutdown(t) ==
    LET eps == FoldLeft(DropIfHeld, t, <<"system_ep", "dptx_ep", "dpav_ep">>)
        p == IF eps.phy THEN [Drop(eps, "phy") EXCEPT !.phy = FALSE] ELSE eps
    IN  DropAll(UseIovad(AfkShutdown(p)), <<"rtkit", "dart_disp", "iovad", "dart_dcp">>)

-----------------------------------------------------------------------------
(* Frame buffers                                                           *)

\* dart_find_iova in both DARTs: the lowest address that is free in both
FreeDva(t) ==
    LET free == {v \in Found : \A d \in Darts : t.map[d][v] = NoMap}
    IN  {v \in free : \A w \in free : v <= w}

\* dart_map: refused where something is mapped already, and for want of memory
DartMap(t, d, dva, fb) == {Err(t)} \cup (IF t.map[d][dva] = NoMap THEN {Ok([t EXCEPT !.map[d][dva] = fb])} ELSE {})

\* display_map_fb: the same address in both DARTs, or none.  The address is 0 when it is to be found.
MapAt(t, dva, fb) ==
    Then(DartMap(t, "disp", dva, fb), LAMBDA b :
    OrElse(DartMap(b, "dcp", dva, fb), LAMBDA c : {Ok([c EXCEPT !.map["disp"][dva] = NoMap])}))
MapFb(t, dva, fb) ==
    IF dva # 0 THEN {[o EXCEPT !.s = [dva |-> dva, st |-> o.s]] : o \in MapAt(t, dva, fb)}
    ELSE {Err([dva |-> 0, st |-> t])} \cup
         UNION {{[o EXCEPT !.s = [dva |-> v, st |-> o.s]] : o \in MapAt(t, v, fb)} : v \in FreeDva(t)}

Unmap(t, dva) == [t EXCEPT !.map["disp"][dva] = NoMap, !.map["dcp"][dva] = NoMap]

\* display_swap: a command that is given up may still have been carried out
Swap(t, dva, size) ==
    LET done == [t EXCEPT !.scan = dva, !.scansize = size] IN {Ok(done), Err(done), Err(t)}

\* display_start_dcp looks for the frame buffer of the boot arguments, and maps the one of /vram if it
\* is not there
FindFb(t) ==
    LET known == IF t.vram.pa = t.base THEN t.vram.size ELSE t.basesize
        u == [t EXCEPT !.fb_size = known]
        at == {v \in Dvas \ {0} : t.map["disp"][v].pa = t.base}
    IN  IF at # {} THEN {Ok([u EXCEPT !.fb_dva = CHOOSE v \in at : \A w \in at : v <= w])}
        ELSE {IF m.ok THEN Ok([m.s.st EXCEPT !.fb_dva = m.s.dva]) ELSE Err([m.s.st EXCEPT !.fb_dva = 0]) : m \in MapFb(u, 0, t.vram)}

StartDcp(t) ==
    IF t.iboot THEN {Ok(t)}
    ELSE Then(DcpInit(t), LAMBDA a :
         OrElse(Then(FindFb(a), LAMBDA c :
                Then(StartEndpoint(c, "iboot_ep"), LAMBDA d : {Ok([d EXCEPT !.iboot = TRUE])})),
                LAMBDA e : {Ok(DcpShutdown(e))}))

\* A mode that needs more than there is: the new frame buffer is shown at a temporary address while
\* the old address is mapped anew.
Remap(t, fb) ==
    {IF m.ok THEN Ok([m.s.st EXCEPT !.fb_dva = m.s.dva, !.fb_size = fb.size, !.vram = fb])
     ELSE Err([m.s.st EXCEPT !.fb_dva = 0, !.remap_failed = TRUE]) : m \in MapFb(Unmap(t, t.fb_dva), t.fb_dva, fb)}

\* iova_alloc for the temporary address.  It is 0 when there is none, which nobody looks at: display_map_fb
\* then finds an address by itself, and iova_free will put it into the domain, from which it may come later.
TmpDva(t) ==
    LET fresh == Dvas \ ({0} \cup Found \cup t.iova)
    IN  {[dva |-> 0, st |-> t]} \cup
        {[dva |-> v, st |-> [t EXCEPT !.iova = @ \cup {v}, !.foreign = @ \ {v}]] :
            v \in t.foreign \cup {w \in fresh : \A x \in fresh : w <= x}}
FreeTmp(t, tmp) == [Unmap(t, tmp) EXCEPT !.iova = @ \ {tmp}, !.foreign = @ \cup ({tmp} \cap Found)]
NewFb(t, size) ==
    LET fb == [pa |-> t.vram.pa + 1, size |-> size]
    IN  Then(UNION {{IF m.ok THEN m ELSE Err(m.s.st) : m \in MapFb(a.st, a.dva, fb)} : a \in TmpDva(t)}, LAMBDA m :
        Then(Swap(m.st, m.dva, size), LAMBDA b :
        Then(Remap(b, fb), LAMBDA c : {Ok([dva |-> m.dva, st |-> c])})))

-----------------------------------------------------------------------------
(* display_configure                                                       *)

\* The panel's power is switched on early.  The message says that an error does not matter, but it
\* stays in ret.
EarlyPower(t) == IF mach.external THEN {t} ELSE {[t EXCEPT !.neg = err] : err \in BOOLEAN}

\* Asking for the display's status until it is connected; an error stays in ret
Status(t) ==
    {[st |-> [t EXCEPT !.neg = @ \/ err, !.gaveup = t.neg /\ ~err /\ hpd], hpd |-> hpd] : err \in BOOLEAN, hpd \in BOOLEAN}

\* The swap to the final address; the temporary one is given up after it.  (mutant: before it)
ShowEarly(t, size, tmp) ==
    LET u == IF tmp # 0 THEN FreeTmp(t, tmp) ELSE t
    IN  Then(Swap(u, t.fb_dva, size), LAMBDA d :
        {Ok([d EXCEPT !.base = IF tmp # 0 THEN d.vram.pa ELSE @, !.basesize = size, !.done = TRUE])})
Show(t, size, tmp) ==
    Then(Swap(t, t.fb_dva, size), LAMBDA d :
    LET e == [d EXCEPT !.base = IF tmp # 0 THEN d.vram.pa ELSE @, !.basesize = size, !.done = TRUE]
    IN  {Ok(IF tmp # 0 THEN FreeTmp(e, tmp) ELSE e)})

\* Power, timing modes, colour modes, and the mode, which is tried twice; then the frame buffer
SetMode(t, size) ==
    Then(ForEach(t, <<"power", "timing", "color", "mode">>, LAMBDA a, c : Cmd(a)), LAMBDA b :
    IF size <= b.fb_size THEN Show(b, size, 0)
    ELSE IF size = TooBig THEN {Err(b)}
    ELSE IF b.null THEN {Err(UseIovad(b))}
    ELSE Then(NewFb(b, size), LAMBDA c : Show(c.st, size, c.dva)))

\* display_configure: done tells the result 1 from 0
Configure(t, size) ==
    Then(StartDcp([t EXCEPT !.neg = FALSE, !.gaveup = FALSE, !.done = FALSE]), LAMBDA a :
    Then(IF mach.kind = "dptx" THEN Cmd(a) ELSE {Ok(a)}, LAMBDA b :
    UNION {UNION {IF q.st.neg \/ ~q.hpd THEN {Ok(q.st)} ELSE SetMode(q.st, size) : q \in Status(p)} : p \in EarlyPower(b)}))

\* display_shutdown, quiescing or with sleep
Shutdown(t) == IF ~t.iboot THEN t ELSE [DcpShutdown(Drop(t, "iboot_ep")) EXCEPT !.iboot = FALSE]

\* display_init_t8152: the PHY is owned here until the session takes it over, and again on failure
InitT8152(t) ==
    Then(Take(t, "phy"), LAMBDA a :
    Then(OrElse(StartDcp(a), LAMBDA b : {Ok(Drop(b, "phy"))}), LAMBDA c :
    OrElse(Then(StartEndpoint([c EXCEPT !.phy = TRUE], "dpav_ep"), LAMBDA d :
           Then(StartEndpoint(d, "dptx_ep"), LAMBDA e :
           Then(ForEach(e, <<"connect", "work", "hpd", "power">>, LAMBDA f, x : Cmd(f)), LAMBDA g :
           {IF o.s.done THEN o ELSE Err(o.s) : o \in Configure(g, 1)}))),
           LAMBDA h : {Ok(Drop(Shutdown([h EXCEPT !.phy = FALSE]), "phy"))})))

-----------------------------------------------------------------------------

Call(A) ==
    /\ ~s.crashed /\ calls < MaxCalls /\ calls' = calls + 1
    /\ \E o \in A : s' = o.s
    /\ UNCHANGED mach

display_init ==
    /\ calls = 0
    /\ Call(IF mach.kind = "t8152" THEN InitT8152(s) ELSE Configure(s, 1))
\* On request of the proxy
display_configure == \E size \in 1..TooBig : Call(Configure(s, size))
display_shutdown == Call({Ok(Shutdown(s))})

Next == display_init \/ display_configure \/ display_shutdown
Spec == Init /\ [][Next]_vars

-----------------------------------------------------------------------------
(* Properties                                                              *)

\* What the display controller scans out is mapped for it, in both DARTs and in full, whatever fails
\* on the way: the address of the old frame buffer is only unmapped while another one is shown.  (Not
\* after the old address could not be mapped again: display_configure then forgets it and would show
\* address 0 in the next mode that fits.)
ScanoutMapped ==
    s.scan # 0 /\ ~s.remap_failed /\ ~s.crashed =>
       \A d \in Darts : s.map[d][s.scan] # NoMap /\ s.map[d][s.scan].size >= s.scansize

\* Nothing is released twice or after what it needs for its release, and no part of a session outlives
\* the parts below it, but for one: an RTKit session that did not boot, which dcp_init never frees
TeardownOrder ==
    ~s.crashed =>
       /\ ~s.bad
       /\ \A r \in s.held \ {"unbooted"} : Needs(r) \subseteq s.held
       /\ ~s.iboot => s.held \subseteq {"phy", "unbooted"}

\* "failed to set power on (continuing anyway)": an early power error by itself does not keep a
\* connected display from being set up
ContinuesAnyway == ~s.gaveup
=============================================================================
