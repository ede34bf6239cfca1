------------------------------ MODULE MCDevices ------------------------------
(***************************************************************************)
(* Devices and what they are given, under model checking, part by part:    *)
(* the IOVA allocator, the filters in front of memory (Dart, Sart), the    *)
(* rings and EPIC commands of AFK, the Type-C PHY, the display, the        *)
(* console and the proxy.  A behaviour is one of one part; the variables   *)
(* of the others do not change.  mach belongs to Dart and to Display.      *)
(***************************************************************************)
EXTENDS Iova, TLC

VARIABLES
    part, mach,
    tab, alloc, hw, dart, flat, ops,
    ver, timed, ap, epic, tx, rx, mem, txbuf, rxbuf, cmd, seen, toFw, toAp, fw, todo, sent, txq, rxq, res, lost,
    phy, port,
    s, calls,
    console_lock, dev_lock, in_iodev, con_buf, con_wp, con_rp, usage, present, pc, dev, length, wrote, event, held,
    total, changes, out, off,
    sver, sdev, table, granted, scalls,
    hook, stream, px, disable_data_csums, wire, lock, tracer, peer, acked, tally

DartMachines ==
    {m \in [type : {"t8020", "t8110", "gen3"}, keep : BOOLEAN, locked : BOOLEAN, provisioned : BOOLEAN, region : BOOLEAN, clobbered : BOOLEAN] :
        /\ m.clobbered => m.provisioned /\ m.region
        /\ m.region => m.provisioned}
DartDev == INSTANCE Dart WITH
        W <- 2, Region <- {2, 3, 4}, Heap <- {5, 6, 7}, Frames <- {11, 12}, Machines <- DartMachines, MaxOps <- 4

AfkDev == INSTANCE Afk WITH
        Blocks <- 4, CmdLen <- 2, Types <- {"a", "b"}, IdMod <- 4, MaxCmds <- 2, MaxJunk <- 1

Atc == INSTANCE AtcPhy WITH ATC_SAVED_MAX <- 8, MaxLost <- 1

DisplayMachine(kind, external, mapped) == [kind |-> kind, external |-> external, mapped |-> mapped]
DisplayMachines ==
    {DisplayMachine("plain", FALSE, TRUE), DisplayMachine("plain", TRUE, FALSE),
     DisplayMachine("dptx", TRUE, TRUE), DisplayMachine("t8152", TRUE, TRUE)}
Disp == INSTANCE Display WITH Machines <- DisplayMachines, MaxCalls <- 3

Con == INSTANCE Console WITH
        CPUs <- {"a", "b"}, D <- 2, Size <- 2, Lengths <- {0, 1, 3}, Toggled <- {1}, Chatty <- {2}, MaxChars <- 5, MaxChanges <- 2

\* Firmware leaves no entry, one in the middle, or one that another driver allowed and one of its own
SartTables ==
    {<<>>, 1 :> [flags |-> 15, paddr |-> 1, size |-> 1],
     (0 :> [flags |-> 1, paddr |-> 2, size |-> 1]) @@ (2 :> [flags |-> 255, paddr |-> 0, size |-> 2])}
Filter == INSTANCE Sart WITH
        Versions <- 0..4, MaxEntries <- 3, Page <- 2, Addresses <- {0, 2, 3}, Sizes <- {0, 1, 2, 4, 6},
        FirmwareTables <- SartTables, MaxSartCalls <- 5

Prx == INSTANCE UartProxy WITH
        Types <- {"nop", "proxy last", "read", "write", "unknown"}, Payload <- 2, MaxSends <- 3,
        MaxFaults <- 1, MaxEvents <- 1

Unused == 0
NoMach == mach = Unused
NoDart == /\ tab = Unused /\ alloc = Unused /\ hw = Unused /\ dart = Unused /\ flat = Unused /\ ops = Unused
NoAfk ==
    /\ ver = Unused /\ timed = Unused /\ ap = Unused /\ epic = Unused /\ tx = Unused /\ rx = Unused /\ mem = Unused
    /\ txbuf = Unused /\ rxbuf = Unused /\ cmd = Unused /\ seen = Unused /\ toFw = Unused /\ toAp = Unused
    /\ fw = Unused /\ todo = Unused /\ sent = Unused /\ txq = Unused /\ rxq = Unused /\ res = Unused /\ lost = Unused
NoAtc == phy = Unused /\ port = Unused
NoDisplay == s = Unused /\ calls = Unused
NoCon ==
    /\ console_lock = Unused /\ dev_lock = Unused /\ in_iodev = Unused /\ con_buf = Unused /\ con_wp = Unused /\ con_rp = Unused
    /\ usage = Unused /\ present = Unused /\ pc = Unused /\ dev = Unused /\ length = Unused /\ wrote = Unused /\ event = Unused
    /\ held = Unused /\ total = Unused /\ changes = Unused /\ out = Unused /\ off = Unused
NoSart == sver = Unused /\ sdev = Unused /\ table = Unused /\ granted = Unused /\ scalls = Unused
NoProxy ==
    /\ hook = Unused /\ stream = Unused /\ px = Unused /\ disable_data_csums = Unused /\ wire = Unused /\ lock = Unused
    /\ tracer = Unused /\ peer = Unused /\ acked = Unused /\ tally = Unused

MCInit ==
    /\ Init
    /\ \/ part = "iova" /\ NoMach /\ NoDart /\ NoAfk /\ NoAtc /\ NoDisplay /\ NoCon /\ NoSart /\ NoProxy
       \/ part = "dart" /\ DartDev!Init /\ NoAfk /\ NoAtc /\ NoDisplay /\ NoCon /\ NoSart /\ NoProxy
       \/ part = "afk" /\ AfkDev!Init /\ NoMach /\ NoDart /\ NoAtc /\ NoDisplay /\ NoCon /\ NoSart /\ NoProxy
       \/ part = "atc" /\ Atc!Init /\ NoMach /\ NoDart /\ NoAfk /\ NoDisplay /\ NoCon /\ NoSart /\ NoProxy
       \/ part = "display" /\ Disp!Init /\ NoDart /\ NoAfk /\ NoAtc /\ NoCon /\ NoSart /\ NoProxy
       \/ part = "console" /\ Con!Init /\ NoMach /\ NoDart /\ NoAfk /\ NoAtc /\ NoDisplay /\ NoSart /\ NoProxy
       \/ part = "sart" /\ Filter!Init /\ NoMach /\ NoDart /\ NoAfk /\ NoAtc /\ NoDisplay /\ NoCon /\ NoProxy
       \/ part = "proxy" /\ Prx!Init /\ NoMach /\ NoDart /\ NoAfk /\ NoAtc /\ NoDisplay /\ NoCon /\ NoSart

dartOwn == <<tab, alloc, hw, dart, flat, ops>>
afkOwn == <<ver, timed, ap, epic, tx, rx, mem, txbuf, rxbuf, cmd, seen, toFw, toAp, fw, todo, sent, txq, rxq, res, lost>>
atcOwn == <<phy, port>>
displayOwn == <<s, calls>>
conOwn == <<console_lock, dev_lock, in_iodev, con_buf, con_wp, con_rp, usage, present, pc, dev, length, wrote, event, held,
            total, changes, out, off>>
sartOwn == <<sver, sdev, table, granted, scalls>>
proxyOwn == <<hook, stream, px, disable_data_csums, wire, lock, tracer, peer, acked, tally>>

IovaStep == part = "iova" /\ Next /\ UNCHANGED <<part, mach, dartOwn, afkOwn, atcOwn, displayOwn, conOwn, sartOwn, proxyOwn>>
DartStep == part = "dart" /\ DartDev!Next /\ UNCHANGED <<part, vars, afkOwn, atcOwn, displayOwn, conOwn, sartOwn, proxyOwn>>
AfkStep == part = "afk" /\ AfkDev!Next /\ UNCHANGED <<part, vars, mach, dartOwn, atcOwn, displayOwn, conOwn, sartOwn, proxyOwn>>
AtcStep == part = "atc" /\ Atc!Next /\ UNCHANGED <<part, vars, mach, dartOwn, afkOwn, displayOwn, conOwn, sartOwn, proxyOwn>>
DisplayStep == part = "display" /\ Disp!Next /\ UNCHANGED <<part, vars, dartOwn, afkOwn, atcOwn, conOwn, sartOwn, proxyOwn>>
ConStep == part = "console" /\ Con!Next /\ UNCHANGED <<part, vars, mach, dartOwn, afkOwn, atcOwn, displayOwn, sartOwn, proxyOwn>>
SartStep == part = "sart" /\ Filter!Next /\ UNCHANGED <<part, vars, mach, dartOwn, afkOwn, atcOwn, displayOwn, conOwn, proxyOwn>>
ProxyStep == part = "proxy" /\ Prx!Next /\ UNCHANGED <<part, vars, mach, dartOwn, afkOwn, atcOwn, displayOwn, conOwn, sartOwn>>
all == <<part, vars, mach, dartOwn, afkOwn, atcOwn, displayOwn, conOwn, sartOwn, proxyOwn>>
\* The calls of these parts are bounded, or may stop for good
Over == part \in {"iova", "dart", "atc", "display", "sart", "proxy"} /\ UNCHANGED all

MCNext == IovaStep \/ DartStep \/ AfkStep \/ AtcStep \/ DisplayStep \/ ConStep \/ SartStep \/ ProxyStep \/ Over
MCSpec == MCInit /\ [][MCNext]_all

-----------------------------------------------------------------------------
(* The properties of each part, for its behaviours                         *)

\* The free list implements the set of free addresses of IovaPages: the formula Implements, for the allocator's
\* own behaviours (iova.c)
FreeListImplements == (part = "iova" => Pages!Init) /\ [][part = "iova" /\ vars' # vars => [Pages!Next]_(Pages!vars)]_all

\* What the DART translates, with what it may have cached, is what dart_map and dart_unmap have returned; its
\* tables belong to it alone, and are freed once; dart_search finds only what is mapped (dart.c).  The SART's table
\* holds what callers were told is allowed and what the firmware left, whole, and nothing else (sart.c)
FiltersSound ==
    /\ part = "dart" => DartDev!TranslationAgrees /\ DartDev!TablesOwned /\ DartDev!SearchExact
    /\ part = "sart" => Filter!TableExact

\* What is written to a ring of AFK is read from it in order, once, and never overwritten before (afk_epic_rx,
\* afk_epic_tx); a command that succeeds returns the answer to that very command, with the result it left in the
\* buffer (afk_epic_command)
RingsSound == part = "afk" => AfkDev!RingsFifo /\ AfkDev!ReplyMatches

\* A PHY that is not active is as it was found, but for parts whose own restoration failed, and while it is
\* active what it changed is saved, through every failure on the way (atc_phy.c, dptx_port_ep.c)
PhySound == part = "atc" => Atc!HandedBack /\ Atc!OwnershipNested

\* What the display controller scans out is mapped for it, and its parts are taken down in an order in which none
\* is used after it is gone (display.c, dcp.c)
DisplaySound == part = "display" => Disp!ScanoutMapped /\ Disp!TeardownOrder

\* Every console device outputs what was printed in order, and loses only what the ring had to drop (iodev.c)
ConsoleSound == part = "console" => Con!ConsoleSound

\* A write that the proxy acknowledges has put into memory what the host sent with it, whatever was lost on the
\* line, and no frame of a reply or an event is torn by another (uartproxy.c)
ProxySound == part = "proxy" => Prx!WritesWhole /\ Prx!FramesWhole
=============================================================================
