------------------------------- MODULE MCRtkit ------------------------------
(***************************************************************************)
(* The devices: an NVMe controller behind a SART, a display controller     *)
(* behind a DART with ASCWrap-v8 and a timed boot, the SMC with its own    *)
(* SRAM; one session each with messages the protocol does not call for,    *)
(* or two sessions.                                                        *)
(***************************************************************************)
EXTENDS Rtkit

Device(kind, v8, timed, ver, eps, unasked, sessions) ==
    [kind |-> kind, v8 |-> v8, timed |-> timed, ver |-> ver, eps |-> eps, extra |-> unasked,
     sessions |-> sessions]

MCDevices ==
    {Device("sart", FALSE, FALSE, <<10, 11>>, {"crashlog", "syslog"}, 1, 1),
     Device("dart", TRUE, TRUE, <<11, 13>>, {"debug", "oslog"}, 1, 1),
     Device("dart", FALSE, TRUE, <<12, 12>>, {"crashlog", "oslog"}, 1, 1),
     Device("sart", TRUE, TRUE, <<12, 12>>, {"oslog"}, 0, 1),
     Device("sram", FALSE, FALSE, <<11, 12>>, {"crashlog", "ioreport"}, 1, 1),
     Device("sart", FALSE, TRUE, <<11, 12>>, {"syslog"}, 1, 2),
     Device("dart", FALSE, FALSE, <<10, 11>>, {"crashlog"}, 0, 2),
     Device("dart", FALSE, FALSE, <<13, 14>>, {"syslog"}, 0, 1)}
=============================================================================
