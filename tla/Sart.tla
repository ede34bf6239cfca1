-------------------------------- MODULE Sart --------------------------------
(***************************************************************************)
(* SART, the filter in front of the NVMe coprocessor's DMA, src/sart.c: a  *)
(* small table of regions the device may reach.  Entries that the firmware *)
(* has left in use are protected: the driver works in the others.  The     *)
(* four versions differ in where and how wide the fields of an entry are.  *)
(***************************************************************************)
EXTENDS Integers, Sequences, FiniteSets, Bags, BagsExt

CONSTANTS
    Versions,       \* sart-version of the machines; a version the driver does not know is among them
    MaxEntries,     \* APPLE_SART_MAX_ENTRIES
    Page,           \* 1 << APPLE_SART*_SHIFT
    Addresses, Sizes,   \* what a caller may ask for, aligned or not
    FirmwareTables, \* entries as the firmware leaves them: index |-> region
    MaxSartCalls    \* bound: calls

VARIABLES
    sver,           \* the machine's version
    sdev,           \* sart_dev_t: present, protected_entries
    table,          \* its entries: flags, paddr and size fields, in pages
    granted,        \* since sart_init: the regions callers were told are allowed, a bag, and the entries it found in use
    scalls
sartVars == <<sver, sdev, table, granted, scalls>>

Index == 0..(MaxEntries - 1)
KnownVersion == sver \in {0, 2, 3, 4}
SizeMax == IF sver = 0 THEN 1 ELSE 2         \* APPLE_SART*_SIZE_MAX, in pages
FlagsAllow == IF sver = 0 THEN 15 ELSE 255
Free == [flags |-> 0, paddr |-> 0, size |-> 0]

GetEntry(i) == [flags |-> table[i].flags, paddr |-> table[i].paddr * Page, size |-> table[i].size * Page]

\* sart0/2/3/4_set_entry
SetEntry(i, flags, paddr, size) ==
    IF size % Page # 0 \/ paddr % Page # 0 \/ size \div Page > SizeMax THEN [ok |-> FALSE, table |-> table]
    ELSE [ok |-> TRUE, table |-> [table EXCEPT ![i] = [flags |-> flags, paddr |-> paddr \div Page, size |-> size \div Page]]]

Mine == Index \ sdev.protected
First(S) == CHOOSE i \in S : \A j \in S : i <= j

Init ==
    /\ sver \in Versions
    /\ sdev = [present |-> FALSE, protected |-> {}]
    /\ \E fw \in FirmwareTables : table = [i \in Index |-> IF i \in DOMAIN fw THEN fw[i] ELSE Free]
    /\ granted = [up |-> FALSE, bag |-> EmptyBag, found |-> {}]
    /\ scalls = 0

\* The node, its registers and its version, and memory for the device: any of them may be missing
sart_init ==
    /\ ~sdev.present
    /\ \/ UNCHANGED <<sdev, granted>>
       \/ /\ KnownVersion
          /\ LET on == {i \in Index : GetEntry(i).flags # 0} IN
             /\ sdev' = [present |-> TRUE, protected |-> on]
             /\ granted' = [up |-> TRUE, bag |-> EmptyBag, found |-> {<<i, table[i]>> : i \in on}]
    /\ UNCHANGED table

sart_free ==
    /\ sdev.present
    /\ table' = [i \in Index |-> IF i \in sdev.protected THEN table[i] ELSE Free]
    /\ sdev' = [sdev EXCEPT !.present = FALSE]
    /\ granted' = [granted EXCEPT !.bag = EmptyBag]

\* The first free entry is tried, and no other when it does not take the region
sart_add_allowed_region(paddr, size) ==
    /\ sdev.present
    /\ LET free == {i \in Mine : GetEntry(i).flags = 0}
           r == SetEntry(First(free), FlagsAllow, paddr, size) IN
       IF free = {} THEN UNCHANGED <<table, granted>>
       ELSE /\ table' = r.table
            /\ granted' = IF r.ok THEN [granted EXCEPT !.bag = BagAdd(@, <<paddr, size>>)] ELSE granted
    /\ UNCHANGED sdev

sart_remove_allowed_region(paddr, size) ==
    /\ sdev.present
    /\ LET same == {i \in Mine : LET e == GetEntry(i) IN e.flags # 0 /\ e.paddr = paddr /\ e.size = size} IN
       IF same = {} THEN UNCHANGED <<table, granted>>
       ELSE /\ table' = SetEntry(First(same), 0, 0, 0).table
            /\ granted' = [granted EXCEPT !.bag = BagRemove(@, <<paddr, size>>)]
    /\ UNCHANGED sdev

Next ==
    /\ scalls < MaxSartCalls /\ scalls' = scalls + 1 /\ UNCHANGED sver
    /\ \/ sart_init \/ sart_free
       \/ \E a \in Addresses, z \in Sizes : sart_add_allowed_region(a, z) \/ sart_remove_allowed_region(a, z)
Spec == Init /\ [][Next]_sartVars

-----------------------------------------------------------------------------
(* Properties                                                              *)

\* What the device may reach is what the firmware had allowed when the driver came up, entry by entry, and
\* beside it exactly the regions that callers were told are allowed and have not removed since, each as often
\* as it was granted; after sart_free it is the firmware's regions alone.
TableExact ==
    LET used == {i \in Mine : table[i].flags # 0}
        region(i) == <<table[i].paddr * Page, table[i].size * Page>> IN
    /\ \A x \in granted.found : table[x[1]] = x[2]
    /\ granted.up =>
          granted.bag = [r \in {region(i) : i \in used} |-> Cardinality({i \in used : region(i) = r})]
=============================================================================
