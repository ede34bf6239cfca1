SPECIFICATION MCSpec
CONSTANTS
    Machines <- KbootMachines
    Flaws <- KbootFlaws
    MaxCalls = 1
INVARIANTS QueuesSafe ReadsCorrect HandoffSound TreeSound UsbSound PowerSound OwnTablesSound
PROPERTIES PreservedUntouched PcieSound
