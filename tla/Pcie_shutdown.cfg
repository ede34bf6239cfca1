CONSTANTS
    Ports = {0, 1}
    Machines <- MCMachines
    MaxCalls = 2
SPECIFICATION Spec
CHECK_DEADLOCK FALSE
PROPERTIES ShutdownQuiesces
