SPECIFICATION Spec
CONSTANTS
    Devices <- MCDevices
    Depth = 2
INVARIANTS BuffersSafe StatesAgree
PROPERTIES CrashIsFinal CallsReturn LiveIopBoots
