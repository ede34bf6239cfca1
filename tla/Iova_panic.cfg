SPECIFICATION Spec
CONSTANTS
    Page = 2
    Section = 4
    Bases = {0, 2, 4}
    Limits = {11, 14}
    Sizes = {1, 2, 3, 6}
    Reserved = {}
INVARIANTS NoPanic
CHECK_DEADLOCK FALSE
