SPECIFICATION MCSpec
CONSTANTS
    Page = 2
    Section = 4
    Bases = {0, 2, 4}
    Limits = {11, 12}
    Sizes = {1, 2, 3, 6}
    Reserved = {0, 5, 8}
INVARIANTS NoOverlap FiltersSound RingsSound PhySound DisplaySound ConsoleSound ProxySound
PROPERTIES FreeListImplements
