CONSTANTS
    Docs <- MCDocs
    Target <- MCTarget
    Slots = {s1, s2}
    MaxRenders = 2
SPECIFICATION Spec
INVARIANTS
    NothingLeaks
    NotesFound
    TocComplete
    SamePage
SYMMETRY SlotSymmetry
CHECK_DEADLOCK FALSE
