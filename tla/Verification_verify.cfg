CONSTANTS
    None = None
    Dotted <- MCDotted
    Files <- MCFiles
    Subject = "A"
    Inventories <- MCInventories
    Touched <- MCTouched
    Interactive = TRUE
    MaxCommands = 4
SPECIFICATION Spec
CHECK_DEADLOCK FALSE
INVARIANTS EveryClientHasItsInstance ResolvedMembersAreServed  SnapshotTellsThemApart
