SPECIFICATION Spec
CONSTANTS
    urcb = urcb
    brcb = brcb
    gateway = gateway
    Me = Me
    NoOne = NoOne
    RCBs = {brcb}
    Buffered = {brcb}
    Others = {gateway}
    TakeoverAllowed = FALSE
    Expert = TRUE
    Faults <- FaultKinds
PROPERTIES ReleasesOnlyItsOwn NewAssociationOwesNothing LossIsSettled UndoingEnds
