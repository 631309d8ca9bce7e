SPECIFICATION Spec
CONSTANTS
    Modulus = 4
    MaxReports = 5
    MaxMissing = 2
    Faults = {"loss"}
INVARIANTS GapsAreTrue LossIsKnown
PROPERTIES NothingDropped LossEndsDisplay
