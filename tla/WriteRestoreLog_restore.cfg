SPECIFICATION Spec
CONSTANTS
    setpoint = setpoint
    actsg = actsg
    a = a
    b = b
    Places = {setpoint}
    Unchecked = {}
    Values = {a, b}
    MaxEntries = 8
    MaxWrites = 2
    MaxSessions = 2
    Faults <- ToleratedFaults
CHECK_DEADLOCK FALSE
INVARIANTS LeadsBackToStart
PROPERTIES RestoresAreAStack MarkedIsBack
