SPECIFICATION Spec
CONSTANTS
    urcb = urcb
    brcb = brcb
    gateway = gateway
    Me = Me
    NoOne = NoOne
    RCBs = {urcb, brcb}
    Buffered = {brcb}
    Others = {}
    TakeoverAllowed = FALSE
    Expert = FALSE
    Faults = {"loss", "interrupt", "refused", "lost-reply", "ignored-release"}
INVARIANTS NothingUnrecorded UndoneInOrder
PROPERTIES LedgerSpec RestoresWhatItFound
