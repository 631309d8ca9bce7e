SPECIFICATION Spec
CONSTANTS
    direct = direct
    sbo = sbo
    directE = directE
    sboE = sboE
    station = station
    remote = remote
    Nothing = Nothing
    Objects = {sboE}
    Model <- MCModel
    Cats = {station}
    ProbeCats <- OneCat
    Modulus = 2
    Faults = {"loss", "loss-in-probe", "loss-in-readback", "lost-reply", "cancel-refused", "slow-termination", "slow-error", "wrap", "touch-selected", "interrupt"}
PROPERTIES CommandEnds
