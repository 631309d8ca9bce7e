SPECIFICATION Spec
CONSTANTS
    direct = direct
    sbo = sbo
    directE = directE
    sboE = sboE
    station = station
    remote = remote
    Nothing = Nothing
    Objects = {sboE, directE, direct}
    Model <- MCModel
    Cats = {station, remote}
    ProbeCats <- TwoCats
    Modulus = 4
    Faults = {"loss"}
INVARIANTS NoSecondSelect SelectionsKnown EveryControlLogged CancelCarriesSelectOrigin
PROPERTIES VerdictIsTrue
