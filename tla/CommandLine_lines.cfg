SPECIFICATION Spec
CONSTANTS
    bay = bay
    substation = substation
    station = station
    maintenance = maintenance
    NoDevice = NoDevice
    NoCat = NoCat
    Devices = {bay, substation}
    Cats = {station, maintenance}
    NormalCats = {station}
    Faults <- FaultKinds
INVARIANTS ConsentIsTheOperators OriginAllowed NothingLeftBehind ExitTells
