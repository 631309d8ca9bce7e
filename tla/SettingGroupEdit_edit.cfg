SPECIFICATION Spec
CONSTANTS
    pickup = pickup
    delay = delay
    low = low
    high = high
    station = station
    Me = Me
    NoOne = NoOne
    Groups = {1, 2}
    Settings = {pickup, delay}
    Values = {low, high}
    Others = {station}
    Faults <- ToleratedFaults
INVARIANTS OpenEditIsOwed ChangesAreLogged LoggedBeforesAreTrue
PROPERTIES AllOrNothing
