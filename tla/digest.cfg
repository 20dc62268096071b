SPECIFICATION Spec
CONSTANTS
    Houses = {"silva", "souza"}
    Profiles = {"ana", "bia"}
    HouseOf <- MCHouseOf
    Interval = 1
    LastInstant = 1
    MaxObserved <- MCMaxObserved
    MaxCrashes = 1
INVARIANTS
    NoObservationToldTwice
    SurvivorsWereInFlight
PROPERTIES
    CadenceKept
    EveryDueHouseIsAttempted
