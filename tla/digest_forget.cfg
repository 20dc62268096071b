SPECIFICATION Spec
CONSTANTS
    Houses = {"silva"}
    Profiles = {"ana"}
    HouseOf <- MCHouseOf
    Interval = 1
    LastInstant = 0
    MaxObserved <- MCMaxObserved
    MaxCrashes = 0
INVARIANTS
    NothingSurvivesDeletion
