SPECIFICATION Spec
CONSTANTS
    DayLength = 3
    MidnightMinutes = 1
    Labels = {"example", "www"}
    MaxLabels = 3
    MaxEntries = 2
    MaxSchedules = 2
    DaySets <- MCDaySets
INVARIANTS
    MostSpecificWins
    BrowserAgreesWithDns
    ActiveMatchesOccupied
    OneActiveAtATime
PROPERTIES
    EditsAreLocal
    ClockChangesOnlyItsGroup
    SwitchesOnTime
