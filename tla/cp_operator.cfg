SPECIFICATION Spec
CONSTANTS
    Requests = {"one", "thrice"}
    Edits = {"edit"}
    Lists <- MCLists
    NoList = ""
    Refused = "refused"
    Normalize <- MCNormalize
    Asks <- MCAsks
    Broken = Broken
    NoConfig = NoConfig
INVARIANTS
    BrokenFileNeverTakesEffect
    CriticalSectionIsolated

    
