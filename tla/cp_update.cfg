SPECIFICATION AdminSpec
CONSTANTS
    Requests = {"one", "two", "twice", "thrice"}
    Edits = {}
    Lists <- MCLists
    NoList = ""
    Refused = "refused"
    Normalize <- MCNormalize
    Asks <- MCAsks
    Broken = Broken
    NoConfig = NoConfig
INVARIANTS
    QuiescentAgreement
    ServedIsDurable
    AckedIsKept
    RefusedNeverTakesEffect
PROPERTIES
    ImplementsDurablePolicy
