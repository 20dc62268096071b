SPECIFICATION Spec
CONSTANTS
    Requests = {"one", "two"}
    Edits = {}
    Lists <- MCLists
    NoList = ""
    Refused = "refused"
    Normalize <- MCNormalize
    Asks <- MCAsks
    Broken = Broken
    NoConfig = NoConfig
INVARIANTS
    ReloadKeepsInSync
