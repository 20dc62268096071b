SPECIFICATION Spec
CONSTANTS
    Connections = {"tls"}
    DohRequests = {}
    Hostnames = {"h1"}
    Endpoint <- MCEndpoint
    Names = {"pair", "site", "cdn"}
    PairingName = "pair"
    Malformed = "malformed"
    ProfileIDs = {"ana", "bia"}
    Categories = {"social"}
    Uncategorized = ""
    Unmatched = ""
    Profiles <- MCProfiles
    NoProfile = NoProfile
    AliasSets <- MCAliasSets
    LastInstant = 1
    MaxEvents = 2
INVARIANTS
    NothingBlockedIsForwarded
    EventTellsAnswer
PROPERTIES
    EveryMessageEnds
