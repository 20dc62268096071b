SPECIFICATION Spec
CONSTANTS
    Connections = {"tls"}
    DohRequests = {"https"}
    Hostnames = {"h1"}
    Endpoint <- MCEndpoint
    Names = {"pair", "site", "cdn"}
    PairingName = "pair"
    Malformed = "malformed"
    ProfileIDs = {"ana", "bia"}
    Categories = {"social"}
    Uncategorized = ""
    Unmatched = ""
    Profiles <- MCProfiles
    NoProfile = NoProfile
    AliasSets <- MCNoAliases
    LastInstant = 0
    MaxEvents = 2
INVARIANTS
    AnswerUsesPolicyInForce
    SinksAgree
PROPERTIES
    ChallengeStaysBound
