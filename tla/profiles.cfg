SPECIFICATION Spec
CONSTANTS
    Profiles = {ana, bia}
    ProfileIDs = {ana, bia}
    Panels = {w1, w2}
    Packages = {"gambling-br"}
    Custom = {"custom"}
    OldList = OldList
    NewList = NewList
    CatalogLists <- MCCatalogLists
    OwnLists <- MCOwnLists
    Lists <- MCLists
    Refused = Refused
    Normalize <- MCNormalize
    Schedules = {"never", "homework"}
    NoSchedules = "never"
    Pauses = {"none", "night"}
    NoPauses = "none"
    Zones = {"America/Sao_Paulo", "America/Manaus"}
    DefaultTimeZone = "America/Sao_Paulo"
    NoGroup = NoGroup
    Keep = "keep"
    MaxChanges = 3
    MaxChallenges = 3
    Unobserved = "unobserved"
    maxPendingChallenges = 1
    ChallengeTTL = 0
    SessionTTL = 1
    LastInstant = 2
    NoAnswer = NoAnswer
SYMMETRY MCSymmetry
INVARIANTS
    RestartKeepsPolicy
    SessionsAreBounded
    AnswerIsForItsDevice
PROPERTIES
    VersionNamesPolicy
    RevocationIsFinal
