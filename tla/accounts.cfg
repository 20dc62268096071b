SPECIFICATION Spec
CONSTANTS
    Handlers = {c1, c2}
    Invitations = {i1, i2}
    Houses = {h1, h2}
    Profiles = {p1, p2}
    Emails = {"mae"}
    Links = {l1}
    Operator = Operator
    NoEmail = NoEmail
    Validity = 1
    LinkTTL = 1
    SessionTTL = 1
    MaxPendingLinks = 1
    LastInstant = 3
SYMMETRY MCSymmetry
INVARIANTS
    OneHousePerInvitation
    WaitlistHasNoDuplicates
    LinkIsUsedOnce
    AccessIsBounded
PROPERTIES
    HousesAreIsolated
    RemovalIsFinal
