SPECIFICATION Spec
CONSTANTS
    Handlers = {c1}
    Invitations = {i1}
    Houses = {h1}
    Profiles = {p1, p2}
    Emails = {"mae"}
    Links = {l1}
    Operator = Operator
    NoEmail = NoEmail
    Validity = 1
    LinkTTL = 1
    SessionTTL = 1
    MaxPendingLinks = 1
    LastInstant = 1
INVARIANTS
    NoProfileOutlivesItsHouse
