SPECIFICATION Spec
CONSTANTS
    Snapshots = {"lax", "strict"}
    None = "none"
    Phases = {"day", "night"}
    Compiled <- MCCompiled
    NoRules <- MCNoRules
    Null = {"null"}
    Undefined = {"undefined"}
    Syncs = {s1}
    MaxFaults = 1
    PopupInBoot = FALSE
INVARIANTS
    RulesAreAsBelieved
    UnpairingIsKept
PROPERTIES
    UnpairedIsFree
    PolicyReachesBrowser
