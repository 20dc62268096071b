---------------------------- MODULE MCExtension -----------------------------
EXTENDS Extension, TLC

MCCompiled ==
    [s \in Snapshots |-> [p \in Phases |->
        CASE s = "lax" /\ p = "day" -> {"ads"}
          [] s = "lax" /\ p = "night" -> {"ads", "games"}
          [] s = "strict" /\ p = "day" -> {"ads", "games"}
          [] OTHER -> {"everything"}]]

MCNoRules == {}
=============================================================================
