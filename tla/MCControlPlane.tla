--------------------------- MODULE MCControlPlane ---------------------------
(***************************************************************************)
(* Lists of one name each: one that normalising leaves alone, and names    *)
(* that are nothing but dots, which lose one at a time.                    *)
(***************************************************************************)
EXTENDS ControlPlane, TLC

MCLists == {"chat", ".", "..", "..."}

MCNormalize ==
    "chat" :> "chat" @@ "..." :> ".." @@ ".." :> "." @@ "." :> Refused
    @@ NoList :> NoList

(* What each change brings.  "twice" passes the validation of update and    *)
(* not the one of Replace; "thrice" passes both, and no validation after.   *)
MCAsks ==
    [x \in Changes |->
        CASE x = "twice" -> ".."
          [] x = "thrice" -> "..."
          [] OTHER -> "chat"]
=============================================================================
