----------------------------- MODULE MCGateway ------------------------------
(***************************************************************************)
(* One endpoint, used over a TLS connection and over HTTPS, and profiles   *)
(* whose policies differ in what they block and when.                      *)
(***************************************************************************)
EXTENDS Gateway, TLC

MCEndpoint == [c \in Clients |-> "h1"]

Decision(action, category, domain) ==
    [action |-> action, category |-> category, domain |-> domain]

Open == Decision("allow", "", "")

(* A profile that observes the site and, from the given instant on, blocks  *)
(* the name the site may be an alias of.                                    *)
Observing(id, blockedFrom) ==
    [id |-> id, hostname |-> "h1",
     decide |-> [t \in 0 .. LastInstant |->
                    "pair" :> Open
                    @@ "site" :> Decision("observe", "social", "site")
                    @@ "cdn" :> IF t >= blockedFrom
                                THEN Decision("block", "social", "cdn")
                                ELSE Open]]

(* Two profiles that hold the endpoint in turn. *)
MCProfiles == {Observing("ana", 0), Observing("bia", 1)}

(* For the sinks it makes no difference whether a name has aliases. *)
MCNoAliases == {{}}

(* No alias, and a chain of two. *)
MCAliasSets == {{}, {"pair", "cdn"}}
=============================================================================
