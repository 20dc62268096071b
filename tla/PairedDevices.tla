--------------------------- MODULE PairedDevices ----------------------------
(***************************************************************************)
(* Devices that read their profile's policy with the token of a pairing    *)
(* session (youthProfile and extensionPolicy of internal/admin/server.go), *)
(* while the parents edit the profiles: modules Pairing and Profiles       *)
(* together.  A request finds the session's profile under the mutex of     *)
(* pairing.Manager and then the profile under that of Server; anything may *)
(* happen in between.                                                      *)
(***************************************************************************)
EXTENDS Profiles, Pairing

CONSTANT NoAnswer   \* no request has been answered with a policy

ASSUME SameProfiles == ProfileIDs = Profiles

VARIABLES
    request,   \* one request: Waiting, or the session's profile has been found
    answer     \* the last policy that was handed out

vars == <<profileVars, pairingVars, request, answer>>

Waiting == [pc |-> "waiting"]

(* since and version are history: when the request came, and the versions   *)
(* of the profiles that were enabled then.                                  *)
Requests == {Waiting}
    \union [pc : {"found"}, token : Challenges, profileID : Profiles, since : Instants,
            versions : [Profiles -> Nat], enabled : SUBSET Profiles]

Answers == {NoAnswer} \union
    [token : Challenges, profileID : Profiles, since : Instants, version : Nat,
     versions : [Profiles -> Nat], enabled : SUBSET Profiles]

ASSUME AnswerAssumption ==
    NoAnswer \notin [token : Challenges, profileID : Profiles, since : Instants, version : Nat,
                     versions : [Profiles -> Nat], enabled : SUBSET Profiles]

TypeOK ==
    /\ ProfilesTypeOK
    /\ PairingTypeOK
    /\ request \in Requests
    /\ answer \in Answers

Init ==
    /\ ProfilesInit
    /\ PairingInit
    /\ request = Waiting
    /\ answer = NoAnswer

enabled == {p \in Profiles : ~ profiles[p].disabled}

(* Manager.Profile; an unknown or expired token is answered 401. *)
FindSession(token) ==
    /\ request = Waiting
    /\ answer' = NoAnswer
    /\ \/ \E s \in live(sessions) :
             /\ s.token = token
             /\ request' = [pc |-> "found", token |-> token, profileID |-> s.profileID,
                            since |-> now, enabled |-> enabled,
                            versions |-> [p \in Profiles |-> profiles[p].version]]
       \/ /\ \A s \in live(sessions) : s.token # token
          /\ UNCHANGED request
    /\ cleanup
    /\ UNCHANGED profileVars

(* Bug: a removed profile is handed out. *)
ServePolicy_Removed ==
    /\ request # Waiting
    /\ request' = Waiting
    /\ answer' = [token |-> request.token, profileID |-> request.profileID,
                  since |-> request.since, version |-> profiles[request.profileID].version,
                  versions |-> request.versions, enabled |-> request.enabled]
    /\ UNCHANGED <<profileVars, pairingVars>>

(* findProfile: the policy, or 404 for a removed profile. *)
ServePolicy ==
    /\ request # Waiting
    /\ request' = Waiting
    /\ answer' =
          IF request.profileID \notin enabled THEN NoAnswer
          ELSE [token |-> request.token, profileID |-> request.profileID,
                since |-> request.since, version |-> profiles[request.profileID].version,
                versions |-> request.versions, enabled |-> request.enabled]
    /\ UNCHANGED <<profileVars, pairingVars>>

(* The pairing of devices, whose new challenges and ticks share the bound.  *)
PairingNext ==
    \/ /\ Create \/ Tick
       /\ Bounded
       /\ UNCHANGED <<zone, profiles, file, catalog, panel>>
    \/ /\ \/ CreateRefused
          \/ \E id \in Challenges, p \in Profiles : Observe(p, id)
          \/ Read
       /\ UNCHANGED profileVars

Next ==
    \/ ProfilesNext /\ UNCHANGED <<pairingVars, request, answer>>
    \/ PairingNext /\ UNCHANGED <<request, answer>>
    \/ \E token \in Challenges : FindSession(token)
    \/ ServePolicy

Spec == Init /\ [][Next]_vars

-----------------------------------------------------------------------------
(* A token reads the policy of one profile: the first through which its     *)
(* challenge was resolved, as long as its session lasts; no request that    *)
(* came after the profile was removed gets it, nor a version older than the *)
(* request.                                                                 *)
AnswerIsForItsDevice ==
    answer # NoAnswer =>
        /\ answer.profileID = observed[answer.token].by
        /\ answer.since <= observed[answer.token].at + SessionTTL
        /\ answer.profileID \in answer.enabled
        /\ answer.version >= answer.versions[answer.profileID]
=============================================================================
