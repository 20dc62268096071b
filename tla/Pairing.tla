------------------------------- MODULE Pairing ------------------------------
(***************************************************************************)
(* Pairing of a device with the profile whose resolver it uses             *)
(* (internal/pairing/manager.go): a challenge is a name to be resolved;    *)
(* the first profile through which it is resolved gets a session, whose    *)
(* token is handed to whoever holds the challenge.                         *)
(*                                                                         *)
(* Every call begins with cleanup: what has expired is deleted when the    *)
(* next call comes, not when it expires.  A challenge and its name, and    *)
(* the token of the session it yields, share one identifier.  A name that  *)
(* is not a challenge's is resolved like any other (module Gateway).       *)
(***************************************************************************)
EXTENDS Naturals, FiniteSets

CONSTANTS
    ProfileIDs,            \* profiles through which a name may be resolved
    Unobserved,            \* the profile of a challenge not resolved yet
    MaxChallenges,         \* bound on the challenges created
    maxPendingChallenges,
    ChallengeTTL,
    SessionTTL,
    LastInstant            \* bound on the clock

ASSUME PairingAssumption ==
    /\ Unobserved \notin ProfileIDs
    /\ maxPendingChallenges \in Nat
    /\ ChallengeTTL \in Nat
    /\ SessionTTL \in Nat
    /\ LastInstant \in Nat
    /\ MaxChallenges \in Nat

VARIABLES
    now,         \* time.Now
    challenges,  \* Manager.challenges and dnsTokens
    sessions,    \* Manager.sessions
    issued,      \* number of challenges created
    observed   \* through which profile each name was first resolved, and when (history)

pairingVars == <<now, challenges, sessions, issued, observed>>

(* randomToken never repeats a token: the n-th challenge has token n. *)
Challenges == 1 .. MaxChallenges

Instants == 0 .. LastInstant
Expiries == 0 .. LastInstant + ChallengeTTL + SessionTTL

ChallengeRecords ==
    [id : Challenges, expiresAt : Expiries, profileID : ProfileIDs \union {Unobserved}]

SessionRecords == [token : Challenges, profileID : ProfileIDs, expiresAt : Expiries]

PairingTypeOK ==
    /\ now \in Instants
    /\ challenges \subseteq ChallengeRecords
    /\ sessions \subseteq SessionRecords
    /\ issued \in 0 .. MaxChallenges
    /\ observed \in [Challenges -> [by : ProfileIDs \union {Unobserved}, at : Instants]]

PairingInit ==
    /\ now = 0
    /\ challenges = {}
    /\ sessions = {}
    /\ issued = 0
    /\ observed = [c \in Challenges |-> [by |-> Unobserved, at |-> 0]]

(* cleanup: now.After(expiresAt) deletes; the very instant of expiry counts *)
(* as before it.                                                            *)
live(records) == {r \in records : now <= r.expiresAt}

cleanup ==
    /\ challenges' = live(challenges)
    /\ sessions' = live(sessions)
    /\ UNCHANGED <<now, issued, observed>>

(* Bug: a challenge that has been resolved leaves its place to another. *)
pending_Unobserved == {r \in live(challenges) : r.profileID = Unobserved}

pending == live(challenges)

(* Create. *)
Create ==
    /\ issued < MaxChallenges
    /\ Cardinality(pending) < maxPendingChallenges
    /\ challenges' = live(challenges) \union
          {[id |-> issued + 1, expiresAt |-> now + ChallengeTTL, profileID |-> Unobserved]}
    /\ sessions' = live(sessions)
    /\ issued' = issued + 1
    /\ UNCHANGED <<now, observed>>

CreateRefused ==
    /\ Cardinality(pending) >= maxPendingChallenges
    /\ cleanup

(* The challenge that owns a name, if it is still pending. *)
challengeOf(id) == {r \in live(challenges) : r.id = id}

NoteFirst(p, id) ==
    observed' = IF observed[id].by # Unobserved THEN observed
                ELSE [observed EXCEPT ![id] = [by |-> p, at |-> now]]

(* Bug: every resolution of the name binds it anew. *)
Observe_Rebinds(p, id) ==
    /\ challengeOf(id) # {}
    /\ challenges' = {IF r.id = id THEN [r EXCEPT !.profileID = p] ELSE r : r \in live(challenges)}
    /\ sessions' = {s \in live(sessions) : s.token # id} \union
          {[token |-> id, profileID |-> p, expiresAt |-> now + SessionTTL]}
    /\ NoteFirst(p, id)
    /\ UNCHANGED <<now, issued>>

(* Observe: only the first resolution binds the challenge, and opens the    *)
(* session.                                                                 *)
Observe(p, id) ==
    /\ challengeOf(id) # {}
    /\ IF \E r \in challengeOf(id) : r.profileID = Unobserved
       THEN /\ challenges' = {IF r.id = id THEN [r EXCEPT !.profileID = p] ELSE r :
                                 r \in live(challenges)}
            /\ sessions' = live(sessions) \union
                  {[token |-> id, profileID |-> p, expiresAt |-> now + SessionTTL]}
       ELSE /\ challenges' = live(challenges)
            /\ sessions' = live(sessions)
    /\ NoteFirst(p, id)
    /\ UNCHANGED <<now, issued>>

(* Status, Outcome, and Observe of a name whose challenge is gone. *)
Read == cleanup

Tick ==
    /\ now < LastInstant
    /\ now' = now + 1
    /\ UNCHANGED <<challenges, sessions, issued, observed>>

-----------------------------------------------------------------------------
(* The limit on pending challenges is also the only limit on sessions,      *)
(* which live much longer: of the challenges that fit, one after another,   *)
(* into the time a session may go back to, each yields at most one.         *)
SessionsAreBounded ==
    Cardinality(live(sessions)) <=
        maxPendingChallenges * ((SessionTTL + ChallengeTTL) \div (ChallengeTTL + 1) + 1)
=============================================================================
