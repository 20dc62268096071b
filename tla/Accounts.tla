------------------------------ MODULE Accounts ------------------------------
(***************************************************************************)
(* Who may use the control plane (internal/admin, internal/magiclink):     *)
(* invitations that become houses, the login by e-mail, its waiting list,  *)
(* sessions and house keys, and what a credential is then used for: adding *)
(* and disabling profiles, until the operator deletes the house.           *)
(*                                                                         *)
(* The handlers of HTTP requests run concurrently.  Each looks something   *)
(* up first (an invitation, the house of an e-mail, the scope of a         *)
(* credential, a profile) and changes the configuration afterwards, in a   *)
(* call of Server.update; "task" holds what a handler has looked up.       *)
(* Server.update is one step here: module ControlPlane is about its        *)
(* inside.  An operator's request is one step where its handler looks      *)
(* nothing up before the update.                                           *)
(*                                                                         *)
(* Tokens are names that are used once.  A session is named after the link *)
(* it was redeemed from.  A house's e-mail addresses are a set: the first  *)
(* of the list differs from the others only for the digest.                *)
(*                                                                         *)
(* A definition whose comment begins with "Bug:" is not part of the        *)
(* specification: it is a plausible mistake in the definition after it.    *)
(***************************************************************************)
EXTENDS Integers, Sequences, SequencesExt, FiniteSets

CONSTANTS
    Handlers,        \* handlers of requests that may run at the same time
    Invitations,     \* codes of invitations
    Houses,          \* identifiers of houses
    Profiles,        \* identifiers of profiles
    Emails,
    Links,           \* tokens of magic links
    Operator,        \* the scope of the operator's token, and no house
    NoEmail,         \* the e-mail of an invitation that was used
    Validity,        \* how long an invitation is valid
    LinkTTL,         \* how long a magic link is valid
    SessionTTL,      \* how long a session is valid
    MaxPendingLinks, \* limit of the code on pending links
    LastInstant      \* bound on the clock

Instants == 0 .. LastInstant

ASSUME TimesAssumption ==
    {Validity, LinkTTL, SessionTTL, LastInstant, MaxPendingLinks} \subseteq Nat

Unused == "unused"     \* an identifier not generated yet
Gone == "gone"         \* the profile was removed with its house
Scopes == Houses \union {Operator}

ASSUME NamesAssumption ==
    /\ Operator \notin Houses
    /\ NoEmail \notin Emails
    /\ Unused \notin Invitations \union Scopes
    /\ Gone \notin Scopes

VARIABLES
    clock,
    invitation,  \* invitation[i]: its record in the configuration
    houses,      \* the houses of the configuration, in order
    emails,      \* emails[h]: the addresses that may log in to house h
    waitlist,    \* the waiting list of the configuration, in order
    owner,       \* owner[p]: the house of profile p
    disabled,    \* profiles with Disabled set
    links,       \* magiclink.Manager.links
    sessions,    \* magiclink.Manager.sessions
    task,        \* task[c]: what handler c has looked up
    born,        \* history: the invitation each house was registered with
    issued       \* history: tokens of links issued so far

configVars == <<invitation, houses, emails, waitlist, owner, disabled>>
managerVars == <<links, sessions, issued>>
vars == <<clock, invitation, houses, emails, waitlist, owner, disabled,
          links, sessions, task, born, issued>>

Expiries == 0 .. (LastInstant + Validity + LinkTTL + SessionTTL)
InvitationRecords ==
    [state : {"none", "open", "used"}, email : Emails \union {NoEmail},
     expiresAt : Expiries]

Idle == [does |-> "nothing"]

Tasks ==
    {Idle}
    \union [does : {"register"}, invitation : Invitations,
            email : Emails \union {NoEmail}]
    \union [does : {"waitlist"}, email : Emails]
    \union [does : {"issue"}, house : Houses]
    \union [does : {"add"}, scope : Scopes]
    \union [does : {"disable"}, profile : Profiles, owner : Scopes, scope : Scopes]

Credentials == [link : Links, house : Houses, issuedAt : Instants, expiresAt : Expiries]

TypeOK ==
    /\ clock \in Instants
    /\ invitation \in [Invitations -> InvitationRecords]
    /\ houses \in Seq(Houses)
    /\ emails \in [Houses -> SUBSET Emails]
    /\ waitlist \in Seq(Emails)
    /\ owner \in [Profiles -> Scopes \union {Unused, Gone}]
    /\ disabled \in SUBSET Profiles
    /\ links \in SUBSET Credentials
    /\ sessions \in SUBSET Credentials
    /\ task \in [Handlers -> Tasks]
    /\ born \in [Houses -> Invitations \union {Unused}]
    /\ issued \in SUBSET Links

Init ==
    /\ clock = 0
    /\ invitation = [i \in Invitations |->
                        [state |-> "none", email |-> NoEmail, expiresAt |-> 0]]
    /\ houses = <<>>
    /\ emails = [h \in Houses |-> {}]
    /\ waitlist = <<>>
    /\ owner = [p \in Profiles |-> Unused]
    /\ disabled = {}
    /\ links = {}
    /\ sessions = {}
    /\ task = [c \in Handlers |-> Idle]
    /\ born = [h \in Houses |-> Unused]
    /\ issued = {}

Begins(c, work) == task[c] = Idle /\ task' = [task EXCEPT ![c] = work]
Ends(c) == task' = [task EXCEPT ![c] = Idle]

-----------------------------------------------------------------------------
(* Invitations.                                                             *)

(* createInvitation. *)
CreateInvitation(i, email) ==
    /\ invitation[i].state = "none"
    /\ invitation' = [invitation EXCEPT ![i] =
          [state |-> "open", email |-> email, expiresAt |-> clock + Validity]]
    /\ UNCHANGED <<clock, houses, emails, waitlist, owner, disabled, managerVars, task, born>>

findValidInvitation(i) ==
    /\ invitation[i].state = "open"
    /\ clock <= invitation[i].expiresAt

(* registerHouse up to s.update: the invitation is valid now, and its       *)
(* e-mail is copied into the house that may be created.                     *)
CheckInvitation(c, i) ==
    /\ findValidInvitation(i)
    /\ Begins(c, [does |-> "register", invitation |-> i,
                  email |-> invitation[i].email])
    /\ UNCHANGED <<clock, configVars, managerVars, born>>

(* Bug: the update relies on the check made before it. *)
RegisterHouse_Unchecked(c, h, p) ==
    LET i == task[c].invitation
    IN /\ task[c].does = "register"
       /\ born[h] = Unused /\ owner[p] = Unused
       /\ invitation' = [invitation EXCEPT ![i].state = "used", ![i].email = NoEmail]
       /\ houses' = Append(houses, h)
       /\ emails' = [emails EXCEPT ![h] = {task[c].email} \ {NoEmail}]
       /\ owner' = [owner EXCEPT ![p] = h]
       /\ born' = [born EXCEPT ![h] = i]
       /\ Ends(c)
       /\ UNCHANGED <<clock, waitlist, disabled, managerVars>>

(* The update of registerHouse, for a new house h with a first profile p.   *)
RegisterHouse(c, h, p) ==
    LET i == task[c].invitation
    IN /\ task[c].does = "register"
       /\ findValidInvitation(i)
       /\ born[h] = Unused /\ owner[p] = Unused
       /\ invitation' = [invitation EXCEPT ![i].state = "used", ![i].email = NoEmail]
       /\ houses' = Append(houses, h)
       /\ emails' = [emails EXCEPT ![h] = {task[c].email} \ {NoEmail}]
       /\ owner' = [owner EXCEPT ![p] = h]
       /\ born' = [born EXCEPT ![h] = i]
       /\ Ends(c)
       /\ UNCHANGED <<clock, waitlist, disabled, managerVars>>

(* The invitation was used or has expired in the meantime. *)
RegisterRefused(c) ==
    /\ task[c].does = "register"
    /\ ~ findValidInvitation(task[c].invitation)
    /\ Ends(c)
    /\ UNCHANGED <<clock, configVars, managerVars, born>>

-----------------------------------------------------------------------------
(* Login by e-mail.                                                         *)

(* requestMagicLink: the first house that has the address, or none. *)
FindHouse(c, email) ==
    LET having == {n \in 1 .. Len(houses) : email \in emails[houses[n]]}
    IN /\ \/ /\ having = {}
             /\ Begins(c, [does |-> "waitlist", email |-> email])
          \/ \E n \in having :
                /\ \A m \in having : n <= m
                /\ Begins(c, [does |-> "issue", house |-> houses[n]])
       /\ UNCHANGED <<clock, configVars, managerVars, born>>

(* Bug: the list was searched before the update. *)
Enlist_Unchecked(c) ==
    /\ task[c].does = "waitlist"
    /\ waitlist' = Append(waitlist, task[c].email)
    /\ Ends(c)
    /\ UNCHANGED <<clock, invitation, houses, emails, owner, disabled, managerVars, born>>

(* requestMagicLink, the update for an unknown address. *)
Enlist(c) ==
    /\ task[c].does = "waitlist"
    /\ \/ /\ Contains(waitlist, task[c].email)
          /\ UNCHANGED waitlist
       \/ /\ ~ Contains(waitlist, task[c].email)
          /\ waitlist' = Append(waitlist, task[c].email)
    /\ Ends(c)
    /\ UNCHANGED <<clock, invitation, houses, emails, owner, disabled, managerVars, born>>

live(credentials) == {r \in credentials : clock <= r.expiresAt}

(* Every operation of the manager begins with it. *)
cleanup == links' = live(links) /\ sessions' = live(sessions)

roomForLink == Cardinality(live(links)) < MaxPendingLinks

(* IssueLink, and the e-mail with the link. *)
IssueLink(c, l) ==
    /\ task[c].does = "issue"
    /\ l \notin issued
    /\ roomForLink
    /\ links' = live(links) \union
          {[link |-> l, house |-> task[c].house, issuedAt |-> clock,
            expiresAt |-> clock + LinkTTL]}
    /\ sessions' = live(sessions)
    /\ issued' = issued \union {l}
    /\ Ends(c)
    /\ UNCHANGED <<clock, configVars, born>>

(* IssueLink finds too many pending links. *)
IssueRefused(c) ==
    /\ task[c].does = "issue"
    /\ ~ roomForLink
    /\ cleanup
    /\ Ends(c)
    /\ UNCHANGED <<clock, configVars, issued, born>>

(* Bug: the link is left to expire. *)
Redeem_KeepsLink(r) ==
    /\ r \in live(links)
    /\ links' = live(links)
    /\ sessions' = live(sessions) \union {[r EXCEPT !.expiresAt = clock + SessionTTL]}
    /\ UNCHANGED <<clock, configVars, issued, task, born>>

(* Bug: an expired link is still accepted. *)
Redeem_Expired(r) ==
    /\ r \in links
    /\ links' = links \ {r}
    /\ sessions' = live(sessions) \union {[r EXCEPT !.expiresAt = clock + SessionTTL]}
    /\ UNCHANGED <<clock, configVars, issued, task, born>>

(* createSession and Redeem, of a link that is still valid. *)
Redeem(r) ==
    /\ r \in live(links)
    /\ links' = live(links) \ {r}
    /\ sessions' = live(sessions) \union {[r EXCEPT !.expiresAt = clock + SessionTTL]}
    /\ UNCHANGED <<clock, configVars, issued, task, born>>

-----------------------------------------------------------------------------
(* Credentials and what they are used for.                                  *)

(* A request that only reads, with a key or a session, or one whose token   *)
(* is refused (by authorize or by createSession), leaves a cleanup behind.  *)
ReadOnly ==
    /\ cleanup
    /\ UNCHANGED <<clock, configVars, issued, task, born>>

(* Some credential leads to the scope now.  The operator's is compared      *)
(* first; a session leads to its house without a look at the configuration, *)
(* where the key of a house is found.                                       *)
authorize(scope) ==
    \/ scope = Operator /\ UNCHANGED <<links, sessions>>
    \/ /\ scope \in Range(houses) \union {r.house : r \in live(sessions)}
       /\ cleanup

(* POST of a profile: authorize and the reading of the body ... *)
AuthorizeAdd(c, scope) ==
    /\ authorize(scope)
    /\ Begins(c, [does |-> "add", scope |-> scope])
    /\ UNCHANGED <<clock, configVars, issued, born>>

(* ... and the update, which adds the profile to the house of the scope.    *)
AddProfile(c, p) ==
    /\ task[c].does = "add"
    /\ owner[p] = Unused
    /\ owner' = [owner EXCEPT ![p] = task[c].scope]
    /\ Ends(c)
    /\ UNCHANGED <<clock, invitation, houses, emails, waitlist, disabled, managerVars, born>>

scopeAllows(scope, house) == scope = Operator \/ scope = house

(* Bug: the scope is not compared with the profile's house. *)
FindProfile_AnyScope(c, scope, p) ==
    /\ authorize(scope)
    /\ owner[p] \in Scopes
    /\ Begins(c, [does |-> "disable", profile |-> p, owner |-> owner[p], scope |-> scope])
    /\ UNCHANGED <<clock, configVars, issued, born>>

(* profileResource: authorize, findProfile and the check of the scope. *)
FindProfile(c, scope, p) ==
    /\ authorize(scope)
    /\ owner[p] \in Scopes
    /\ scopeAllows(scope, owner[p])
    /\ Begins(c, [does |-> "disable", profile |-> p, owner |-> owner[p], scope |-> scope])
    /\ UNCHANGED <<clock, configVars, issued, born>>

(* Bug: the copy of the profile found before the update is written back. *)
DisableProfile_WritesBack(c) ==
    /\ task[c].does = "disable"
    /\ owner' = [owner EXCEPT ![task[c].profile] = task[c].owner]
    /\ disabled' = disabled \union {task[c].profile}
    /\ Ends(c)
    /\ UNCHANGED <<clock, invitation, houses, emails, waitlist, managerVars, born>>

(* DELETE of a profile: the update finds it again and disables it, or       *)
(* answers that it is not there.                                            *)
DisableProfile(c) ==
    /\ task[c].does = "disable"
    /\ disabled' = IF owner[task[c].profile] = Gone THEN disabled
                   ELSE disabled \union {task[c].profile}
    /\ Ends(c)
    /\ UNCHANGED <<clock, invitation, houses, emails, waitlist, owner, managerVars, born>>

-----------------------------------------------------------------------------
(* The operator, the clock and restarts.                                    *)

(* setHouseEmails. *)
SetHouseEmails(h, addresses) ==
    /\ h \in Range(houses)
    /\ emails' = [emails EXCEPT ![h] = addresses]
    /\ UNCHANGED <<clock, invitation, houses, waitlist, owner, disabled, managerVars, task, born>>

(* deleteHouse: links and sessions are not touched. *)
DeleteHouse(h) ==
    /\ \E n \in 1 .. Len(houses) :
          /\ houses[n] = h
          /\ houses' = RemoveAt(houses, n)
    /\ emails' = [emails EXCEPT ![h] = {}]
    /\ owner' = [p \in Profiles |-> IF owner[p] = h THEN Gone ELSE owner[p]]
    /\ disabled' = {p \in disabled : owner[p] # h}
    /\ UNCHANGED <<clock, invitation, waitlist, managerVars, task, born>>

Tick ==
    /\ clock < LastInstant
    /\ clock' = clock + 1
    /\ UNCHANGED <<configVars, managerVars, task, born>>

(* The process dies and is restarted: links and sessions live in memory     *)
(* only, the configuration is durable.                                      *)
Crash ==
    /\ links' = {}
    /\ sessions' = {}
    /\ task' = [c \in Handlers |-> Idle]
    /\ UNCHANGED <<clock, configVars, issued, born>>

(* The update of a handler fails and leaves the configuration as it was. *)
UpdateFails(c) ==
    /\ task[c].does \in {"register", "waitlist", "add", "disable"}
    /\ Ends(c)
    /\ UNCHANGED <<clock, configVars, managerVars, born>>

-----------------------------------------------------------------------------
Handle(c) ==
    \/ \E i \in Invitations : CheckInvitation(c, i)
    \/ \E h \in Houses, p \in Profiles : RegisterHouse(c, h, p)
    \/ RegisterRefused(c)
    \/ \E email \in Emails : FindHouse(c, email)
    \/ Enlist(c)
    \/ \E l \in Links : IssueLink(c, l)
    \/ IssueRefused(c)
    \/ \E scope \in Scopes : AuthorizeAdd(c, scope)
    \/ \E p \in Profiles : AddProfile(c, p)
    \/ \E scope \in Scopes, p \in Profiles : FindProfile(c, scope, p)
    \/ DisableProfile(c)
    \/ UpdateFails(c)

Next ==
    \/ \E c \in Handlers : Handle(c)
    \/ \E i \in Invitations, email \in Emails : CreateInvitation(i, email)
    \/ \E r \in links : Redeem(r)
    \/ ReadOnly
    \/ \E h \in Houses, addresses \in SUBSET Emails : SetHouseEmails(h, addresses)
    \/ \E h \in Houses : DeleteHouse(h)
    \/ Tick
    \/ Crash

Spec == Init /\ [][Next]_vars

-----------------------------------------------------------------------------
(* An invitation makes at most one house, however many registrations hold   *)
(* it at the same time and whatever crashes come between ("convite de uso   *)
(* único").                                                                 *)
OneHousePerInvitation ==
    \A g, h \in Houses : born[g] # Unused /\ born[g] = born[h] => g = h

(* Requests for the same unknown address that run together enlist it once.  *)
WaitlistHasNoDuplicates == IsInjective(waitlist)

(* A link is redeemed once: nobody who reads the message later, or presents *)
(* the link twice, gets a second session from it.                           *)
LinkIsUsedOnce ==
    \A s \in sessions :
       /\ \A r \in links : r.link # s.link
       /\ \A t \in sessions : t.link = s.link => t = s

(* What a request for a link gives access to ends after LinkTTL and         *)
(* SessionTTL, whatever is done with it: also when the address was taken    *)
(* from the house, or the house was deleted, a moment after the request.    *)
AccessIsBounded ==
    \A r \in live(sessions) : clock <= r.issuedAt + LinkTTL + SessionTTL

(* A house's credential never disables another house's profile, although    *)
(* the check is made on a copy read before the update.                      *)
HousesAreIsolated ==
    [][\A p \in disabled' \ disabled :
          \E c \in Handlers :
             /\ task[c].does = "disable" /\ task[c].profile = p
             /\ scopeAllows(task[c].scope, owner[p])]_vars

(* What was removed stays removed: no request that was under way when a     *)
(* house was deleted or a profile disabled brings either back.              *)
RemovalIsFinal ==
    [][\A p \in Profiles :
          /\ owner[p] = Gone => owner'[p] = Gone
          /\ p \in disabled /\ owner'[p] # Gone => p \in disabled']_vars

(* "deleteHouse removes a house and every one of its profiles ... the       *)
(* family's DNS profiles stop resolving immediately": no profile belongs to *)
(* a house that is not there.  A request that was authorized before the     *)
(* deletion, or by a session, which outlives the house, adds one.           *)
NoProfileOutlivesItsHouse ==
    \A p \in Profiles : owner[p] \in Houses => owner[p] \in Range(houses)
=============================================================================
