--------------------------- MODULE AccountsProofs ---------------------------
(***************************************************************************)
(* What holds of accounts for every number of concurrent handlers,         *)
(* invitations, houses, profiles and links, and for every length of their  *)
(* validities.  TypeOK is inductive; each other invariant is inductive on  *)
(* top of it.                                                              *)
(***************************************************************************)
EXTENDS Accounts, TLAPS

(* A sequence with one element removed has no new elements.                 *)
LEMMA RemoveAtType ==
    ASSUME NEW S, NEW s \in Seq(S), NEW n \in 1 .. Len(s)
    PROVE  RemoveAt(s, n) \in Seq(S)
  BY DEF RemoveAt

(* A time within the clock's bound and any validity after it is an expiry.  *)
LEMMA ExpiryType ==
    ASSUME NEW t \in Instants, NEW ttl \in {Validity, LinkTTL, SessionTTL}
    PROVE  t + ttl \in Expiries
  BY TimesAssumption DEF Instants, Expiries

(* The initial state has the types.                                         *)
LEMMA TypeInit == Init => TypeOK
<1> SUFFICES ASSUME Init PROVE TypeOK
  OBVIOUS
<1>1. 0 \in Instants /\ 0 \in Expiries
  BY TimesAssumption DEF Instants, Expiries
<1>2. Idle \in Tasks
  BY DEF Tasks
<1> QED
  BY <1>1, <1>2 DEF Init, TypeOK, InvitationRecords

(* Ending a handler's work keeps the types.                                 *)
LEMMA EndsType ==
    ASSUME TypeOK, NEW c \in Handlers, Ends(c)
    PROVE  task' \in [Handlers -> Tasks]
  BY DEF TypeOK, Ends, Tasks

(* What a handler looks up keeps the types.                                 *)
LEMMA LookUpType ==
    ASSUME TypeOK, NEW c \in Handlers,
           \/ \E i \in Invitations : CheckInvitation(c, i)
           \/ \E email \in Emails : FindHouse(c, email)
           \/ \E scope \in Scopes : AuthorizeAdd(c, scope)
           \/ \E scope \in Scopes, p \in Profiles : FindProfile(c, scope, p)
    PROVE  TypeOK'
<1>1. CASE \E i \in Invitations : CheckInvitation(c, i)
  <2>1. PICK i \in Invitations : CheckInvitation(c, i)
    BY <1>1
  <2>2. [does |-> "register", invitation |-> i, email |-> invitation[i].email] \in Tasks
    BY DEF TypeOK, InvitationRecords, Tasks
  <2> QED
    BY <2>1, <2>2 DEF TypeOK, CheckInvitation, Begins, configVars, managerVars
<1>2. CASE \E email \in Emails : FindHouse(c, email)
  <2>1. PICK email \in Emails : FindHouse(c, email)
    BY <1>2
  <2>2. [does |-> "waitlist", email |-> email] \in Tasks
    BY DEF Tasks
  <2>3. \A n \in 1 .. Len(houses) : [does |-> "issue", house |-> houses[n]] \in Tasks
    BY DEF TypeOK, Tasks
  <2>4. task' \in [Handlers -> Tasks]
    BY <2>1, <2>2, <2>3 DEF TypeOK, FindHouse, Begins
  <2> QED
    BY <2>1, <2>4 DEF TypeOK, FindHouse, configVars, managerVars
<1>3. CASE \E scope \in Scopes : AuthorizeAdd(c, scope)
  <2>1. PICK scope \in Scopes : AuthorizeAdd(c, scope)
    BY <1>3
  <2>2. [does |-> "add", scope |-> scope] \in Tasks
    BY DEF Tasks
  <2> QED
    BY <2>1, <2>2 DEF TypeOK, AuthorizeAdd, authorize, cleanup, live, Begins, configVars
<1>4. CASE \E scope \in Scopes, p \in Profiles : FindProfile(c, scope, p)
  <2>1. PICK scope \in Scopes, p \in Profiles : FindProfile(c, scope, p)
    BY <1>4
  <2>2. [does |-> "disable", profile |-> p, owner |-> owner[p], scope |-> scope] \in Tasks
    BY <2>1 DEF FindProfile, Tasks
  <2> QED
    BY <2>1, <2>2 DEF TypeOK, FindProfile, authorize, cleanup, live, Begins, configVars
<1> QED
  BY <1>1, <1>2, <1>3, <1>4

(* What a task holds, by what it does.                                      *)
LEMMA TaskFields ==
    ASSUME NEW t \in Tasks
    PROVE  /\ t.does = "register" => t.invitation \in Invitations
                                     /\ t.email \in Emails \union {NoEmail}
           /\ t.does = "waitlist" => t.email \in Emails
           /\ t.does = "issue" => t.house \in Houses
           /\ t.does = "add" => t.scope \in Scopes
           /\ t.does = "disable" => t.profile \in Profiles
                                    /\ t.owner \in Scopes /\ t.scope \in Scopes
  BY DEF Tasks, Idle

(* Redeeming a link keeps the types. *)
LEMMA RedeemType ==
    ASSUME TypeOK, NEW r \in links, Redeem(r)
    PROVE  TypeOK'
<1>1. clock + SessionTTL \in Expiries
  BY ExpiryType DEF TypeOK
<1>2. [r EXCEPT !.expiresAt = clock + SessionTTL] \in Credentials
  BY <1>1 DEF TypeOK, Credentials
<1> QED
  BY <1>2 DEF TypeOK, Redeem, live, configVars

(* What a handler changes keeps the types.                                  *)
LEMMA ChangeType ==
    ASSUME TypeOK, NEW c \in Handlers,
           \/ \E h \in Houses, p \in Profiles : RegisterHouse(c, h, p)
           \/ RegisterRefused(c)
           \/ Enlist(c)
           \/ \E l \in Links : IssueLink(c, l)
           \/ IssueRefused(c)
           \/ \E p \in Profiles : AddProfile(c, p)
           \/ DisableProfile(c)
           \/ UpdateFails(c)
    PROVE  TypeOK'
<1>0. task[c] \in Tasks
  BY DEF TypeOK
<1>1. CASE \E h \in Houses, p \in Profiles : RegisterHouse(c, h, p)
  <2>1. PICK h \in Houses, p \in Profiles : RegisterHouse(c, h, p)
    BY <1>1
  <2>2. task[c].invitation \in Invitations /\ {task[c].email} \ {NoEmail} \subseteq Emails
    BY <1>0, <2>1, TaskFields DEF RegisterHouse
  <2>3. task' \in [Handlers -> Tasks]
    BY <2>1, EndsType DEF RegisterHouse
  <2>4. invitation' \in [Invitations -> InvitationRecords]
    BY <2>1, <2>2 DEF RegisterHouse, TypeOK, InvitationRecords
  <2>5. houses' \in Seq(Houses) /\ emails' \in [Houses -> SUBSET Emails]
    BY <2>1, <2>2 DEF RegisterHouse, TypeOK
  <2>6. /\ owner' \in [Profiles -> Scopes \union {Unused, Gone}]
        /\ born' \in [Houses -> Invitations \union {Unused}]
    BY <2>1, <2>2 DEF RegisterHouse, TypeOK, Scopes
  <2> QED
    BY <2>1, <2>3, <2>4, <2>5, <2>6 DEF RegisterHouse, TypeOK, managerVars
<1>2. CASE RegisterRefused(c)
  BY <1>2, EndsType DEF RegisterRefused, TypeOK, configVars, managerVars
<1>3. CASE Enlist(c)
  <2>1. task[c].email \in Emails
    BY <1>0, <1>3, TaskFields DEF Enlist
  <2>2. waitlist' \in Seq(Emails)
    <3>1. waitlist \in Seq(Emails)
      BY DEF TypeOK
    <3>2. waitlist' = waitlist \/ waitlist' = Append(waitlist, task[c].email)
      BY <1>3 DEF Enlist
    <3> QED
      BY <2>1, <3>1, <3>2
  <2> QED
    BY <1>3, <2>2, EndsType DEF Enlist, TypeOK, managerVars
<1>4. CASE \E l \in Links : IssueLink(c, l)
  <2>1. PICK l \in Links : IssueLink(c, l)
    BY <1>4
  <2>2. task[c].house \in Houses
    BY <1>0, <2>1, TaskFields DEF IssueLink
  <2>3. clock + LinkTTL \in Expiries
    BY ExpiryType DEF TypeOK
  <2>4. [link |-> l, house |-> task[c].house, issuedAt |-> clock,
         expiresAt |-> clock + LinkTTL] \in Credentials
    BY <2>2, <2>3 DEF Credentials, TypeOK
  <2> QED
    BY <2>1, <2>4, EndsType DEF IssueLink, TypeOK, live, configVars
<1>5. CASE IssueRefused(c)
  BY <1>5, EndsType DEF IssueRefused, cleanup, TypeOK, live, configVars
<1>6. CASE \E p \in Profiles : AddProfile(c, p)
  <2>1. PICK p \in Profiles : AddProfile(c, p)
    BY <1>6
  <2>2. task[c].scope \in Scopes
    BY <1>0, <2>1, TaskFields DEF AddProfile
  <2> QED
    BY <2>1, <2>2, EndsType DEF AddProfile, TypeOK, managerVars
<1>7. CASE DisableProfile(c)
  <2>1. task[c].profile \in Profiles
    BY <1>0, <1>7, TaskFields DEF DisableProfile
  <2> QED
    BY <1>7, <2>1, EndsType DEF DisableProfile, TypeOK, managerVars
<1>8. CASE UpdateFails(c)
  BY <1>8, EndsType DEF UpdateFails, TypeOK, configVars, managerVars
<1> QED
  BY <1>1, <1>2, <1>3, <1>4, <1>5, <1>6, <1>7, <1>8

(* The operator, the clock and restarts keep the types.                     *)
LEMMA WorldType ==
    ASSUME TypeOK,
           \/ \E i \in Invitations, email \in Emails : CreateInvitation(i, email)
           \/ \E h \in Houses, addresses \in SUBSET Emails : SetHouseEmails(h, addresses)
           \/ \E h \in Houses : DeleteHouse(h)
           \/ ReadOnly
           \/ Tick
           \/ Crash
    PROVE  TypeOK'
<1>1. CASE \E i \in Invitations, email \in Emails : CreateInvitation(i, email)
  <2>1. PICK i \in Invitations, email \in Emails : CreateInvitation(i, email)
    BY <1>1
  <2>2. clock + Validity \in Expiries
    BY ExpiryType DEF TypeOK
  <2>3. invitation' \in [Invitations -> InvitationRecords]
    BY <2>1, <2>2 DEF CreateInvitation, TypeOK, InvitationRecords
  <2> QED
    BY <2>1, <2>3 DEF CreateInvitation, TypeOK, managerVars
<1>2. CASE \E h \in Houses, addresses \in SUBSET Emails : SetHouseEmails(h, addresses)
  BY <1>2 DEF SetHouseEmails, TypeOK, managerVars
<1>3. CASE \E h \in Houses : DeleteHouse(h)
  <2>1. PICK h \in Houses : DeleteHouse(h)
    BY <1>3
  <2>2. houses' \in Seq(Houses)
    BY <2>1, RemoveAtType DEF DeleteHouse, TypeOK
  <2> QED
    BY <2>1, <2>2 DEF DeleteHouse, TypeOK, managerVars
<1>4. CASE Tick
  BY <1>4, TimesAssumption DEF Tick, TypeOK, Instants, configVars, managerVars
<1>5. CASE Crash
  BY <1>5 DEF Crash, TypeOK, Tasks, configVars
<1>6. CASE ReadOnly
  BY <1>6 DEF ReadOnly, cleanup, live, TypeOK, configVars
<1> QED
  BY <1>1, <1>2, <1>3, <1>4, <1>5, <1>6

(* Every step keeps the types.                                              *)
LEMMA TypeStep == TypeOK /\ [Next]_vars => TypeOK'
<1> SUFFICES ASSUME TypeOK, [Next]_vars PROVE TypeOK'
  OBVIOUS
<1>1. CASE UNCHANGED vars
  BY <1>1 DEF vars, TypeOK
<1>2. ASSUME NEW c \in Handlers, Handle(c) PROVE TypeOK'
  BY <1>2, LookUpType, ChangeType DEF Handle
<1> QED
  BY <1>1, <1>2, RedeemType, WorldType DEF Next

(* The variables keep their types.                                          *)
THEOREM TypeCorrect == Spec => []TypeOK
BY TypeInit, TypeStep, PTL DEF Spec

-----------------------------------------------------------------------------
(* Invitations.                                                             *)

(* The invitation of a house was used. *)
UsedOnce ==
    /\ \A h \in Houses : born[h] # Unused => invitation[born[h]].state = "used"
    /\ OneHousePerInvitation

(* Only two actions touch the invitations and the houses' origins.          *)
LEMMA InvitationFrame ==
    ASSUME [Next]_vars
    PROVE  \/ \E i \in Invitations, email \in Emails : CreateInvitation(i, email)
           \/ \E c \in Handlers, h \in Houses, p \in Profiles : RegisterHouse(c, h, p)
           \/ UNCHANGED <<invitation, born>>
<1>1. ASSUME NEW c \in Handlers, Handle(c),
             ~ \E h \in Houses, p \in Profiles : RegisterHouse(c, h, p)
      PROVE  UNCHANGED <<invitation, born>>
  BY <1>1 DEF Handle, CheckInvitation, RegisterRefused, FindHouse, Enlist, IssueLink,
     IssueRefused, AuthorizeAdd, AddProfile, FindProfile, DisableProfile, UpdateFails,
     configVars
<1> QED
  BY <1>1 DEF Next, vars, Redeem, ReadOnly, SetHouseEmails, DeleteHouse, Tick, Crash, configVars

(* Every step keeps it: a registration finds its invitation unused in the   *)
(* same step that marks it.                                                 *)
LEMMA UsedOnceStep == TypeOK /\ UsedOnce /\ [Next]_vars => UsedOnce'
<1> SUFFICES ASSUME TypeOK, UsedOnce, [Next]_vars PROVE UsedOnce'
  OBVIOUS
<1>1. CASE UNCHANGED <<invitation, born>>
  BY <1>1 DEF UsedOnce, OneHousePerInvitation
<1>2. CASE \E i \in Invitations, email \in Emails : CreateInvitation(i, email)
  <2>1. PICK i \in Invitations, email \in Emails : CreateInvitation(i, email)
    BY <1>2
  <2>2. \A h \in Houses : born[h] # Unused => born[h] # i
    BY <2>1 DEF CreateInvitation, UsedOnce
  <2>3. \A j \in Invitations : j # i => invitation'[j] = invitation[j]
    BY <2>1 DEF CreateInvitation, TypeOK
  <2> QED
    BY <2>1, <2>2, <2>3 DEF CreateInvitation, UsedOnce, OneHousePerInvitation, TypeOK
<1>3. CASE \E c \in Handlers, h \in Houses, p \in Profiles : RegisterHouse(c, h, p)
  <2>1. PICK c \in Handlers, h \in Houses, p \in Profiles : RegisterHouse(c, h, p)
    BY <1>3
  <2> DEFINE i == task[c].invitation
  <2>2. i \in Invitations /\ invitation[i].state = "open"
    BY <2>1, TaskFields DEF RegisterHouse, findValidInvitation, TypeOK
  <2>3. \A g \in Houses : born[g] # Unused => born[g] # i
    BY <2>2 DEF UsedOnce
  <2>4. /\ invitation'[i].state = "used"
        /\ \A j \in Invitations : j # i => invitation'[j] = invitation[j]
    BY <2>1, <2>2 DEF RegisterHouse, TypeOK, InvitationRecords
  <2>5. born'[h] = i /\ \A g \in Houses : g # h => born'[g] = born[g]
    BY <2>1 DEF RegisterHouse, TypeOK
  <2> HIDE DEF i
  <2> QED
    BY <2>2, <2>3, <2>4, <2>5 DEF UsedOnce, OneHousePerInvitation, TypeOK
<1> QED
  BY <1>1, <1>2, <1>3, InvitationFrame

(* An invitation makes at most one house (registerHouse looks it up again   *)
(* inside the update).                                                      *)
THEOREM InvitationIsUsedOnce == Spec => []OneHousePerInvitation
<1>1. Init => UsedOnce
  BY DEF Init, UsedOnce, OneHousePerInvitation
<1>2. UsedOnce => OneHousePerInvitation
  BY DEF UsedOnce
<1> QED
  BY <1>1, <1>2, TypeCorrect, UsedOnceStep, PTL DEF Spec

-----------------------------------------------------------------------------
(* The waiting list.                                                        *)

(* Only one action touches the waiting list.                                *)
LEMMA WaitlistFrame ==
    ASSUME [Next]_vars
    PROVE  (\E c \in Handlers : Enlist(c)) \/ UNCHANGED waitlist
<1>1. ASSUME NEW c \in Handlers, Handle(c)
      PROVE  Enlist(c) \/ UNCHANGED waitlist
  BY <1>1 DEF Handle, CheckInvitation, RegisterRefused, RegisterHouse, FindHouse,
     IssueLink, IssueRefused, AuthorizeAdd, AddProfile, FindProfile, DisableProfile,
     UpdateFails, configVars
<1> QED
  BY <1>1 DEF Next, vars, CreateInvitation, Redeem, ReadOnly, SetHouseEmails, DeleteHouse, Tick,
     Crash, configVars

(* An address that is not in a list without duplicates can be appended.     *)
LEMMA AppendInjective ==
    ASSUME NEW S, NEW s \in Seq(S), NEW e \in S,
           \A j, k \in DOMAIN s : s[j] = s[k] => j = k,
           \A k \in 1 .. Len(s) : s[k] # e
    PROVE  \A j, k \in DOMAIN Append(s, e) : Append(s, e)[j] = Append(s, e)[k] => j = k
<1>1. DOMAIN s = 1 .. Len(s) /\ DOMAIN Append(s, e) = 1 .. Len(s) + 1 /\ Len(s) \in Nat
  OBVIOUS
<1>2. /\ \A k \in 1 .. Len(s) : Append(s, e)[k] = s[k] /\ s[k] # e
      /\ Append(s, e)[Len(s) + 1] = e
  OBVIOUS
<1>3. \A m \in 1 .. Len(s) + 1 : m \in 1 .. Len(s) \/ m = Len(s) + 1
  BY <1>1
<1> QED
  BY <1>1, <1>2, <1>3

(* The waiting list never has an address twice (requestMagicLink searches   *)
(* it inside the update).                                                   *)
THEOREM WaitlistIsASet == Spec => []WaitlistHasNoDuplicates
<1>1. Init => WaitlistHasNoDuplicates
  BY DEF Init, WaitlistHasNoDuplicates, IsInjective
<1>2. TypeOK /\ WaitlistHasNoDuplicates /\ [Next]_vars => WaitlistHasNoDuplicates'
  <2> SUFFICES ASSUME TypeOK, WaitlistHasNoDuplicates, [Next]_vars,
                      NEW c \in Handlers, Enlist(c)
               PROVE  WaitlistHasNoDuplicates'
    BY WaitlistFrame DEF WaitlistHasNoDuplicates, IsInjective
  <2>1. task[c].email \in Emails /\ waitlist \in Seq(Emails)
    BY TaskFields DEF Enlist, TypeOK
  <2>2. CASE UNCHANGED waitlist
    BY <2>2 DEF WaitlistHasNoDuplicates, IsInjective
  <2>3. CASE /\ ~ Contains(waitlist, task[c].email)
             /\ waitlist' = Append(waitlist, task[c].email)
    <3>1. \A j, k \in DOMAIN waitlist : waitlist[j] = waitlist[k] => j = k
      BY DEF WaitlistHasNoDuplicates, IsInjective
    <3>2. \A k \in 1 .. Len(waitlist) : waitlist[k] # task[c].email
      BY <2>3 DEF Contains
    <3>3. \A j, k \in DOMAIN waitlist' : waitlist'[j] = waitlist'[k] => j = k
      BY <2>1, <2>3, <3>1, <3>2, AppendInjective
    <3> QED
      BY <3>3 DEF WaitlistHasNoDuplicates, IsInjective
  <2> QED
    BY <2>2, <2>3 DEF Enlist
<1> QED
  BY <1>1, <1>2, TypeCorrect, PTL DEF Spec

-----------------------------------------------------------------------------
(* Links and sessions.                                                      *)

(* How the four kinds of steps change links and sessions.                   *)
LEMMA CredentialFrame ==
    ASSUME [Next]_vars
    PROVE  \/ \E c \in Handlers, l \in Links : IssueLink(c, l)
           \/ \E r \in links : Redeem(r)
           \/ links' \subseteq links /\ sessions' \subseteq sessions /\ issued' = issued
<1>1. ASSUME NEW c \in Handlers, Handle(c), ~ \E l \in Links : IssueLink(c, l)
      PROVE  links' \subseteq links /\ sessions' \subseteq sessions /\ issued' = issued
  <2>1. CASE \/ IssueRefused(c)
             \/ \E scope \in Scopes : AuthorizeAdd(c, scope)
             \/ \E scope \in Scopes, p \in Profiles : FindProfile(c, scope, p)
    BY <2>1 DEF IssueRefused, AuthorizeAdd, FindProfile, authorize, cleanup, live
  <2> QED
    BY <1>1, <2>1 DEF Handle, CheckInvitation, RegisterRefused, RegisterHouse, FindHouse,
       Enlist, AddProfile, DisableProfile, UpdateFails, managerVars
<1>2. CASE ReadOnly
  BY <1>2 DEF ReadOnly, cleanup, live
<1> QED
  BY <1>1, <1>2 DEF Next, vars, CreateInvitation, SetHouseEmails, DeleteHouse, Tick,
     Crash, managerVars

(* Every token in the manager was issued, and stands for one thing.         *)
TokensUsedOnce ==
    /\ \A r \in links \union sessions : r.link \in issued
    /\ \A r, t \in links : r.link = t.link => r = t
    /\ LinkIsUsedOnce

(* Every step keeps it: a link that is issued is new, and the one that is   *)
(* redeemed leaves the links in the same step.                              *)
LEMMA TokensStep == TypeOK /\ TokensUsedOnce /\ [Next]_vars => TokensUsedOnce'
<1> SUFFICES ASSUME TypeOK, TokensUsedOnce, [Next]_vars PROVE TokensUsedOnce'
  OBVIOUS
<1>1. CASE \E c \in Handlers, l \in Links : IssueLink(c, l)
  <2>1. PICK c \in Handlers, l \in Links : IssueLink(c, l)
    BY <1>1
  <2> DEFINE new == [link |-> l, house |-> task[c].house, issuedAt |-> clock,
                     expiresAt |-> clock + LinkTTL]
  <2>2. /\ new.link = l
        /\ l \notin issued
        /\ issued' = issued \union {l}
        /\ sessions' \subseteq sessions
        /\ \A r \in links' : r \in links \/ r = new
    BY <2>1 DEF IssueLink, live
  <2> HIDE DEF new
  <2> QED
    BY <2>2 DEF TokensUsedOnce, LinkIsUsedOnce
<1>2. CASE \E r \in links : Redeem(r)
  <2>1. PICK r \in links : Redeem(r)
    BY <1>2
  <2> DEFINE new == [r EXCEPT !.expiresAt = clock + SessionTTL]
  <2>2. new.link = r.link
    BY DEF TypeOK, Credentials
  <2>3. /\ links' \subseteq links \ {r}
        /\ issued' = issued
        /\ \A s \in sessions' : s \in sessions \/ s = new
    BY <2>1 DEF Redeem, live
  <2> HIDE DEF new
  <2> QED
    BY <2>2, <2>3 DEF TokensUsedOnce, LinkIsUsedOnce
<1>3. CASE links' \subseteq links /\ sessions' \subseteq sessions /\ issued' = issued
  BY <1>3 DEF TokensUsedOnce, LinkIsUsedOnce
<1> QED
  BY <1>1, <1>2, <1>3, CredentialFrame

(* A link yields one session at most (magiclink.Manager.Redeem).            *)
THEOREM LinksAreSingleUse == Spec => []LinkIsUsedOnce
<1>1. Init => TokensUsedOnce
  BY DEF Init, TokensUsedOnce, LinkIsUsedOnce
<1>2. TokensUsedOnce => LinkIsUsedOnce
  BY DEF TokensUsedOnce
<1> QED
  BY <1>1, <1>2, TypeCorrect, TokensStep, PTL DEF Spec

(* A link expires LinkTTL after the request for it, and a session at most   *)
(* SessionTTL after that.                                                   *)
AccessEnds ==
    /\ \A r \in links : r.expiresAt = r.issuedAt + LinkTTL
    /\ \A r \in sessions : r.expiresAt <= r.issuedAt + LinkTTL + SessionTTL

(* Every step keeps it: only a link that has not expired is redeemed.       *)
LEMMA AccessStep == TypeOK /\ AccessEnds /\ [Next]_vars => AccessEnds'
<1> SUFFICES ASSUME TypeOK, AccessEnds, [Next]_vars PROVE AccessEnds'
  OBVIOUS
<1>1. CASE \E c \in Handlers, l \in Links : IssueLink(c, l)
  BY <1>1 DEF IssueLink, live, AccessEnds
<1>2. CASE \E r \in links : Redeem(r)
  <2>1. PICK r \in links : Redeem(r)
    BY <1>2
  <2> DEFINE new == [r EXCEPT !.expiresAt = clock + SessionTTL]
  <2>2. new.expiresAt = clock + SessionTTL /\ new.issuedAt = r.issuedAt
    BY DEF TypeOK, Credentials
  <2>3. clock <= r.issuedAt + LinkTTL
    BY <2>1 DEF Redeem, live, AccessEnds
  <2>4. clock \in Nat /\ r.issuedAt \in Nat /\ LinkTTL \in Nat /\ SessionTTL \in Nat
    BY TimesAssumption DEF TypeOK, Credentials, Instants
  <2>5. new.expiresAt <= new.issuedAt + LinkTTL + SessionTTL
    BY <2>2, <2>3, <2>4
  <2>6. links' \subseteq links /\ \A s \in sessions' : s \in sessions \/ s = new
    BY <2>1 DEF Redeem, live
  <2> HIDE DEF new
  <2> QED
    BY <2>5, <2>6 DEF AccessEnds
<1>3. CASE links' \subseteq links /\ sessions' \subseteq sessions
  BY <1>3 DEF AccessEnds
<1> QED
  BY <1>1, <1>2, <1>3, CredentialFrame

(* What a request for a link gives access to ends (IssueLink and Redeem).   *)
THEOREM AccessRunsOut == Spec => []AccessIsBounded
<1>1. Init => AccessEnds
  BY DEF Init, AccessEnds
<1>2. TypeOK /\ AccessEnds => AccessIsBounded
  <2> SUFFICES ASSUME TypeOK, AccessEnds, NEW r \in live(sessions)
               PROVE  clock <= r.issuedAt + LinkTTL + SessionTTL
    BY DEF AccessIsBounded
  <2>1. /\ r \in sessions
        /\ clock <= r.expiresAt
        /\ r.expiresAt <= r.issuedAt + LinkTTL + SessionTTL
    BY DEF live, AccessEnds
  <2>2. /\ {clock, r.issuedAt, r.expiresAt} \subseteq Nat
        /\ LinkTTL \in Nat /\ SessionTTL \in Nat
    BY <2>1, TimesAssumption DEF TypeOK, Credentials, Instants, Expiries
  <2> QED
    BY <2>1, <2>2
<1> QED
  BY <1>1, <1>2, TypeCorrect, AccessStep, PTL DEF Spec

-----------------------------------------------------------------------------
(* Profiles.                                                                *)

(* How steps change owners and disabled profiles.                           *)
LEMMA ProfileFrame ==
    ASSUME [Next]_vars
    PROVE  \/ \E c \in Handlers, h \in Houses, p \in Profiles : RegisterHouse(c, h, p)
           \/ \E c \in Handlers, p \in Profiles : AddProfile(c, p)
           \/ \E c \in Handlers : DisableProfile(c)
           \/ \E h \in Houses : DeleteHouse(h)
           \/ UNCHANGED <<owner, disabled>>
<1>1. ASSUME NEW c \in Handlers, Handle(c),
             ~ \E h \in Houses, p \in Profiles : RegisterHouse(c, h, p),
             ~ \E p \in Profiles : AddProfile(c, p),
             ~ DisableProfile(c)
      PROVE  UNCHANGED <<owner, disabled>>
  BY <1>1 DEF Handle, CheckInvitation, RegisterRefused, FindHouse, Enlist, IssueLink,
     IssueRefused, AuthorizeAdd, FindProfile, UpdateFails, configVars
<1> QED
  BY <1>1 DEF Next, vars, CreateInvitation, Redeem, ReadOnly, SetHouseEmails, Tick, Crash,
     configVars

(* What was removed is neither restored nor enabled again by the requests   *)
(* that were under way (deleteHouse, profileResource).                      *)
THEOREM RemovedStaysRemoved == Spec => RemovalIsFinal
<1>1. TypeOK /\ [Next]_vars =>
        [\A p \in Profiles :
            /\ owner[p] = Gone => owner'[p] = Gone
            /\ p \in disabled /\ owner'[p] # Gone => p \in disabled']_vars
  <2> SUFFICES ASSUME TypeOK, [Next]_vars, NEW p \in Profiles
               PROVE  /\ owner[p] = Gone => owner'[p] = Gone
                      /\ p \in disabled /\ owner'[p] # Gone => p \in disabled'
    OBVIOUS
  <2>1. Gone # Unused
    BY DEF Gone, Unused
  <2>2. CASE \E c \in Handlers, h \in Houses, q \in Profiles : RegisterHouse(c, h, q)
    BY <2>1, <2>2 DEF RegisterHouse, TypeOK
  <2>3. CASE \E c \in Handlers, q \in Profiles : AddProfile(c, q)
    BY <2>1, <2>3 DEF AddProfile, TypeOK
  <2>4. CASE \E c \in Handlers : DisableProfile(c)
    BY <2>4 DEF DisableProfile
  <2>5. CASE \E h \in Houses : DeleteHouse(h)
    BY <2>5, NamesAssumption DEF DeleteHouse, Scopes
  <2>6. CASE UNCHANGED <<owner, disabled>>
    BY <2>6
  <2> QED
    BY <2>2, <2>3, <2>4, <2>5, <2>6, ProfileFrame
<1> QED
  BY <1>1, TypeCorrect, PTL DEF Spec, RemovalIsFinal

(* What a handler found out before its update remains true enough: the      *)
(* profile it is going to disable is of the house it had, or gone.          *)
FoundStaysAllowed ==
    \A c \in Handlers : task[c].does = "disable" =>
       /\ scopeAllows(task[c].scope, task[c].owner)
       /\ owner[task[c].profile] \in {task[c].owner, Gone}

(* A profile that has an owner keeps it until it is gone.                   *)
LEMMA OwnerIsKept ==
    ASSUME TypeOK, [Next]_vars, NEW p \in Profiles, owner[p] # Unused
    PROVE  owner'[p] \in {owner[p], Gone}
<1>1. CASE \E c \in Handlers, h \in Houses, q \in Profiles : RegisterHouse(c, h, q)
  BY <1>1 DEF RegisterHouse, TypeOK
<1>2. CASE \E c \in Handlers, q \in Profiles : AddProfile(c, q)
  BY <1>2 DEF AddProfile, TypeOK
<1>3. CASE \E c \in Handlers : DisableProfile(c)
  BY <1>3 DEF DisableProfile
<1>4. CASE \E h \in Houses : DeleteHouse(h)
  BY <1>4 DEF DeleteHouse
<1>5. CASE UNCHANGED <<owner, disabled>>
  BY <1>5
<1> QED
  BY <1>1, <1>2, <1>3, <1>4, <1>5, ProfileFrame

(* A handler that is about to disable a profile was so before, or has just  *)
(* found the profile.                                                       *)
LEMMA DisableTaskFrame ==
    ASSUME TypeOK, [Next]_vars, NEW c \in Handlers, task'[c].does = "disable"
    PROVE  \/ task'[c] = task[c]
           \/ \E scope \in Scopes, p \in Profiles : FindProfile(c, scope, p)
<1>1. CASE \A d \in Handlers : ~ Handle(d)
  <2>1. UNCHANGED task \/ Crash
    BY <1>1 DEF Next, vars, CreateInvitation, Redeem, ReadOnly, SetHouseEmails, DeleteHouse, Tick
  <2> QED
    BY <2>1 DEF Crash, Idle
<1>2. CASE \E d \in Handlers : Handle(d)
  <2>1. PICK d \in Handlers : Handle(d)
    BY <1>2
  <2>2. \E work : task' = [task EXCEPT ![d] = work]
    BY <2>1 DEF Handle, CheckInvitation, RegisterHouse, RegisterRefused, FindHouse,
       Enlist, IssueLink, IssueRefused, AuthorizeAdd, AddProfile, FindProfile,
       DisableProfile, UpdateFails, Begins, Ends
  <2>3. CASE c # d
    BY <2>2, <2>3 DEF TypeOK
  <2>4. CASE c = d /\ Ends(c)
    BY <2>4 DEF Ends, TypeOK, Idle
  <2>5. CASE c = d /\ ~ Ends(c)
    BY <2>1, <2>5 DEF Handle, CheckInvitation, RegisterHouse, RegisterRefused, FindHouse,
       Enlist, IssueLink, IssueRefused, AuthorizeAdd, AddProfile,
       DisableProfile, UpdateFails, Begins, TypeOK
  <2> QED
    BY <2>3, <2>4, <2>5
<1> QED
  BY <1>1, <1>2

(* Every step keeps it: a profile changes owner only by being removed.      *)
LEMMA FoundStep == TypeOK /\ FoundStaysAllowed /\ [Next]_vars => FoundStaysAllowed'
<1> SUFFICES ASSUME TypeOK, FoundStaysAllowed, [Next]_vars,
                    NEW c \in Handlers, task'[c].does = "disable"
             PROVE  /\ scopeAllows(task'[c].scope, task'[c].owner)
                    /\ owner'[task'[c].profile] \in {task'[c].owner, Gone}
  BY DEF FoundStaysAllowed, scopeAllows
<1>1. Unused \notin Scopes /\ Unused # Gone
  BY NamesAssumption DEF Gone, Unused
<1>2. CASE task'[c] = task[c]
  <2>1. /\ scopeAllows(task[c].scope, task[c].owner)
        /\ owner[task[c].profile] \in {task[c].owner, Gone}
    BY <1>2 DEF FoundStaysAllowed
  <2>2. task[c].profile \in Profiles /\ task[c].owner \in Scopes
    BY <1>2, TaskFields DEF TypeOK
  <2>3. owner[task[c].profile] # Unused
    BY <1>1, <2>1, <2>2
  <2>4. owner'[task[c].profile] \in {owner[task[c].profile], Gone}
    BY <2>2, <2>3, OwnerIsKept
  <2> QED
    BY <1>2, <2>1, <2>4
<1>3. CASE \E scope \in Scopes, p \in Profiles : FindProfile(c, scope, p)
  <2>1. PICK scope \in Scopes, p \in Profiles : FindProfile(c, scope, p)
    BY <1>3
  <2>2. task'[c] = [does |-> "disable", profile |-> p, owner |-> owner[p], scope |-> scope]
    BY <2>1 DEF FindProfile, Begins, TypeOK
  <2>3. scopeAllows(scope, owner[p]) /\ owner' = owner
    BY <2>1 DEF FindProfile, configVars
  <2> QED
    BY <2>2, <2>3
<1> QED
  BY <1>2, <1>3, DisableTaskFrame

(* A credential disables profiles of its own house only (scopeAllows and    *)
(* the update of profileResource).                                          *)
THEOREM ScopesHold == Spec => HousesAreIsolated
<1>1. Init => FoundStaysAllowed
  BY DEF Init, FoundStaysAllowed, Idle
<1>2. TypeOK /\ FoundStaysAllowed /\ [Next]_vars =>
        [\A p \in disabled' \ disabled :
            \E c \in Handlers :
               /\ task[c].does = "disable" /\ task[c].profile = p
               /\ scopeAllows(task[c].scope, owner[p])]_vars
  <2> SUFFICES ASSUME TypeOK, FoundStaysAllowed, [Next]_vars,
                      NEW p \in disabled' \ disabled
               PROVE  \E c \in Handlers :
                         /\ task[c].does = "disable" /\ task[c].profile = p
                         /\ scopeAllows(task[c].scope, owner[p])
    OBVIOUS
  <2>1. \E c \in Handlers : DisableProfile(c)
    BY ProfileFrame DEF RegisterHouse, AddProfile, DeleteHouse
  <2>2. PICK c \in Handlers : DisableProfile(c)
    BY <2>1
  <2>3. task[c].does = "disable" /\ task[c].profile = p /\ owner[p] # Gone
    BY <2>2 DEF DisableProfile
  <2>4. scopeAllows(task[c].scope, task[c].owner) /\ owner[p] = task[c].owner
    BY <2>3 DEF FoundStaysAllowed
  <2> QED
    BY <2>3, <2>4
<1> QED
  BY <1>1, <1>2, TypeCorrect, FoundStep, PTL DEF Spec, HousesAreIsolated

=============================================================================
