------------------------------ MODULE Profiles ------------------------------
(***************************************************************************)
(* The profiles of one house, as the panel of several parents edits them   *)
(* (internal/admin/server.go, internal/config/config.go).                  *)
(*                                                                         *)
(* A panel loads the profiles, lets a parent change one thing of its own   *)
(* copy, and sends the whole copy back (web/src/api.ts, pages/Panel.tsx):  *)
(* what another parent saved meanwhile may be overwritten, and what the    *)
(* request does not hold is kept.  The server merges the request into the  *)
(* stored profile; the catalog files behind the packages change on their   *)
(* own and are read again when a package is switched on and at every load  *)
(* of the configuration.  Server.update is one step here: how it fails and *)
(* is interleaved is in ControlPlane.  What it does to the lists is here,  *)
(* for policy.NewStore normalises them in place: once before the file is   *)
(* written and once more before the policy is served.                      *)
(*                                                                         *)
(* The list of a group is the set of its domains; rules, default action,   *)
(* label, names and reasons, which no panel edits alone, are left out; of  *)
(* pauses, of the schedules of a group and of time zones a value stands    *)
(* for the whole.  The order of groups is left to PolicyDecision.          *)
(***************************************************************************)
EXTENDS Naturals

CONSTANTS
    Profiles,      \* the profiles of the house
    Panels,        \* open panels
    Packages,      \* groups of the catalog
    Custom,        \* groups that parents add
    CatalogLists,  \* contents of a catalog file
    OwnLists,      \* lists that parents type
    Lists,         \* these, and what normalising makes of them
    Refused,       \* what normalising a list that NewStore refuses gives
    Normalize,     \* what one NewStore makes of each list
    Schedules,     \* schedules of a group
    NoSchedules,   \* the empty list of schedules
    Pauses,        \* pauses of a profile
    NoPauses,      \* the empty list of pauses
    Zones,         \* time zones of the house
    DefaultTimeZone,
    NoGroup,       \* a group the profile does not have
    Keep,          \* a field the request does not hold
    MaxChanges     \* bound on edits, changes of the catalog, and pairing's challenges and ticks

Groups == Packages \union Custom
Actions == {"block", "observe"}

GroupRecords ==
    [action : Actions, domains : Lists, defaults : Lists, source : BOOLEAN,
     customized : BOOLEAN, schedules : Schedules]

ProfileRecords ==
    [version : Nat, endpoint : Nat, disabled : BOOLEAN, pauses : Pauses,
     groups : [Groups -> GroupRecords \union {NoGroup}]]

ASSUME ListsAssumption ==
    /\ CatalogLists \union OwnLists \union {{}} \subseteq Lists
    /\ {} \notin CatalogLists
    /\ Refused \notin Lists
    /\ Normalize \in [Lists -> Lists \union {Refused}]
    /\ \A list \in CatalogLists \union {{}} : Normalize[list] = list
ASSUME ValuesAssumption ==
    /\ NoSchedules \in Schedules
    /\ NoPauses \in Pauses
    /\ DefaultTimeZone \in Zones
    /\ Keep \notin Schedules \union Zones
    /\ NoGroup \notin GroupRecords
    /\ MaxChanges \in Nat

VARIABLES
    zone,      \* House.TimeZone, in memory
    profiles,  \* Config.Profiles, in memory and enforced
    file,      \* both, as WriteAtomic wrote them last
    catalog,   \* the catalog file of each package
    panel,     \* the profiles as each panel shows them
    changes    \* changes so far

profileVars == <<zone, profiles, file, catalog, panel, changes>>

ProfilesTypeOK ==
    /\ zone \in Zones
    /\ profiles \in [Profiles -> ProfileRecords]
    /\ file \in [zone : Zones, profiles : [Profiles -> ProfileRecords]]
    /\ catalog \in [Packages -> CatalogLists]
    /\ panel \in [Panels -> [Profiles -> ProfileRecords]]
    /\ changes \in 0 .. MaxChanges

(* availablePackageGroups: a group as the catalog offers it. *)
catalogGroup(g, action) ==
    [action |-> action, domains |-> catalog[g], defaults |-> catalog[g],
     source |-> TRUE, customized |-> FALSE, schedules |-> NoSchedules]

(* A package that was declared in the file without a list yet. *)
Placeholder(action) ==
    [action |-> action, domains |-> {}, defaults |-> {}, source |-> FALSE,
     customized |-> FALSE, schedules |-> NoSchedules]

ProfilesInit ==
    /\ zone = DefaultTimeZone
    /\ catalog \in [Packages -> CatalogLists]
    /\ \E prepared \in BOOLEAN :
          profiles = [p \in Profiles |->
              [version |-> 1, endpoint |-> 0, disabled |-> FALSE, pauses |-> NoPauses,
               groups |-> [g \in Groups |->
                   IF g \in Custom THEN NoGroup
                   ELSE IF prepared THEN catalogGroup(g, "block")
                   ELSE Placeholder("block")]]]
    /\ file = [zone |-> zone, profiles |-> profiles]
    /\ panel = [w \in Panels |-> profiles]
    /\ changes = 0

Bounded ==
    /\ changes < MaxChanges
    /\ changes' = changes + 1

(* The part of policy.NewStore an edit can fail: the lists of every profile *)
(* that is not disabled.                                                    *)
NewStoreAccepts(candidates) ==
    \A p \in Profiles, g \in Groups :
        ~ candidates[p].disabled /\ candidates[p].groups[g] # NoGroup =>
            Normalize[candidates[p].groups[g].domains] # Refused

normalizedGroup(group) ==
    IF group = NoGroup THEN NoGroup ELSE [group EXCEPT !.domains = Normalize[@]]

(* What NewStore leaves where it found the lists it accepts. *)
normalized(candidates) ==
    [p \in Profiles |->
        IF candidates[p].disabled THEN candidates[p]
        ELSE [candidates[p] EXCEPT
                 !.groups = [g \in Groups |-> normalizedGroup(candidates[p].groups[g])]]]

(* NewStore accepts what it made of the lists before: a Replace after the   *)
(* validation in update, or NewManager after config.Load.                   *)
AcceptedTwice(candidates) ==
    NewStoreAccepts(candidates) /\ NewStoreAccepts(normalized(candidates))

(* Server.update: the file is written between the two.  If the second one   *)
(* fails, the request is answered with an error and memory is as it was.    *)
Saved(candidates, newZone) ==
    /\ NewStoreAccepts(candidates)
    /\ file' = [zone |-> newZone, profiles |-> normalized(candidates)]
    /\ IF AcceptedTwice(candidates)
       THEN profiles' = normalized(normalized(candidates)) /\ zone' = newZone
       ELSE UNCHANGED <<profiles, zone>>

-----------------------------------------------------------------------------
(* PUT of a profile.                                                        *)

(* Bug: the list of the request is taken, customized or not. *)
mergeGroups_TrustsRequest(existing, incoming) ==
    [g \in Groups |->
        IF incoming[g] = NoGroup THEN NoGroup
        ELSE IF existing[g] = NoGroup
        THEN [incoming[g] EXCEPT !.source = FALSE, !.defaults = {}, !.customized = TRUE,
                                 !.schedules = IF @ = Keep THEN NoSchedules ELSE @]
        ELSE [incoming[g] EXCEPT
                 !.source = existing[g].source,
                 !.defaults = existing[g].defaults,
                 !.schedules = IF @ = Keep THEN existing[g].schedules ELSE @]]

(* A group that is stored keeps its source and defaults, and its schedules  *)
(* unless some are sent; one that is not customized returns to its          *)
(* defaults.  A group that is not stored is the parents' own.               *)
mergeGroups(existing, incoming) ==
    [g \in Groups |->
        IF incoming[g] = NoGroup THEN NoGroup
        ELSE IF existing[g] = NoGroup
        THEN [incoming[g] EXCEPT !.source = FALSE, !.defaults = {}, !.customized = TRUE,
                                 !.schedules = IF @ = Keep THEN NoSchedules ELSE @]
        ELSE [incoming[g] EXCEPT
                 !.source = existing[g].source,
                 !.defaults = existing[g].defaults,
                 !.schedules = IF @ = Keep THEN existing[g].schedules ELSE @,
                 !.domains = IF ~ incoming[g].customized /\ existing[g].defaults # {}
                             THEN existing[g].defaults ELSE @]]

(* An unknown group needs a list. *)
mergeable(existing, incoming) ==
    \A g \in Groups : ~ /\ incoming[g] # NoGroup
                        /\ existing[g] = NoGroup
                        /\ incoming[g].domains = {}

(* Bug: the siblings of the profile keep their versions. *)
rezoned_NoBump(p, request) == profiles

(* A new time zone of the house is an edit of every profile in it.          *)
rezoned(p, request) ==
    IF request.zone \in {Keep, zone} THEN profiles
    ELSE [q \in Profiles |->
             IF q = p THEN profiles[q]
             ELSE [profiles[q] EXCEPT !.version = @ + 1]]

(* Bug: the request replaces the profile, fields it does not hold included. *)
edited_WholeCopy(p, request) ==
    [request.copy EXCEPT !.version = profiles[p].version + 1,
                         !.pauses = request.pauses,
                         !.groups = mergeGroups(profiles[p].groups, request.groups)]

edited(p, request) ==
    [profiles[p] EXCEPT !.version = @ + 1,
                        !.pauses = request.pauses,
                        !.groups = mergeGroups(profiles[p].groups, request.groups)]

(* The panel shows the profile that the server answered with, if it did.    *)
Answered(w, p, candidates) ==
    panel' = IF AcceptedTwice(candidates)
             THEN [panel EXCEPT ![w][p] = normalized(normalized(candidates))[p]]
             ELSE panel

Put(w, p, request) ==
    LET candidates == [rezoned(p, request) EXCEPT ![p] = edited(p, request)]
    IN /\ mergeable(profiles[p].groups, request.groups)
       /\ Bounded
       /\ Saved(candidates, IF request.zone = Keep THEN zone ELSE request.zone)
       /\ Answered(w, p, candidates)
       /\ UNCHANGED catalog

-----------------------------------------------------------------------------
(* The panel.                                                               *)

(* The copy as JSON: an empty list of schedules is omitted. *)
asSent(groups) ==
    [g \in Groups |->
        IF groups[g] = NoGroup THEN NoGroup
        ELSE [groups[g] EXCEPT !.schedules = IF @ = NoSchedules THEN Keep ELSE @]]

(* updateProfile: the whole copy, with one group replaced. *)
putGroup(w, p, g, group) ==
    Put(w, p, [copy |-> panel[w][p],
               groups |-> [asSent(panel[w][p].groups) EXCEPT ![g] = group],
               pauses |-> panel[w][p].pauses, zone |-> Keep])

LoadPanel(w) ==
    /\ panel' = [panel EXCEPT ![w] = profiles]
    /\ UNCHANGED <<zone, profiles, file, catalog, changes>>

(* updateGroup: the action of a group is switched. *)
SwitchGroup(w, p, g, action) ==
    /\ panel[w][p].groups[g] # NoGroup
    /\ panel[w][p].groups[g].action # action
    /\ putGroup(w, p, g, [asSent(panel[w][p].groups)[g] EXCEPT !.action = action])

(* GroupDrawer: the list is typed anew ... *)
TypeList(w, p, g, list) ==
    /\ panel[w][p].groups[g] # NoGroup
    /\ putGroup(w, p, g, [panel[w][p].groups[g] EXCEPT !.domains = list, !.customized = TRUE])

(* ... or restored ... *)
RestoreDefaults(w, p, g) ==
    /\ panel[w][p].groups[g] # NoGroup
    /\ panel[w][p].groups[g].defaults # {}
    /\ putGroup(w, p, g, [panel[w][p].groups[g] EXCEPT
                             !.domains = panel[w][p].groups[g].defaults, !.customized = FALSE])

(* ... its schedules are changed ... *)
Schedule(w, p, g, schedules) ==
    /\ panel[w][p].groups[g] # NoGroup
    /\ panel[w][p].groups[g].domains # {}
    /\ panel[w][p].groups[g].schedules # schedules
    /\ putGroup(w, p, g, [panel[w][p].groups[g] EXCEPT !.schedules = schedules])

(* ... or a group is added, with an identifier nobody has used. *)
AddGroup(w, p, g, list) ==
    /\ profiles[p].groups[g] = NoGroup
    /\ \A v \in Panels : panel[v][p].groups[g] = NoGroup
    /\ putGroup(w, p, g, [action |-> "block", domains |-> list, defaults |-> {},
                          source |-> FALSE, customized |-> TRUE, schedules |-> NoSchedules])

(* ScheduleDrawer: pauses of the profile and time zone of the house. *)
SetPauses(w, p, pauses, newZone) ==
    /\ pauses # panel[w][p].pauses \/ newZone # zone
    /\ Put(w, p, [copy |-> panel[w][p], groups |-> asSent(panel[w][p].groups),
                  pauses |-> pauses, zone |-> newZone])

-----------------------------------------------------------------------------
(* Other operations.                                                        *)

(* One profile is changed and its version raised. *)
Updated(w, p, profile) ==
    LET candidates == [profiles EXCEPT ![p] = profile]
    IN /\ Bounded
       /\ Saved(candidates, zone)
       /\ Answered(w, p, candidates)
       /\ UNCHANGED catalog

(* updateProfilePackage: a group that has a list only changes its action.   *)
EnablePackage(w, p, g, action) ==
    LET stored == profiles[p].groups[g]
        listed == stored # NoGroup /\ stored.domains # {}
        enabled == IF listed THEN [stored EXCEPT !.action = action]
                   ELSE catalogGroup(g, action)
    IN Updated(w, p, [profiles[p] EXCEPT !.version = @ + 1, !.groups[g] = enabled])

DisablePackage(w, p, g) ==
    Updated(w, p, [profiles[p] EXCEPT !.version = @ + 1, !.groups[g] = NoGroup])

rotateEndpoint(w, p) ==
    Updated(w, p, [profiles[p] EXCEPT !.version = @ + 1, !.endpoint = @ + 1])

(* DELETE of a profile; nothing enables it again. *)
DisableProfile(p) ==
    /\ Bounded
    /\ Saved([profiles EXCEPT ![p].disabled = TRUE, ![p].version = @ + 1], zone)
    /\ UNCHANGED <<catalog, panel>>

(* The catalog files are built anew. *)
CatalogChanges(g, list) ==
    /\ Bounded
    /\ catalog' = [catalog EXCEPT ![g] = list]
    /\ UNCHANGED <<zone, profiles, file, panel>>

-----------------------------------------------------------------------------
(* config.Load of what WriteAtomic wrote.                                   *)

(* Bug: a list with a source is that of the catalog, customized or not. *)
loadGroup_IgnoresCustomized(g, group) ==
    IF group = NoGroup THEN NoGroup
    ELSE IF group.source
    THEN [group EXCEPT !.defaults = catalog[g], !.domains = catalog[g]]
    ELSE [group EXCEPT !.defaults = IF @ = {} THEN group.domains ELSE @]

(* A group with a source takes its defaults from the catalog, and its list  *)
(* too unless it is customized; of another, the defaults were omitted from  *)
(* the file if they were empty, and are now its list.                       *)
loadGroup(g, group) ==
    IF group = NoGroup THEN NoGroup
    ELSE IF group.source
    THEN [group EXCEPT !.defaults = catalog[g],
                       !.domains = IF group.customized THEN @ ELSE catalog[g]]
    ELSE [group EXCEPT !.defaults = IF @ = {} THEN group.domains ELSE @]

Load ==
    [p \in Profiles |->
        [file.profiles[p] EXCEPT
            !.groups = [g \in Groups |-> loadGroup(g, file.profiles[p].groups[g])]]]

(* A restart, or a reload by SIGHUP: config.Load ends with NewStore, and    *)
(* NewManager or Replace runs it again.  Neither starts from a refused file.*)
Reload ==
    /\ AcceptedTwice(Load)
    /\ profiles' = normalized(normalized(Load))
    /\ zone' = file.zone
    /\ UNCHANGED <<file, catalog, panel, changes>>

(* What a panel offers for a profile it does not show as removed. *)
Edits(w, p) ==
    \/ \E g \in Groups, action \in Actions : SwitchGroup(w, p, g, action)
    \/ \E g \in Groups, list \in OwnLists : TypeList(w, p, g, list)
    \/ \E g \in Groups : RestoreDefaults(w, p, g)
    \/ \E g \in Groups, schedules \in Schedules : Schedule(w, p, g, schedules)
    \/ \E g \in Custom, list \in OwnLists : AddGroup(w, p, g, list)
    \/ \E pauses \in Pauses, newZone \in Zones : SetPauses(w, p, pauses, newZone)
    \/ \E g \in Packages, action \in Actions : EnablePackage(w, p, g, action)
    \/ \E g \in Packages : DisablePackage(w, p, g)
    \/ rotateEndpoint(w, p)

ProfilesNext ==
    \/ \E w \in Panels : LoadPanel(w)
    \/ \E w \in Panels, p \in Profiles : ~ panel[w][p].disabled /\ Edits(w, p)
    \/ \E p \in Profiles : DisableProfile(p)
    \/ \E g \in Packages, list \in CatalogLists : CatalogChanges(g, list)
    \/ Reload

-----------------------------------------------------------------------------
(* A list that the next Load may replace: no parent has typed it.           *)
FollowsCatalog(group) ==
    group.source /\ ~ group.customized /\ group.domains = group.defaults

(* Normalising the list once more changes nothing.  Names that end in two   *)
(* dots or more lose one each time.                                         *)
settled(list) == Normalize[list] = list

(* What can differ between two policies of one version, or over a restart:  *)
(* the lists of groups that follow the catalog, and lists not settled yet.  *)
SamePolicyBut(group, later) ==
    \/ later = NoGroup /\ group = NoGroup
    \/ /\ NoGroup \notin {group, later}
       /\ later.action = group.action
       /\ later.schedules = group.schedules
       /\ later.domains # group.domains =>
             FollowsCatalog(group) \/ ~ settled(group.domains)

(* A restart starts, unless the file holds a list that is not settled, and  *)
(* if it starts it enforces what the parents saved last with success: time  *)
(* zone, removals, pauses, groups and lists, whatever was edited from stale *)
(* copies, by several parents and with packages switched on and off, and    *)
(* whatever a refused edit left in the file.                                *)
RestartKeepsPolicy ==
    /\ (\A p \in Profiles, g \in Groups :
           LET group == file.profiles[p].groups[g]
           IN group = NoGroup \/ file.profiles[p].disabled \/ settled(group.domains))
       => AcceptedTwice(Load)
    /\ AcceptedTwice(Load) =>
           /\ file.zone = zone
           /\ \A p \in Profiles :
                 LET restarted == normalized(normalized(Load))[p]
                 IN /\ restarted.disabled = profiles[p].disabled
                    /\ restarted.pauses = profiles[p].pauses
                    /\ \A g \in Groups :
                          SamePolicyBut(profiles[p].groups[g], restarted.groups[g])

(* The version of a profile, which every logged decision carries, names its *)
(* policy: nothing a parent may set changes without it, in the profile that *)
(* is edited, in its siblings that share the time zone, or at a restart;    *)
(* only the lists that are not settled lose a dot with every save.          *)
VersionNamesPolicy ==
    [][\A p \in Profiles :
          \/ profiles'[p].version > profiles[p].version
          \/ /\ profiles'[p].version = profiles[p].version
             /\ zone' = zone
             /\ profiles'[p].pauses = profiles[p].pauses
             /\ \A g \in Groups :
                   SamePolicyBut(profiles[p].groups[g], profiles'[p].groups[g])]_profileVars

(* What a parent has revoked stays revoked: a stale copy that is saved, or  *)
(* a restart, brings back neither a removed profile nor an old endpoint.    *)
RevocationIsFinal ==
    [][\A p \in Profiles :
          /\ profiles[p].disabled => profiles'[p].disabled
          /\ profiles'[p].endpoint >= profiles[p].endpoint]_profileVars
=============================================================================
