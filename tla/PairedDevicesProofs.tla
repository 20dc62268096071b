------------------------ MODULE PairedDevicesProofs -------------------------
(***************************************************************************)
(* What the runs of MCPairedDevices check on one house of two profiles, for *)
(* any number of profiles, panels, groups, lists and challenges: a restart  *)
(* keeps the parents' policy, a version names one policy, revocations are   *)
(* final, and a session's token reads the policy of its own device.         *)
(*                                                                          *)
(* Every operation of a panel, whatever stale copy it starts from, is shown *)
(* to be an Edited step: one profile is replaced by a successor of the one  *)
(* that is STORED, its siblings are left alone or raised by a version, and  *)
(* all of them are saved.  The file is compared with memory group by group. *)
(***************************************************************************)
EXTENDS PairedDevices, LoopLemmas, FiniteSetTheorems, FunctionTheorems, TLAPS

(* What holds of every stored group.  A group with a source is a package,   *)
(* its defaults are a list of the catalog, hence not empty, and its list is *)
(* that one unless it is customized.                                        *)
GroupOK(g, group) ==
    group # NoGroup /\ group.source =>
        /\ g \in Packages
        /\ group.defaults \in CatalogLists
        /\ group.customized \/ group.domains = group.defaults

GroupsOK(candidates) ==
    \A p \in Profiles, g \in Groups : GroupOK(g, candidates[p].groups[g])

(* NewStore accepts the list, and what it makes of it.                      *)
Twice(list) == Normalize[list] # Refused /\ Normalize[Normalize[list]] # Refused

FromCatalog(group) == group.source /\ ~ group.customized

(* The enforced group is what a save or a load makes of the stored one.     *)
GroupMatches(disabled, stored, group) ==
    \/ stored = NoGroup /\ group = NoGroup
    \/ /\ NoGroup \notin {stored, group}
       /\ group.action = stored.action
       /\ group.schedules = stored.schedules
       /\ group.source = stored.source
       /\ group.customized = stored.customized
       /\ \/ FromCatalog(group)
          \/ disabled /\ group.domains = stored.domains
          \/ /\ ~ disabled
             /\ group.domains \in {Normalize[stored.domains],
                                   Normalize[Normalize[stored.domains]]}

ProfileMatches(stored, profile) ==
    /\ profile.version = stored.version
    /\ profile.endpoint = stored.endpoint
    /\ profile.disabled = stored.disabled
    /\ profile.pauses = stored.pauses
    /\ \A g \in Groups : GroupMatches(stored.disabled, stored.groups[g], profile.groups[g])

(* The file loads, whatever is in the catalog.                              *)
GroupLoads(disabled, group) ==
    disabled \/ group = NoGroup \/ FromCatalog(group) \/ Twice(group.domains)

FileLoads ==
    \A p \in Profiles, g \in Groups :
        GroupLoads(file.profiles[p].disabled, file.profiles[p].groups[g])

(* The file holds what is enforced, unless a refused edit broke it.         *)
FileInv ==
    FileLoads =>
        /\ file.zone = zone
        /\ \A p \in Profiles : ProfileMatches(file.profiles[p], profiles[p])

ProfilesInv == GroupsOK(profiles) /\ GroupsOK(file.profiles) /\ FileInv

(* Groups as a panel sends them. *)
SentGroups ==
    [action : Actions, domains : Lists, defaults : Lists, source : BOOLEAN,
     customized : BOOLEAN, schedules : Schedules \union {Keep}]

GroupMaps == [Groups -> GroupRecords \union {NoGroup}]
SentMaps == [Groups -> SentGroups \union {NoGroup}]

(* What an edit makes of one profile. *)
Successor(p, updated) ==
    /\ updated \in ProfileRecords
    /\ updated.version = profiles[p].version + 1
    /\ updated.disabled = profiles[p].disabled
    /\ updated.endpoint >= profiles[p].endpoint
    /\ \A g \in Groups : GroupOK(g, updated.groups[g])

Raised == [q \in Profiles |-> [profiles[q] EXCEPT !.version = @ + 1]]

(* What an edit of p saves: its successor, and its siblings as they are, or *)
(* raised when the time zone changes with them.                             *)
Succession(p, candidates, newZone) ==
    /\ candidates \in [Profiles -> ProfileRecords]
    /\ newZone \in Zones
    /\ Successor(p, candidates[p])
    /\ \/ newZone = zone /\ \A q \in Profiles \ {p} : candidates[q] = profiles[q]
       \/ \A q \in Profiles \ {p} : candidates[q] = Raised[q]

(* An edit, as far as what is proved here depends on it. *)
Edited(w, p) ==
    \E candidates \in [Profiles -> ProfileRecords], newZone \in Zones :
        /\ Succession(p, candidates, newZone)
        /\ Saved(candidates, newZone)
        /\ Answered(w, p, candidates)
        /\ changes' \in 0 .. MaxChanges
        /\ catalog' = catalog

-----------------------------------------------------------------------------
LEMMA BoundedCounts ==
    ASSUME ProfilesTypeOK, Bounded
    PROVE  changes' \in 0 .. MaxChanges
BY ValuesAssumption DEF ProfilesTypeOK, Bounded

-----------------------------------------------------------------------------
(* Normalising.                                                             *)
LEMMA NormalizedGroup ==
    ASSUME NEW g \in Groups, NEW group \in GroupRecords \union {NoGroup}, GroupOK(g, group),
           group # NoGroup => Normalize[group.domains] # Refused
    PROVE  /\ normalizedGroup(group) \in GroupRecords \union {NoGroup}
           /\ GroupOK(g, normalizedGroup(group))
           /\ group = NoGroup => normalizedGroup(group) = NoGroup
           /\ group # NoGroup =>
                 /\ normalizedGroup(group) # NoGroup
                 /\ normalizedGroup(group).action = group.action
                 /\ normalizedGroup(group).schedules = group.schedules
                 /\ normalizedGroup(group).source = group.source
                 /\ normalizedGroup(group).customized = group.customized
                 /\ normalizedGroup(group).domains = Normalize[group.domains]
<1>1. CASE group = NoGroup
  BY <1>1 DEF normalizedGroup, GroupOK
<1>2. CASE group # NoGroup
  <2>1. group \in GroupRecords
    BY <1>2
  <2>2. group.domains \in Lists /\ Normalize[group.domains] \in Lists
    BY <1>2, <2>1, ListsAssumption DEF GroupRecords
  <2>3. normalizedGroup(group) = [group EXCEPT !.domains = Normalize[group.domains]]
    BY <1>2, <2>1 DEF normalizedGroup, GroupRecords
  <2>4. /\ normalizedGroup(group) \in GroupRecords
        /\ normalizedGroup(group).action = group.action
        /\ normalizedGroup(group).schedules = group.schedules
        /\ normalizedGroup(group).source = group.source
        /\ normalizedGroup(group).customized = group.customized
        /\ normalizedGroup(group).defaults = group.defaults
        /\ normalizedGroup(group).domains = Normalize[group.domains]
    BY <2>1, <2>2, <2>3 DEF GroupRecords
  <2>5. GroupOK(g, normalizedGroup(group))
    BY <1>2, <2>4, ListsAssumption DEF GroupOK
  <2> QED BY <1>2, <2>4, <2>5, ValuesAssumption
<1> QED BY <1>1, <1>2

LEMMA NormalizedProfiles ==
    ASSUME NEW candidates \in [Profiles -> ProfileRecords], GroupsOK(candidates),
           NewStoreAccepts(candidates)
    PROVE  /\ normalized(candidates) \in [Profiles -> ProfileRecords]
           /\ GroupsOK(normalized(candidates))
           /\ \A p \in Profiles :
                 /\ normalized(candidates)[p].version = candidates[p].version
                 /\ normalized(candidates)[p].endpoint = candidates[p].endpoint
                 /\ normalized(candidates)[p].disabled = candidates[p].disabled
                 /\ normalized(candidates)[p].pauses = candidates[p].pauses
                 /\ \A g \in Groups :
                       normalized(candidates)[p].groups[g] =
                           IF candidates[p].disabled THEN candidates[p].groups[g]
                           ELSE normalizedGroup(candidates[p].groups[g])
<1>1. ASSUME NEW p \in Profiles
      PROVE  /\ normalized(candidates)[p] \in ProfileRecords
             /\ normalized(candidates)[p].version = candidates[p].version
             /\ normalized(candidates)[p].endpoint = candidates[p].endpoint
             /\ normalized(candidates)[p].disabled = candidates[p].disabled
             /\ normalized(candidates)[p].pauses = candidates[p].pauses
             /\ \A g \in Groups :
                   /\ GroupOK(g, normalized(candidates)[p].groups[g])
                   /\ normalized(candidates)[p].groups[g] =
                         IF candidates[p].disabled THEN candidates[p].groups[g]
                         ELSE normalizedGroup(candidates[p].groups[g])
  <2> DEFINE gs == [g \in Groups |-> normalizedGroup(candidates[p].groups[g])]
  <2>1. /\ candidates[p] \in ProfileRecords
        /\ candidates[p].groups \in GroupMaps
        /\ \A g \in Groups : GroupOK(g, candidates[p].groups[g])
    BY DEF ProfileRecords, GroupMaps, GroupsOK
  <2>2. CASE candidates[p].disabled
    <3>1. normalized(candidates)[p] = candidates[p]
      BY <2>2 DEF normalized
    <3> QED BY <2>1, <2>2, <3>1
  <2>3. CASE ~ candidates[p].disabled
    <3>1. \A g \in Groups :
            /\ gs[g] = normalizedGroup(candidates[p].groups[g])
            /\ gs[g] \in GroupRecords \union {NoGroup}
            /\ GroupOK(g, gs[g])
      <4> SUFFICES ASSUME NEW g \in Groups
                   PROVE  /\ gs[g] \in GroupRecords \union {NoGroup}
                          /\ GroupOK(g, gs[g])
        OBVIOUS
      <4>1. candidates[p].groups[g] \in GroupRecords \union {NoGroup}
        BY <2>1 DEF GroupMaps
      <4>2. candidates[p].groups[g] # NoGroup =>
              Normalize[candidates[p].groups[g].domains] # Refused
        BY <2>3 DEF NewStoreAccepts
      <4> QED BY <2>1, <4>1, <4>2, NormalizedGroup
    <3>2. gs \in GroupMaps
      BY <3>1 DEF GroupMaps
    <3>3. normalized(candidates)[p] = [candidates[p] EXCEPT !.groups = gs]
      BY <2>3 DEF normalized
    <3> HIDE DEF gs
    <3>4. /\ normalized(candidates)[p] \in ProfileRecords
          /\ normalized(candidates)[p].version = candidates[p].version
          /\ normalized(candidates)[p].endpoint = candidates[p].endpoint
          /\ normalized(candidates)[p].disabled = candidates[p].disabled
          /\ normalized(candidates)[p].pauses = candidates[p].pauses
          /\ normalized(candidates)[p].groups = gs
      BY <2>1, <3>2, <3>3 DEF ProfileRecords, GroupMaps
    <3> QED BY <2>3, <3>1, <3>4
  <2> QED BY <2>2, <2>3
<1>2. normalized(candidates) \in [Profiles -> ProfileRecords]
  BY <1>1 DEF normalized
<1> QED BY <1>1, <1>2 DEF GroupsOK

(* Accepted twice: group by group.                                          *)
LEMMA AcceptedTwiceMeans ==
    ASSUME NEW candidates \in [Profiles -> ProfileRecords], GroupsOK(candidates)
    PROVE  AcceptedTwice(candidates) <=>
               \A p \in Profiles, g \in Groups :
                   \/ candidates[p].disabled
                   \/ candidates[p].groups[g] = NoGroup
                   \/ Twice(candidates[p].groups[g].domains)
<1> DEFINE n == normalized(candidates)
<1>1. CASE ~ NewStoreAccepts(candidates)
  <2>1. PICK p \in Profiles, g \in Groups :
            /\ ~ candidates[p].disabled /\ candidates[p].groups[g] # NoGroup
            /\ Normalize[candidates[p].groups[g].domains] = Refused
    BY <1>1 DEF NewStoreAccepts
  <2>2. ~ Twice(candidates[p].groups[g].domains)
    BY <2>1 DEF Twice
  <2> QED BY <1>1, <2>1, <2>2 DEF AcceptedTwice
<1>2. CASE NewStoreAccepts(candidates)
  <2>1. ASSUME NEW p \in Profiles, NEW g \in Groups, ~ candidates[p].disabled
        PROVE  /\ ~ n[p].disabled
               /\ candidates[p].groups[g] = NoGroup => n[p].groups[g] = NoGroup
               /\ candidates[p].groups[g] # NoGroup =>
                     /\ n[p].groups[g] # NoGroup
                     /\ Normalize[candidates[p].groups[g].domains] # Refused
                     /\ n[p].groups[g].domains = Normalize[candidates[p].groups[g].domains]
    <3>1. n[p].disabled = candidates[p].disabled
          /\ n[p].groups[g] = normalizedGroup(candidates[p].groups[g])
      BY <1>2, <2>1, NormalizedProfiles
    <3>2. candidates[p].groups[g] \in GroupRecords \union {NoGroup}
          /\ GroupOK(g, candidates[p].groups[g])
      BY DEF ProfileRecords, GroupsOK
    <3>3. candidates[p].groups[g] # NoGroup =>
            Normalize[candidates[p].groups[g].domains] # Refused
      BY <1>2, <2>1 DEF NewStoreAccepts
    <3> HIDE DEF n
    <3> QED BY <2>1, <3>1, <3>2, <3>3, NormalizedGroup
  <2>2. ASSUME NEW p \in Profiles, candidates[p].disabled
        PROVE  n[p].disabled
    BY <1>2, <2>2, NormalizedProfiles
  <2>3. AcceptedTwice(candidates) <=> NewStoreAccepts(n)
    BY <1>2 DEF AcceptedTwice
  <2> HIDE DEF n
  <2> QED BY <2>1, <2>2, <2>3 DEF NewStoreAccepts, Twice
<1> QED BY <1>1, <1>2

(* What two runs of NewStore leave of profiles they accept.                 *)
LEMMA NormalizedTwice ==
    ASSUME NEW candidates \in [Profiles -> ProfileRecords], GroupsOK(candidates),
           AcceptedTwice(candidates)
    PROVE  LET twice == normalized(normalized(candidates))
           IN /\ twice \in [Profiles -> ProfileRecords]
              /\ GroupsOK(twice)
              /\ \A p \in Profiles :
                    /\ twice[p].version = candidates[p].version
                    /\ twice[p].endpoint = candidates[p].endpoint
                    /\ twice[p].disabled = candidates[p].disabled
                    /\ twice[p].pauses = candidates[p].pauses
                    /\ candidates[p].disabled => twice[p].groups = candidates[p].groups
                    /\ \A g \in Groups :
                          \/ candidates[p].groups[g] = NoGroup /\ twice[p].groups[g] = NoGroup
                          \/ /\ NoGroup \notin {candidates[p].groups[g], twice[p].groups[g]}
                             /\ twice[p].groups[g].action = candidates[p].groups[g].action
                             /\ twice[p].groups[g].schedules = candidates[p].groups[g].schedules
                             /\ twice[p].groups[g].source = candidates[p].groups[g].source
                             /\ twice[p].groups[g].customized = candidates[p].groups[g].customized
                             /\ twice[p].groups[g].domains =
                                   IF candidates[p].disabled THEN candidates[p].groups[g].domains
                                   ELSE Normalize[Normalize[candidates[p].groups[g].domains]]
<1> DEFINE once == normalized(candidates)
           twice == normalized(once)
<1>1. NewStoreAccepts(candidates) /\ NewStoreAccepts(once)
  BY DEF AcceptedTwice
<1>2. /\ once \in [Profiles -> ProfileRecords] /\ GroupsOK(once)
      /\ \A p \in Profiles :
            /\ once[p].version = candidates[p].version
            /\ once[p].endpoint = candidates[p].endpoint
            /\ once[p].disabled = candidates[p].disabled
            /\ once[p].pauses = candidates[p].pauses
            /\ \A g \in Groups :
                  once[p].groups[g] = IF candidates[p].disabled THEN candidates[p].groups[g]
                                      ELSE normalizedGroup(candidates[p].groups[g])
  BY <1>1, NormalizedProfiles
<1> HIDE DEF once
<1>3. /\ twice \in [Profiles -> ProfileRecords] /\ GroupsOK(twice)
      /\ \A p \in Profiles :
            /\ twice[p].version = once[p].version
            /\ twice[p].endpoint = once[p].endpoint
            /\ twice[p].disabled = once[p].disabled
            /\ twice[p].pauses = once[p].pauses
            /\ \A g \in Groups :
                  twice[p].groups[g] = IF once[p].disabled THEN once[p].groups[g]
                                       ELSE normalizedGroup(once[p].groups[g])
  BY <1>1, <1>2, NormalizedProfiles
<1> HIDE DEF twice
<1>4. ASSUME NEW p \in Profiles, candidates[p].disabled
      PROVE  twice[p].groups = candidates[p].groups
  <2>1. twice[p] \in ProfileRecords /\ candidates[p] \in ProfileRecords
    BY <1>3
  <2>2. twice[p].groups \in GroupMaps /\ candidates[p].groups \in GroupMaps
    BY <2>1 DEF ProfileRecords, GroupMaps
  <2>3. \A g \in Groups : twice[p].groups[g] = candidates[p].groups[g]
    BY <1>2, <1>3, <1>4
  <2> QED BY <2>2, <2>3 DEF GroupMaps
<1>5. ASSUME NEW p \in Profiles, NEW g \in Groups
      PROVE  \/ candidates[p].groups[g] = NoGroup /\ twice[p].groups[g] = NoGroup
             \/ /\ NoGroup \notin {candidates[p].groups[g], twice[p].groups[g]}
                /\ twice[p].groups[g].action = candidates[p].groups[g].action
                /\ twice[p].groups[g].schedules = candidates[p].groups[g].schedules
                /\ twice[p].groups[g].source = candidates[p].groups[g].source
                /\ twice[p].groups[g].customized = candidates[p].groups[g].customized
                /\ twice[p].groups[g].domains =
                      IF candidates[p].disabled THEN candidates[p].groups[g].domains
                      ELSE Normalize[Normalize[candidates[p].groups[g].domains]]
  <2>1. CASE candidates[p].disabled
    BY <1>4, <2>1
  <2>2. CASE ~ candidates[p].disabled
    <3>1. /\ once[p].groups[g] = normalizedGroup(candidates[p].groups[g])
          /\ twice[p].groups[g] = normalizedGroup(once[p].groups[g])
          /\ ~ once[p].disabled
      BY <1>2, <1>3, <2>2
    <3>2. /\ candidates[p].groups[g] \in GroupRecords \union {NoGroup}
          /\ once[p].groups[g] \in GroupRecords \union {NoGroup}
          /\ GroupOK(g, candidates[p].groups[g]) /\ GroupOK(g, once[p].groups[g])
      BY <1>2 DEF ProfileRecords, GroupsOK
    <3>3. /\ candidates[p].groups[g] # NoGroup =>
                Normalize[candidates[p].groups[g].domains] # Refused
          /\ once[p].groups[g] # NoGroup => Normalize[once[p].groups[g].domains] # Refused
      BY <1>1, <2>2, <3>1 DEF NewStoreAccepts
    <3> QED BY <2>2, <3>1, <3>2, <3>3, NormalizedGroup
  <2> QED BY <2>1, <2>2
<1> QED BY <1>2, <1>3, <1>4, <1>5 DEF once, twice

(* Saving keeps the types, the groups, and the agreement with the file: of  *)
(* an edit that the second NewStore refuses, the file does not load.        *)
LEMMA SavedKeeps ==
    ASSUME ProfilesTypeOK, ProfilesInv, NEW newZone \in Zones,
           NEW candidates \in [Profiles -> ProfileRecords], GroupsOK(candidates),
           Saved(candidates, newZone)
    PROVE  /\ profiles' \in [Profiles -> ProfileRecords]
           /\ zone' \in Zones
           /\ file' \in [zone : Zones, profiles : [Profiles -> ProfileRecords]]
           /\ ProfilesInv'
<1> DEFINE once == normalized(candidates)
           twice == normalized(once)
<1>1. /\ NewStoreAccepts(candidates)
      /\ file' = [zone |-> newZone, profiles |-> once]
  BY DEF Saved
<1>2. once \in [Profiles -> ProfileRecords] /\ GroupsOK(once)
  BY <1>1, NormalizedProfiles
<1>3. file' \in [zone : Zones, profiles : [Profiles -> ProfileRecords]]
  BY <1>1, <1>2
<1>4. file'.profiles = once /\ file'.zone = newZone
  BY <1>1
<1>5. CASE NewStoreAccepts(once)
  <2>1. profiles' = twice /\ zone' = newZone
    BY <1>1, <1>5 DEF Saved, AcceptedTwice
  <2> HIDE DEF once
  <2>2. /\ twice \in [Profiles -> ProfileRecords] /\ GroupsOK(twice)
        /\ \A p \in Profiles :
              /\ twice[p].version = once[p].version
              /\ twice[p].endpoint = once[p].endpoint
              /\ twice[p].disabled = once[p].disabled
              /\ twice[p].pauses = once[p].pauses
              /\ \A g \in Groups :
                    twice[p].groups[g] = IF once[p].disabled THEN once[p].groups[g]
                                         ELSE normalizedGroup(once[p].groups[g])
    BY <1>2, <1>5, NormalizedProfiles
  <2> HIDE DEF twice
  <2>3. ASSUME NEW p \in Profiles, NEW g \in Groups
        PROVE  GroupMatches(once[p].disabled, once[p].groups[g], twice[p].groups[g])
    <3>1. once[p].groups[g] \in GroupRecords \union {NoGroup} /\ GroupOK(g, once[p].groups[g])
      BY <1>2 DEF ProfileRecords, GroupsOK
    <3>2. CASE once[p].disabled
      BY <2>2, <3>2 DEF GroupMatches
    <3>3. CASE ~ once[p].disabled
      <4>1. once[p].groups[g] # NoGroup => Normalize[once[p].groups[g].domains] # Refused
        BY <1>5, <3>3 DEF NewStoreAccepts
      <4>2. twice[p].groups[g] = normalizedGroup(once[p].groups[g])
        BY <2>2, <3>3
      <4> QED BY <3>1, <3>3, <4>1, <4>2, NormalizedGroup DEF GroupMatches
    <3> QED BY <3>2, <3>3
  <2>4. \A p \in Profiles : ProfileMatches(once[p], twice[p])
    BY <2>2, <2>3 DEF ProfileMatches
  <2>5. ProfilesInv'
    BY <1>2, <1>4, <2>1, <2>2, <2>4 DEF ProfilesInv, FileInv, GroupsOK, GroupOK
  <2> QED BY <1>3, <2>1, <2>2, <2>5
<1>6. CASE ~ NewStoreAccepts(once)
  <2>1. profiles' = profiles /\ zone' = zone
    BY <1>1, <1>6 DEF Saved, AcceptedTwice
  <2> HIDE DEF once
  <2>2. PICK p \in Profiles, g \in Groups :
            /\ ~ once[p].disabled /\ once[p].groups[g] # NoGroup
            /\ Normalize[once[p].groups[g].domains] = Refused
    BY <1>6 DEF NewStoreAccepts
  <2>3. GroupOK(g, once[p].groups[g]) /\ once[p].groups[g] \in GroupRecords
    BY <1>2, <2>2 DEF ProfileRecords, GroupsOK
  <2>4. ~ FromCatalog(once[p].groups[g])
    BY <2>2, <2>3, ListsAssumption DEF GroupOK, FromCatalog
  <2>5. ~ GroupLoads(once[p].disabled, once[p].groups[g])
    BY <2>2, <2>4 DEF GroupLoads, Twice
  <2>6. ~ FileLoads'
    BY <1>4, <2>5 DEF FileLoads
  <2>7. ProfilesInv'
    BY <1>2, <1>4, <2>1, <2>6 DEF ProfilesInv, FileInv, GroupsOK, GroupOK
  <2> QED BY <1>3, <2>1, <2>7 DEF ProfilesTypeOK
<1> QED BY <1>5, <1>6

(* What a save changes: nothing, or what was to be saved takes effect, with *)
(* the lists that were not settled normalised.                              *)
LEMMA SavedMoves ==
    ASSUME NEW newZone \in Zones, NEW candidates \in [Profiles -> ProfileRecords],
           GroupsOK(candidates), Saved(candidates, newZone), NEW r \in Profiles
    PROVE  \/ profiles' = profiles /\ zone' = zone
           \/ /\ zone' = newZone
              /\ profiles'[r].version = candidates[r].version
              /\ profiles'[r].endpoint = candidates[r].endpoint
              /\ profiles'[r].disabled = candidates[r].disabled
              /\ profiles'[r].pauses = candidates[r].pauses
              /\ \A g \in Groups :
                    SamePolicyBut(candidates[r].groups[g], profiles'[r].groups[g])
<1>1. CASE ~ AcceptedTwice(candidates)
  BY <1>1 DEF Saved
<1>2. CASE AcceptedTwice(candidates)
  <2>1. profiles' = normalized(normalized(candidates)) /\ zone' = newZone
    BY <1>2 DEF Saved
  <2>2. /\ profiles'[r].version = candidates[r].version
        /\ profiles'[r].endpoint = candidates[r].endpoint
        /\ profiles'[r].disabled = candidates[r].disabled
        /\ profiles'[r].pauses = candidates[r].pauses
    BY <1>2, <2>1, NormalizedTwice
  <2>3. ASSUME NEW g \in Groups
        PROVE  SamePolicyBut(candidates[r].groups[g], profiles'[r].groups[g])
    <3>1. \/ candidates[r].groups[g] = NoGroup /\ profiles'[r].groups[g] = NoGroup
          \/ /\ NoGroup \notin {candidates[r].groups[g], profiles'[r].groups[g]}
             /\ profiles'[r].groups[g].action = candidates[r].groups[g].action
             /\ profiles'[r].groups[g].schedules = candidates[r].groups[g].schedules
             /\ profiles'[r].groups[g].domains =
                   IF candidates[r].disabled THEN candidates[r].groups[g].domains
                   ELSE Normalize[Normalize[candidates[r].groups[g].domains]]
      BY <1>2, <2>1, NormalizedTwice
    <3> QED BY <3>1 DEF SamePolicyBut, settled
  <2> QED BY <2>1, <2>2, <2>3
<1> QED BY <1>1, <1>2

LEMMA SuccessionOK ==
    ASSUME ProfilesTypeOK, ProfilesInv, NEW p \in Profiles, NEW candidates, NEW newZone,
           Succession(p, candidates, newZone)
    PROVE  GroupsOK(candidates)
<1> SUFFICES ASSUME NEW r \in Profiles, NEW g \in Groups
             PROVE  GroupOK(g, candidates[r].groups[g])
  BY DEF GroupsOK
<1>1. CASE r = p
  BY <1>1 DEF Succession, Successor
<1>2. CASE r # p
  <2>1. candidates[r] = profiles[r] \/ candidates[r] = Raised[r]
    BY <1>2 DEF Succession
  <2>2. candidates[r].groups = profiles[r].groups
    BY <2>1 DEF Raised, ProfilesTypeOK, ProfileRecords
  <2> QED BY <2>2 DEF ProfilesInv, GroupsOK
<1> QED BY <1>1, <1>2

-----------------------------------------------------------------------------
(* Merging keeps the types, and what holds of every stored group.           *)
LEMMA MergeKeeps ==
    ASSUME NEW existing \in GroupMaps, NEW incoming \in SentMaps,
           \A g \in Groups : GroupOK(g, existing[g])
    PROVE  /\ mergeGroups(existing, incoming) \in GroupMaps
           /\ \A g \in Groups : GroupOK(g, mergeGroups(existing, incoming)[g])
<1> DEFINE m == mergeGroups(existing, incoming)
<1>1. ASSUME NEW g \in Groups
      PROVE  m[g] \in GroupRecords \union {NoGroup} /\ GroupOK(g, m[g])
  <2>1. CASE incoming[g] = NoGroup
    BY <2>1 DEF mergeGroups, GroupOK
  <2>2. CASE incoming[g] # NoGroup /\ existing[g] = NoGroup
    <3>1. incoming[g] \in SentGroups
      BY <2>2 DEF SentMaps
    <3>2. m[g] = [incoming[g] EXCEPT !.source = FALSE, !.defaults = {}, !.customized = TRUE,
                                     !.schedules = IF @ = Keep THEN NoSchedules ELSE @]
      BY <2>2 DEF mergeGroups
    <3> QED
      BY <3>1, <3>2, ListsAssumption, ValuesAssumption DEF SentGroups, GroupRecords, GroupOK
  <2>3. CASE incoming[g] # NoGroup /\ existing[g] # NoGroup
    <3>1. incoming[g] \in SentGroups /\ existing[g] \in GroupRecords
      BY <2>3 DEF SentMaps, GroupMaps
    <3>2. m[g] = [incoming[g] EXCEPT
                    !.source = existing[g].source,
                    !.defaults = existing[g].defaults,
                    !.schedules = IF @ = Keep THEN existing[g].schedules ELSE @,
                    !.domains = IF ~ incoming[g].customized /\ existing[g].defaults # {}
                                THEN existing[g].defaults ELSE @]
      BY <2>3 DEF mergeGroups
    <3>3. GroupOK(g, existing[g])
      OBVIOUS
    <3>4. m[g] \in GroupRecords
      BY <3>1, <3>2 DEF SentGroups, GroupRecords
    <3>5. GroupOK(g, m[g])
      BY <2>3, <3>1, <3>2, <3>3, ListsAssumption DEF SentGroups, GroupRecords, GroupOK
    <3> QED BY <3>4, <3>5
  <2> QED BY <2>1, <2>2, <2>3
<1>2. m = [g \in Groups |-> m[g]]
  BY DEF mergeGroups
<1>3. m \in GroupMaps
  BY <1>1, <1>2 DEF GroupMaps
<1> QED BY <1>1, <1>3

LEMMA RaisedType ==
    ASSUME ProfilesTypeOK
    PROVE  Raised \in [Profiles -> ProfileRecords]
<1>1. ASSUME NEW q \in Profiles
      PROVE  [profiles[q] EXCEPT !.version = @ + 1] \in ProfileRecords
  <2>1. profiles[q] \in ProfileRecords
    BY DEF ProfilesTypeOK
  <2> QED BY <2>1 DEF ProfileRecords
<1> QED BY <1>1 DEF Raised

LEMMA EditedType ==
    ASSUME NEW old \in ProfileRecords, NEW ps \in Pauses, NEW gs \in GroupMaps
    PROVE  [old EXCEPT !.version = @ + 1, !.pauses = ps, !.groups = gs] \in ProfileRecords
<1> DEFINE raised == [old EXCEPT !.version = @ + 1]
<1>1. raised \in ProfileRecords
  BY DEF ProfileRecords
<1>2. [raised EXCEPT !.pauses = ps, !.groups = gs] \in ProfileRecords
  <2> HIDE DEF raised
  <2> QED BY <1>1 DEF ProfileRecords, GroupMaps
<1>3. [old EXCEPT !.version = @ + 1, !.pauses = ps, !.groups = gs]
        = [raised EXCEPT !.pauses = ps, !.groups = gs]
  OBVIOUS
<1> QED BY <1>2, <1>3

(* A PUT of any copy is an edit of the stored profile.                      *)
LEMMA PutIsEdited ==
    ASSUME ProfilesTypeOK, ProfilesInv, NEW w \in Panels, NEW p \in Profiles,
           NEW copy, NEW groups \in SentMaps, NEW pauses \in Pauses,
           NEW newZone \in Zones \union {Keep},
           Put(w, p, [copy |-> copy, groups |-> groups, pauses |-> pauses, zone |-> newZone])
    PROVE  Edited(w, p)
<1> DEFINE req == [copy |-> copy, groups |-> groups, pauses |-> pauses, zone |-> newZone]
           merged == mergeGroups(profiles[p].groups, groups)
           updated == edited(p, req)
           base == rezoned(p, req)
           candidates == [base EXCEPT ![p] = updated]
           later == IF newZone = Keep THEN zone ELSE newZone
<1>1. profiles[p] \in ProfileRecords /\ profiles[p].groups \in GroupMaps
  BY DEF ProfilesTypeOK, ProfileRecords, GroupMaps
<1>2. merged \in GroupMaps /\ \A g \in Groups : GroupOK(g, merged[g])
  BY <1>1, MergeKeeps DEF ProfilesInv, GroupsOK
<1>3. updated = [profiles[p] EXCEPT !.version = @ + 1, !.pauses = pauses, !.groups = merged]
  BY DEF edited
<1>4. updated \in ProfileRecords /\ Successor(p, updated)
  <2> HIDE DEF merged, updated
  <2>1. updated \in ProfileRecords
    BY <1>1, <1>2, <1>3, EditedType
  <2>2. /\ updated.version = profiles[p].version + 1
        /\ updated.disabled = profiles[p].disabled
        /\ updated.endpoint = profiles[p].endpoint
        /\ updated.groups = merged
    BY <1>1, <1>3 DEF ProfileRecords
  <2>3. profiles[p].endpoint \in Nat
    BY <1>1 DEF ProfileRecords
  <2> QED BY <1>2, <2>1, <2>2, <2>3 DEF Successor
<1>5. base \in [Profiles -> ProfileRecords]
  BY RaisedType DEF Raised, ProfilesTypeOK, rezoned
<1>6. /\ Saved(candidates, later)
      /\ Answered(w, p, candidates)
      /\ Bounded
      /\ catalog' = catalog
  BY DEF Put
<1>7. changes' \in 0 .. MaxChanges
  BY <1>6, BoundedCounts
<1>8. later \in Zones
  BY DEF ProfilesTypeOK
<1>9. \/ later = zone /\ base = profiles
      \/ \A q \in Profiles \ {p} : base[q] = Raised[q]
  BY DEF rezoned, Raised
<1> HIDE DEF updated, base, later
<1>10. /\ candidates \in [Profiles -> ProfileRecords]
       /\ candidates[p] = updated
       /\ \A q \in Profiles \ {p} : candidates[q] = base[q]
  BY <1>4, <1>5
<1> HIDE DEF candidates
<1>11. Succession(p, candidates, later)
  BY <1>4, <1>8, <1>9, <1>10 DEF Succession
<1> QED BY <1>6, <1>7, <1>8, <1>10, <1>11 DEF Edited

LEMMA UpdatedIsEdited ==
    ASSUME ProfilesTypeOK, ProfilesInv, NEW w \in Panels, NEW p \in Profiles,
           NEW updated, Successor(p, updated), Updated(w, p, updated)
    PROVE  Edited(w, p)
<1> DEFINE candidates == [profiles EXCEPT ![p] = updated]
<1>1. updated \in ProfileRecords /\ zone \in Zones
  BY DEF Successor, ProfilesTypeOK
<1>2. /\ candidates \in [Profiles -> ProfileRecords]
      /\ candidates[p] = updated
      /\ \A q \in Profiles \ {p} : candidates[q] = profiles[q]
  BY <1>1 DEF ProfilesTypeOK
<1>3. changes' \in 0 .. MaxChanges
  BY BoundedCounts DEF Updated
<1>4. Saved(candidates, zone) /\ Answered(w, p, candidates) /\ catalog' = catalog
  BY DEF Updated
<1> HIDE DEF candidates
<1>5. Succession(p, candidates, zone)
  BY <1>1, <1>2 DEF Succession
<1> QED BY <1>1, <1>2, <1>3, <1>4, <1>5 DEF Edited

(* What a panel sends has the types of what it shows.                       *)
LEMMA AsSentType ==
    ASSUME NEW groups \in GroupMaps
    PROVE  asSent(groups) \in SentMaps
<1>1. ASSUME NEW g \in Groups
      PROVE  asSent(groups)[g] \in SentGroups \union {NoGroup}
  <2>1. CASE groups[g] = NoGroup
    BY <2>1 DEF asSent
  <2>2. CASE groups[g] # NoGroup
    <3>1. groups[g] \in GroupRecords
      BY <2>2 DEF GroupMaps
    <3>2. asSent(groups)[g] = [groups[g] EXCEPT !.schedules = IF @ = NoSchedules THEN Keep ELSE @]
      BY <2>2 DEF asSent
    <3> QED BY <3>1, <3>2 DEF GroupRecords, SentGroups
  <2> QED BY <2>1, <2>2
<1> QED BY <1>1 DEF asSent, SentMaps
(* Every operation of a panel is an edit of the stored profile.             *)
LEMMA EditsAreEdited ==
    ASSUME TypeOK, ProfilesInv, NEW w \in Panels, NEW p \in Profiles, Edits(w, p)
    PROVE  Edited(w, p)
<1> DEFINE shown == panel[w][p]
<1>1. /\ ProfilesTypeOK
      /\ shown \in ProfileRecords
      /\ shown.pauses \in Pauses
      /\ shown.groups \in GroupMaps
  BY DEF TypeOK, ProfilesTypeOK, ProfileRecords, GroupMaps
<1>2. asSent(shown.groups) \in SentMaps
  BY <1>1, AsSentType
<1> HIDE DEF shown
<1>3. ASSUME NEW g \in Groups, NEW group \in SentGroups,
             Put(w, p, [copy |-> shown, groups |-> [asSent(shown.groups) EXCEPT ![g] = group],
                        pauses |-> shown.pauses, zone |-> Keep])
      PROVE  Edited(w, p)
  <2>1. [asSent(shown.groups) EXCEPT ![g] = group] \in SentMaps
    BY <1>2 DEF SentMaps
  <2> QED BY <1>1, <1>3, <2>1, PutIsEdited
<1>4. ASSUME NEW g \in Groups, NEW group \in SentGroups, putGroup(w, p, g, group)
      PROVE  Edited(w, p)
  BY <1>3, <1>4 DEF putGroup, shown
<1>5. ASSUME NEW g \in Groups, shown.groups[g] # NoGroup
      PROVE  /\ shown.groups[g] \in GroupRecords
             /\ asSent(shown.groups)[g] =
                   [shown.groups[g] EXCEPT !.schedules = IF @ = NoSchedules THEN Keep ELSE @]
  BY <1>1, <1>5 DEF GroupMaps, asSent
<1>6. ASSUME NEW g \in Groups, NEW action \in Actions, SwitchGroup(w, p, g, action)
      PROVE  Edited(w, p)
  <2>1. shown.groups[g] # NoGroup
    BY <1>6 DEF SwitchGroup, shown
  <2>2. [asSent(shown.groups)[g] EXCEPT !.action = action] \in SentGroups
    BY <1>5, <2>1 DEF GroupRecords, SentGroups
  <2> QED BY <1>4, <1>6, <2>2 DEF SwitchGroup, shown
<1>7. ASSUME NEW g \in Groups, NEW list \in OwnLists, TypeList(w, p, g, list)
      PROVE  Edited(w, p)
  <2>1. shown.groups[g] # NoGroup
    BY <1>7 DEF TypeList, shown
  <2>2. [shown.groups[g] EXCEPT !.domains = list, !.customized = TRUE] \in SentGroups
    BY <1>5, <2>1, ListsAssumption DEF GroupRecords, SentGroups
  <2> QED BY <1>4, <1>7, <2>2 DEF TypeList, shown
<1>8. ASSUME NEW g \in Groups, RestoreDefaults(w, p, g)
      PROVE  Edited(w, p)
  <2>1. shown.groups[g] # NoGroup
    BY <1>8 DEF RestoreDefaults, shown
  <2>2. [shown.groups[g] EXCEPT !.domains = shown.groups[g].defaults, !.customized = FALSE]
          \in SentGroups
    BY <1>5, <2>1 DEF GroupRecords, SentGroups
  <2> QED BY <1>4, <1>8, <2>2 DEF RestoreDefaults, shown
<1>9. ASSUME NEW g \in Groups, NEW schedules \in Schedules, Schedule(w, p, g, schedules)
      PROVE  Edited(w, p)
  <2>1. shown.groups[g] # NoGroup
    BY <1>9 DEF Schedule, shown
  <2>2. [shown.groups[g] EXCEPT !.schedules = schedules] \in SentGroups
    BY <1>5, <2>1 DEF GroupRecords, SentGroups
  <2> QED BY <1>4, <1>9, <2>2 DEF Schedule, shown
<1>10. ASSUME NEW g \in Custom, NEW list \in OwnLists, AddGroup(w, p, g, list)
       PROVE  Edited(w, p)
  <2>1. [action |-> "block", domains |-> list, defaults |-> {}, source |-> FALSE,
         customized |-> TRUE, schedules |-> NoSchedules] \in SentGroups
    BY ListsAssumption, ValuesAssumption DEF SentGroups, Actions
  <2>2. g \in Groups
    BY DEF Groups
  <2> QED BY <1>4, <1>10, <2>1, <2>2 DEF AddGroup
<1>11. ASSUME NEW pauses \in Pauses, NEW newZone \in Zones, SetPauses(w, p, pauses, newZone)
       PROVE  Edited(w, p)
  <2>1. Put(w, p, [copy |-> shown, groups |-> asSent(shown.groups),
                   pauses |-> pauses, zone |-> newZone])
    BY <1>11 DEF SetPauses, shown
  <2> QED BY <1>1, <1>2, <2>1, PutIsEdited
<1>12. /\ profiles[p] \in ProfileRecords
       /\ \A g \in Groups : GroupOK(g, profiles[p].groups[g])
       /\ profiles[p].groups \in GroupMaps
       /\ profiles[p].endpoint \in Nat
       /\ profiles[p].pauses \in Pauses
  BY <1>1 DEF ProfilesTypeOK, ProfileRecords, GroupMaps, ProfilesInv, GroupsOK
<1>13. ASSUME NEW g \in Groups, NEW group \in GroupRecords \union {NoGroup}, GroupOK(g, group),
              Updated(w, p, [profiles[p] EXCEPT !.version = @ + 1, !.groups[g] = group])
       PROVE  Edited(w, p)
  <2> DEFINE old == profiles[p]
             gs == [old.groups EXCEPT ![g] = group]
             updated == [old EXCEPT !.version = @ + 1, !.groups[g] = group]
  <2>1. gs \in GroupMaps /\ \A h \in Groups : GroupOK(h, gs[h])
    BY <1>12, <1>13 DEF GroupMaps
  <2>2. updated = [old EXCEPT !.version = @ + 1, !.pauses = old.pauses, !.groups = gs]
    BY <1>12 DEF ProfileRecords
  <2>3. updated \in ProfileRecords
    BY <1>12, <2>1, <2>2, EditedType
  <2>4. /\ updated.version = old.version + 1
        /\ updated.disabled = old.disabled
        /\ updated.endpoint = old.endpoint
        /\ updated.groups = gs
    BY <1>12 DEF ProfileRecords
  <2>5. Successor(p, updated)
    BY <1>12, <2>1, <2>3, <2>4 DEF Successor
  <2> QED BY <1>1, <1>13, <2>5, UpdatedIsEdited
<1>14. ASSUME NEW g \in Packages, NEW action \in Actions, EnablePackage(w, p, g, action)
       PROVE  Edited(w, p)
  <2> DEFINE stored == profiles[p].groups[g]
             listed == stored # NoGroup /\ stored.domains # {}
             group == IF listed THEN [stored EXCEPT !.action = action]
                      ELSE catalogGroup(g, action)
  <2>1. g \in Groups
    BY DEF Groups
  <2>2. ASSUME listed
        PROVE  group \in GroupRecords \union {NoGroup} /\ GroupOK(g, group)
    <3>1. stored \in GroupRecords /\ GroupOK(g, stored) /\ stored # NoGroup
      BY <1>12, <2>1, <2>2 DEF GroupMaps
    <3>2. group = [stored EXCEPT !.action = action]
      BY <2>2
    <3>3. ASSUME NEW x \in GroupRecords, GroupOK(g, x), x # NoGroup
          PROVE  [x EXCEPT !.action = action] \in GroupRecords
      BY DEF GroupRecords
    <3>4. ASSUME NEW x \in GroupRecords, GroupOK(g, x), x # NoGroup
          PROVE  GroupOK(g, [x EXCEPT !.action = action])
      BY <3>4 DEF GroupRecords, GroupOK
    <3> HIDE DEF stored, group
    <3> QED BY <3>1, <3>2, <3>3, <3>4
  <2>3. ASSUME ~ listed
        PROVE  group \in GroupRecords \union {NoGroup} /\ GroupOK(g, group)
    <3>1. catalog[g] \in CatalogLists
      BY <1>1 DEF ProfilesTypeOK
    <3>2. group = catalogGroup(g, action)
      BY <2>3
    <3>3. catalogGroup(g, action) \in GroupRecords
      BY <3>1, ListsAssumption, ValuesAssumption DEF catalogGroup, GroupRecords
    <3>4. GroupOK(g, catalogGroup(g, action))
      BY <3>1 DEF catalogGroup, GroupOK
    <3> HIDE DEF group
    <3> QED BY <3>2, <3>3, <3>4
  <2>4. group \in GroupRecords \union {NoGroup} /\ GroupOK(g, group)
    BY <2>2, <2>3
  <2>5. Updated(w, p, [profiles[p] EXCEPT !.version = @ + 1, !.groups[g] = group])
    BY <1>14 DEF EnablePackage
  <2> HIDE DEF group
  <2> QED BY <1>13, <2>1, <2>4, <2>5
<1>15. ASSUME NEW g \in Packages, DisablePackage(w, p, g)
       PROVE  Edited(w, p)
  <2>1. g \in Groups /\ GroupOK(g, NoGroup)
    BY DEF Groups, GroupOK
  <2> QED BY <1>13, <1>15, <2>1 DEF DisablePackage
<1>16. ASSUME rotateEndpoint(w, p)
       PROVE  Edited(w, p)
  <2> DEFINE old == profiles[p]
             updated == [old EXCEPT !.version = @ + 1, !.endpoint = @ + 1]
  <2>1. updated \in ProfileRecords
    <3> DEFINE raised == [old EXCEPT !.version = @ + 1]
    <3>1. raised \in ProfileRecords /\ raised.endpoint = old.endpoint
      BY <1>12 DEF ProfileRecords
    <3>2. raised.endpoint + 1 \in Nat
      BY <1>12, <3>1
    <3>3. [raised EXCEPT !.endpoint = raised.endpoint + 1] \in ProfileRecords
      <4> HIDE DEF raised
      <4> QED BY <3>1, <3>2 DEF ProfileRecords
    <3>4. updated = [raised EXCEPT !.endpoint = raised.endpoint + 1]
      BY <1>12 DEF ProfileRecords
    <3> QED BY <3>3, <3>4
  <2>2. /\ updated.version = old.version + 1
        /\ updated.disabled = old.disabled
        /\ updated.endpoint = old.endpoint + 1
        /\ updated.groups = old.groups
    BY <1>12 DEF ProfileRecords
  <2>3. Successor(p, updated)
    BY <1>12, <2>1, <2>2 DEF Successor
  <2> QED BY <1>1, <1>16, <2>3, UpdatedIsEdited DEF rotateEndpoint
<1> QED
  BY <1>6, <1>7, <1>8, <1>9, <1>10, <1>11, <1>14, <1>15, <1>16 DEF Edits

-----------------------------------------------------------------------------
(* Every step of the profiles is one of five kinds.                         *)
LEMMA ProfileSteps ==
    ASSUME TypeOK, ProfilesInv, ProfilesNext
    PROVE  \/ \E w \in Panels, p \in Profiles : Edited(w, p)
           \/ \E p \in Profiles : DisableProfile(p)
           \/ \E w \in Panels : LoadPanel(w)
           \/ \E g \in Packages, list \in CatalogLists : CatalogChanges(g, list)
           \/ Reload
<1>1. ASSUME NEW w \in Panels, NEW p \in Profiles, ~ panel[w][p].disabled /\ Edits(w, p)
      PROVE  Edited(w, p)
  BY <1>1, EditsAreEdited
<1> QED BY <1>1 DEF ProfilesNext

(* A removal saves the profiles with one of them disabled.                  *)
LEMMA DisableSaves ==
    ASSUME ProfilesTypeOK, ProfilesInv, NEW p \in Profiles, DisableProfile(p)
    PROVE  \E candidates \in [Profiles -> ProfileRecords] :
              /\ GroupsOK(candidates)
              /\ Saved(candidates, zone)
              /\ candidates[p].version = profiles[p].version + 1
              /\ candidates[p].endpoint = profiles[p].endpoint
              /\ candidates[p].disabled
              /\ \A q \in Profiles \ {p} : candidates[q] = profiles[q]
<1> DEFINE removed == [profiles[p] EXCEPT !.disabled = TRUE, !.version = @ + 1]
           candidates == [profiles EXCEPT ![p].disabled = TRUE, ![p].version = @ + 1]
<1>1. profiles[p] \in ProfileRecords
  BY DEF ProfilesTypeOK
<1>2. [profiles[p] EXCEPT !.disabled = TRUE] \in ProfileRecords
  BY <1>1 DEF ProfileRecords
<1>3. ASSUME NEW x \in ProfileRecords
      PROVE  [x EXCEPT !.version = profiles[p].version + 1] \in ProfileRecords
  <2>1. profiles[p].version + 1 \in Nat
    BY <1>1 DEF ProfileRecords
  <2> QED BY <2>1 DEF ProfileRecords
<1>4. /\ removed \in ProfileRecords
      /\ removed.version = profiles[p].version + 1
      /\ removed.endpoint = profiles[p].endpoint
      /\ removed.disabled
      /\ removed.groups = profiles[p].groups
  <2>1. removed = [[profiles[p] EXCEPT !.disabled = TRUE]
                      EXCEPT !.version = profiles[p].version + 1]
    BY <1>1 DEF ProfileRecords
  <2>2. removed \in ProfileRecords
    BY <1>2, <1>3, <2>1
  <2> QED BY <1>1, <2>2 DEF ProfileRecords
<1>5. candidates = [r \in Profiles |-> IF r = p THEN removed ELSE profiles[r]]
  BY <1>1 DEF ProfilesTypeOK, ProfileRecords
<1>6. Saved(candidates, zone)
  BY DEF DisableProfile
<1> HIDE DEF removed, candidates
<1>7. /\ candidates \in [Profiles -> ProfileRecords]
      /\ candidates[p] = removed
      /\ \A q \in Profiles \ {p} : candidates[q] = profiles[q]
  BY <1>4, <1>5 DEF ProfilesTypeOK
<1>8. \A r \in Profiles : candidates[r].groups = profiles[r].groups
  BY <1>4, <1>7
<1>9. GroupsOK(candidates)
  BY <1>8 DEF GroupsOK, ProfilesInv
<1> QED BY <1>4, <1>6, <1>7, <1>9

-----------------------------------------------------------------------------
(* Loading keeps the types, and what holds of every stored group.           *)
LEMMA LoadKeeps ==
    ASSUME ProfilesTypeOK, NEW g \in Groups, NEW group \in GroupRecords \union {NoGroup},
           GroupOK(g, group)
    PROVE  /\ loadGroup(g, group) \in GroupRecords \union {NoGroup}
           /\ GroupOK(g, loadGroup(g, group))
           /\ group = NoGroup => loadGroup(g, group) = NoGroup
           /\ group # NoGroup =>
                 /\ loadGroup(g, group) # NoGroup
                 /\ loadGroup(g, group).action = group.action
                 /\ loadGroup(g, group).schedules = group.schedules
                 /\ loadGroup(g, group).source = group.source
                 /\ loadGroup(g, group).customized = group.customized
                 /\ IF FromCatalog(group)
                    THEN loadGroup(g, group).domains \in CatalogLists
                    ELSE loadGroup(g, group).domains = group.domains
<1>1. CASE group = NoGroup
  BY <1>1 DEF loadGroup, GroupOK
<1>2. CASE group # NoGroup /\ group.source
  <2>1. group \in GroupRecords /\ catalog[g] \in CatalogLists /\ catalog[g] \in Lists
    BY <1>2, ListsAssumption DEF GroupOK, ProfilesTypeOK
  <2>2. loadGroup(g, group) =
          [group EXCEPT !.defaults = catalog[g],
                        !.domains = IF group.customized THEN @ ELSE catalog[g]]
    BY <1>2 DEF loadGroup
  <2>3. loadGroup(g, group) \in GroupRecords
    BY <2>1, <2>2 DEF GroupRecords
  <2>4. GroupOK(g, loadGroup(g, group))
    BY <1>2, <2>1, <2>2 DEF GroupRecords, GroupOK
  <2> QED
    BY <1>2, <2>1, <2>2, <2>3, <2>4, ValuesAssumption DEF GroupRecords, FromCatalog
<1>3. CASE group # NoGroup /\ ~ group.source
  <2>1. group \in GroupRecords
    BY <1>3
  <2>2. loadGroup(g, group) = [group EXCEPT !.defaults = IF @ = {} THEN group.domains ELSE @]
    BY <1>3 DEF loadGroup
  <2>3. loadGroup(g, group) \in GroupRecords
    BY <2>1, <2>2 DEF GroupRecords
  <2> QED
    BY <1>3, <2>1, <2>2, <2>3, ValuesAssumption DEF GroupRecords, GroupOK, FromCatalog
<1> QED BY <1>1, <1>2, <1>3

(* The loaded profiles differ from those of the file in their groups only.  *)
LEMMA LoadIsSafe ==
    ASSUME ProfilesTypeOK, ProfilesInv
    PROVE  /\ Load \in [Profiles -> ProfileRecords]
           /\ GroupsOK(Load)
           /\ \A p \in Profiles :
                 /\ Load[p].version = file.profiles[p].version
                 /\ Load[p].endpoint = file.profiles[p].endpoint
                 /\ Load[p].disabled = file.profiles[p].disabled
                 /\ Load[p].pauses = file.profiles[p].pauses
                 /\ \A g \in Groups :
                       Load[p].groups[g] = loadGroup(g, file.profiles[p].groups[g])
<1>0. file.profiles \in [Profiles -> ProfileRecords]
  BY DEF ProfilesTypeOK
<1>1. ASSUME NEW p \in Profiles
      PROVE  /\ Load[p] \in ProfileRecords
             /\ Load[p].version = file.profiles[p].version
             /\ Load[p].endpoint = file.profiles[p].endpoint
             /\ Load[p].disabled = file.profiles[p].disabled
             /\ Load[p].pauses = file.profiles[p].pauses
             /\ \A g \in Groups :
                   /\ GroupOK(g, Load[p].groups[g])
                   /\ Load[p].groups[g] = loadGroup(g, file.profiles[p].groups[g])
  <2> DEFINE stored == file.profiles[p]
             loaded == [g \in Groups |-> loadGroup(g, stored.groups[g])]
  <2>1. /\ stored \in ProfileRecords /\ stored.groups \in GroupMaps
        /\ \A g \in Groups : GroupOK(g, stored.groups[g])
    BY <1>0 DEF ProfileRecords, GroupMaps, ProfilesInv, GroupsOK
  <2>2. Load[p] = [stored EXCEPT !.groups = loaded]
    BY DEF Load
  <2> HIDE DEF stored
  <2>3. ASSUME NEW g \in Groups
        PROVE  /\ loaded[g] = loadGroup(g, stored.groups[g])
               /\ loaded[g] \in GroupRecords \union {NoGroup}
               /\ GroupOK(g, loaded[g])
    <3>1. stored.groups[g] \in GroupRecords \union {NoGroup}
      BY <2>1 DEF GroupMaps
    <3> QED BY <2>1, <3>1, LoadKeeps
  <2>4. loaded \in GroupMaps
    BY <2>3 DEF GroupMaps
  <2> HIDE DEF loaded
  <2>5. /\ Load[p] \in ProfileRecords
        /\ Load[p].version = stored.version
        /\ Load[p].endpoint = stored.endpoint
        /\ Load[p].disabled = stored.disabled
        /\ Load[p].pauses = stored.pauses
        /\ Load[p].groups = loaded
    BY <2>1, <2>2, <2>4 DEF ProfileRecords, GroupMaps
  <2> QED BY <2>3, <2>5 DEF stored
<1>2. Load \in [Profiles -> ProfileRecords]
  BY <1>1 DEF Load
<1> QED BY <1>1, <1>2 DEF GroupsOK

(* A group of the file, and what it is when it is loaded.                   *)
LEMMA LoadedGroup ==
    ASSUME ProfilesTypeOK, ProfilesInv, NEW p \in Profiles, NEW g \in Groups
    PROVE  LET stored == file.profiles[p].groups[g]
               loaded == Load[p].groups[g]
           IN \/ stored = NoGroup /\ loaded = NoGroup
              \/ /\ NoGroup \notin {stored, loaded}
                 /\ stored.domains \in Lists
                 /\ loaded.action = stored.action
                 /\ loaded.schedules = stored.schedules
                 /\ loaded.source = stored.source
                 /\ loaded.customized = stored.customized
                 /\ IF FromCatalog(stored) THEN loaded.domains \in CatalogLists
                    ELSE loaded.domains = stored.domains
<1> DEFINE stored == file.profiles[p].groups[g]
<1>1. stored \in GroupRecords \union {NoGroup} /\ GroupOK(g, stored)
  BY DEF ProfilesTypeOK, ProfileRecords, ProfilesInv, GroupsOK
<1>2. Load[p].groups[g] = loadGroup(g, stored)
  BY LoadIsSafe
<1>3. stored # NoGroup => stored.domains \in Lists
  BY <1>1 DEF GroupRecords
<1> HIDE DEF stored
<1>4. \/ stored = NoGroup /\ Load[p].groups[g] = NoGroup
      \/ /\ NoGroup \notin {stored, Load[p].groups[g]}
         /\ stored.domains \in Lists
         /\ Load[p].groups[g].action = stored.action
         /\ Load[p].groups[g].schedules = stored.schedules
         /\ Load[p].groups[g].source = stored.source
         /\ Load[p].groups[g].customized = stored.customized
         /\ IF FromCatalog(stored) THEN Load[p].groups[g].domains \in CatalogLists
            ELSE Load[p].groups[g].domains = stored.domains
  BY <1>1, <1>2, <1>3, LoadKeeps
<1> QED BY <1>4 DEF stored

(* The lists of the catalog are accepted, so it does not matter which are   *)
(* in it when the file is loaded.                                           *)
LEMMA LoadAcceptance ==
    ASSUME ProfilesTypeOK, ProfilesInv
    PROVE  AcceptedTwice(Load) <=> FileLoads
<1>1. ASSUME NEW p \in Profiles, NEW g \in Groups
      PROVE  (\/ Load[p].disabled
              \/ Load[p].groups[g] = NoGroup
              \/ Twice(Load[p].groups[g].domains))
             <=> GroupLoads(file.profiles[p].disabled, file.profiles[p].groups[g])
  <2>1. Load[p].disabled = file.profiles[p].disabled
    BY LoadIsSafe
  <2>2. \A list \in CatalogLists : Twice(list)
    BY ListsAssumption DEF Twice
  <2>3. /\ Load[p].groups[g] = NoGroup <=> file.profiles[p].groups[g] = NoGroup
        /\ file.profiles[p].groups[g] # NoGroup =>
              IF FromCatalog(file.profiles[p].groups[g])
              THEN Twice(Load[p].groups[g].domains)
              ELSE Load[p].groups[g].domains = file.profiles[p].groups[g].domains
    BY <2>2, LoadedGroup
  <2> QED BY <2>1, <2>3 DEF GroupLoads
<1>2. AcceptedTwice(Load) <=>
          \A p \in Profiles, g \in Groups :
              \/ Load[p].disabled
              \/ Load[p].groups[g] = NoGroup
              \/ Twice(Load[p].groups[g].domains)
  BY LoadIsSafe, AcceptedTwiceMeans
<1> QED BY <1>1, <1>2 DEF FileLoads

(* A restart that starts: it keeps the types and what the file says, and    *)
(* what is enforced differs only where the parents left it to the catalog,  *)
(* or in lists that are not settled.                                        *)
LEMMA RestartIsSafe ==
    ASSUME ProfilesTypeOK, ProfilesInv, AcceptedTwice(Load)
    PROVE  LET restarted == normalized(normalized(Load))
           IN /\ restarted \in [Profiles -> ProfileRecords]
              /\ GroupsOK(restarted)
              /\ file.zone = zone
              /\ \A p \in Profiles :
                    /\ ProfileMatches(file.profiles[p], restarted[p])
                    /\ restarted[p].version = profiles[p].version
                    /\ restarted[p].endpoint = profiles[p].endpoint
                    /\ restarted[p].disabled = profiles[p].disabled
                    /\ restarted[p].pauses = profiles[p].pauses
                    /\ \A g \in Groups :
                          SamePolicyBut(profiles[p].groups[g], restarted[p].groups[g])
<1> DEFINE restarted == normalized(normalized(Load))
<1>1. file.zone = zone /\ \A p \in Profiles : ProfileMatches(file.profiles[p], profiles[p])
  BY LoadAcceptance DEF ProfilesInv, FileInv
<1>2. /\ restarted \in [Profiles -> ProfileRecords] /\ GroupsOK(restarted)
      /\ \A p \in Profiles :
            /\ restarted[p].version = file.profiles[p].version
            /\ restarted[p].endpoint = file.profiles[p].endpoint
            /\ restarted[p].disabled = file.profiles[p].disabled
            /\ restarted[p].pauses = file.profiles[p].pauses
  BY LoadIsSafe, NormalizedTwice
<1>3. ASSUME NEW p \in Profiles, NEW g \in Groups
      PROVE  LET stored == file.profiles[p].groups[g]
                 group == restarted[p].groups[g]
             IN \/ stored = NoGroup /\ group = NoGroup
                \/ /\ NoGroup \notin {stored, group}
                   /\ group.action = stored.action
                   /\ group.schedules = stored.schedules
                   /\ group.source = stored.source
                   /\ group.customized = stored.customized
                   /\ ~ FromCatalog(stored) =>
                         group.domains =
                             IF file.profiles[p].disabled THEN stored.domains
                             ELSE Normalize[Normalize[stored.domains]]
  <2>1. Load[p].disabled = file.profiles[p].disabled
    BY LoadIsSafe
  <2>2. \/ Load[p].groups[g] = NoGroup /\ restarted[p].groups[g] = NoGroup
        \/ /\ NoGroup \notin {Load[p].groups[g], restarted[p].groups[g]}
           /\ restarted[p].groups[g].action = Load[p].groups[g].action
           /\ restarted[p].groups[g].schedules = Load[p].groups[g].schedules
           /\ restarted[p].groups[g].source = Load[p].groups[g].source
           /\ restarted[p].groups[g].customized = Load[p].groups[g].customized
           /\ restarted[p].groups[g].domains =
                 IF Load[p].disabled THEN Load[p].groups[g].domains
                 ELSE Normalize[Normalize[Load[p].groups[g].domains]]
    BY LoadIsSafe, NormalizedTwice
  <2> HIDE DEF restarted
  <2> QED BY <2>1, <2>2, LoadedGroup
<1> HIDE DEF restarted
<1>4. ASSUME NEW p \in Profiles
      PROVE  ProfileMatches(file.profiles[p], restarted[p])
  <2>1. ASSUME NEW g \in Groups
        PROVE  GroupMatches(file.profiles[p].disabled, file.profiles[p].groups[g],
                            restarted[p].groups[g])
    BY <1>3 DEF GroupMatches, FromCatalog
  <2> QED BY <1>2, <2>1 DEF ProfileMatches
<1>5. ASSUME NEW p \in Profiles, NEW g \in Groups
      PROVE  SamePolicyBut(profiles[p].groups[g], restarted[p].groups[g])
  <2> DEFINE stored == file.profiles[p].groups[g]
             group == profiles[p].groups[g]
             later == restarted[p].groups[g]
             off == file.profiles[p].disabled
  <2>1. GroupMatches(off, stored, group)
    BY <1>1 DEF ProfileMatches
  <2>2. \/ stored = NoGroup /\ later = NoGroup
        \/ /\ NoGroup \notin {stored, later}
           /\ later.action = stored.action
           /\ later.schedules = stored.schedules
           /\ ~ FromCatalog(stored) =>
                 later.domains = IF off THEN stored.domains
                                 ELSE Normalize[Normalize[stored.domains]]
    BY <1>3
  <2>3. GroupOK(g, group) /\ off \in BOOLEAN
    BY DEF ProfilesInv, GroupsOK, ProfilesTypeOK, ProfileRecords
  <2> SUFFICES SamePolicyBut(group, later)
    OBVIOUS
  <2> HIDE DEF stored, group, later, off
  <2>4. CASE stored = NoGroup
    BY <2>1, <2>2, <2>4 DEF GroupMatches, SamePolicyBut
  <2>5. CASE stored # NoGroup /\ FromCatalog(stored)
    <3>1. /\ NoGroup \notin {group, later}
          /\ later.action = group.action
          /\ later.schedules = group.schedules
          /\ group.source /\ ~ group.customized
      BY <2>1, <2>2, <2>5 DEF GroupMatches, FromCatalog
    <3>2. group.domains = group.defaults
      BY <2>3, <3>1 DEF GroupOK
    <3> QED BY <3>1, <3>2 DEF SamePolicyBut, FollowsCatalog
  <2>6. CASE stored # NoGroup /\ ~ FromCatalog(stored)
    <3>1. /\ NoGroup \notin {group, later}
          /\ later.action = group.action
          /\ later.schedules = group.schedules
          /\ ~ FromCatalog(group)
      BY <2>1, <2>2, <2>6 DEF GroupMatches, FromCatalog
    <3>2. \/ later.domains = group.domains
          \/ /\ group.domains = Normalize[stored.domains]
             /\ later.domains = Normalize[Normalize[stored.domains]]
      BY <2>1, <2>2, <2>3, <2>6, <3>1 DEF GroupMatches
    <3> QED BY <3>1, <3>2 DEF SamePolicyBut, settled
  <2> QED BY <2>4, <2>5, <2>6
<1>6. \A p \in Profiles : /\ restarted[p].version = profiles[p].version
                          /\ restarted[p].endpoint = profiles[p].endpoint
                          /\ restarted[p].disabled = profiles[p].disabled
                          /\ restarted[p].pauses = profiles[p].pauses
  BY <1>1, <1>2 DEF ProfileMatches
<1> QED BY <1>1, <1>2, <1>4, <1>5, <1>6 DEF restarted

-----------------------------------------------------------------------------
(* What every step of the profiles keeps.                                   *)
LEMMA ProfilesKept ==
    ASSUME TypeOK, ProfilesInv, ProfilesNext
    PROVE  ProfilesTypeOK' /\ ProfilesInv'
<1>0. ProfilesTypeOK
  BY DEF TypeOK
<1>1. CASE \E w \in Panels, p \in Profiles : Edited(w, p)
  <2>1. PICK w \in Panels, p \in Profiles : Edited(w, p)
    BY <1>1
  <2>2. PICK candidates \in [Profiles -> ProfileRecords], newZone \in Zones :
            /\ Succession(p, candidates, newZone)
            /\ Saved(candidates, newZone)
            /\ Answered(w, p, candidates)
            /\ changes' \in 0 .. MaxChanges
            /\ catalog' = catalog
    BY <2>1 DEF Edited
  <2>3. GroupsOK(candidates)
    BY <1>0, <2>2, SuccessionOK
  <2>4. /\ profiles' \in [Profiles -> ProfileRecords] /\ zone' \in Zones
        /\ file' \in [zone : Zones, profiles : [Profiles -> ProfileRecords]]
        /\ ProfilesInv'
    BY <1>0, <2>2, <2>3, SavedKeeps
  <2>5. panel' \in [Panels -> [Profiles -> ProfileRecords]]
    <3>1. CASE AcceptedTwice(candidates)
      <4>1. normalized(normalized(candidates))[p] \in ProfileRecords
        BY <2>3, <3>1, NormalizedTwice
      <4>2. panel' = [panel EXCEPT ![w][p] = normalized(normalized(candidates))[p]]
        BY <2>2, <3>1 DEF Answered
      <4> QED BY <1>0, <4>1, <4>2 DEF ProfilesTypeOK
    <3>2. CASE ~ AcceptedTwice(candidates)
      BY <1>0, <2>2, <3>2 DEF Answered, ProfilesTypeOK
    <3> QED BY <3>1, <3>2
  <2> QED BY <1>0, <2>2, <2>4, <2>5 DEF ProfilesTypeOK
<1>2. CASE \E p \in Profiles : DisableProfile(p)
  <2>1. PICK p \in Profiles : DisableProfile(p)
    BY <1>2
  <2>2. PICK candidates \in [Profiles -> ProfileRecords] :
            GroupsOK(candidates) /\ Saved(candidates, zone)
    BY <1>0, <2>1, DisableSaves
  <2>3. /\ profiles' \in [Profiles -> ProfileRecords] /\ zone' \in Zones
        /\ file' \in [zone : Zones, profiles : [Profiles -> ProfileRecords]]
        /\ ProfilesInv'
    <3>1. zone \in Zones
      BY <1>0 DEF ProfilesTypeOK
    <3> QED BY <1>0, <2>2, <3>1, SavedKeeps
  <2>4. changes' \in 0 .. MaxChanges
    BY <1>0, <2>1, BoundedCounts DEF DisableProfile
  <2> QED BY <1>0, <2>1, <2>3, <2>4 DEF DisableProfile, ProfilesTypeOK
<1>3. ASSUME UNCHANGED <<profiles, file, zone>>
      PROVE  ProfilesInv'
  BY <1>3 DEF ProfilesInv, GroupsOK, GroupOK, FileInv, FileLoads
<1>4. CASE \E w \in Panels : LoadPanel(w)
  BY <1>0, <1>3, <1>4 DEF LoadPanel, ProfilesTypeOK
<1>5. CASE \E g \in Packages, list \in CatalogLists : CatalogChanges(g, list)
  <2>1. PICK g \in Packages, list \in CatalogLists : CatalogChanges(g, list)
    BY <1>5
  <2>2. changes' \in 0 .. MaxChanges
    BY <1>0, <2>1, BoundedCounts DEF CatalogChanges
  <2> QED
    BY <1>0, <1>3, <2>1, <2>2 DEF CatalogChanges, ProfilesTypeOK
<1>6. CASE Reload
  <2> DEFINE restarted == normalized(normalized(Load))
  <2>1. /\ AcceptedTwice(Load)
        /\ profiles' = restarted /\ zone' = file.zone
        /\ file' = file /\ catalog' = catalog /\ panel' = panel /\ changes' = changes
    BY <1>6 DEF Reload
  <2>2. /\ restarted \in [Profiles -> ProfileRecords] /\ GroupsOK(restarted)
        /\ file.zone = zone
        /\ \A p \in Profiles : ProfileMatches(file.profiles[p], restarted[p])
    BY <1>0, <2>1, RestartIsSafe
  <2> HIDE DEF restarted
  <2>3. ProfilesTypeOK'
    BY <1>0, <2>1, <2>2 DEF ProfilesTypeOK
  <2>4. ProfilesInv'
    BY <2>1, <2>2 DEF ProfilesInv, GroupsOK, GroupOK, FileInv
  <2> QED BY <2>3, <2>4
<1> QED BY <1>1, <1>2, <1>4, <1>5, <1>6, ProfileSteps

(* What a step of the profiles may change of one of them.                   *)
Moves(r) ==
    \/ profiles'[r] = profiles[r] /\ zone' = zone
    \/ /\ profiles'[r].version = profiles[r].version + 1
       /\ profiles'[r].endpoint >= profiles[r].endpoint
       /\ profiles[r].disabled => profiles'[r].disabled
    \/ /\ profiles'[r].version = profiles[r].version
       /\ profiles'[r].endpoint = profiles[r].endpoint
       /\ profiles'[r].disabled = profiles[r].disabled
       /\ profiles'[r].pauses = profiles[r].pauses
       /\ zone' = zone
       /\ \A g \in Groups : SamePolicyBut(profiles[r].groups[g], profiles'[r].groups[g])

LEMMA ProfilesMove ==
    ASSUME TypeOK, ProfilesInv, ProfilesNext, NEW r \in Profiles
    PROVE  Moves(r)
<1>0. /\ ProfilesTypeOK
      /\ profiles[r] \in ProfileRecords
      /\ profiles[r].version \in Nat
      /\ profiles[r].endpoint \in Nat
  BY DEF TypeOK, ProfilesTypeOK, ProfileRecords
<1>1. CASE \E w \in Panels, p \in Profiles : Edited(w, p)
  <2>1. PICK w \in Panels, p \in Profiles : Edited(w, p)
    BY <1>1
  <2>2. PICK candidates \in [Profiles -> ProfileRecords], newZone \in Zones :
            Succession(p, candidates, newZone) /\ Saved(candidates, newZone)
    BY <2>1 DEF Edited
  <2>3. GroupsOK(candidates)
    BY <1>0, <2>2, SuccessionOK
  <2>4. \/ profiles' = profiles /\ zone' = zone
        \/ /\ zone' = newZone
           /\ profiles'[r].version = candidates[r].version
           /\ profiles'[r].endpoint = candidates[r].endpoint
           /\ profiles'[r].disabled = candidates[r].disabled
           /\ profiles'[r].pauses = candidates[r].pauses
           /\ \A g \in Groups :
                 SamePolicyBut(candidates[r].groups[g], profiles'[r].groups[g])
    BY <2>2, <2>3, SavedMoves
  <2>5. CASE r = p
    <3>1. /\ candidates[r].version = profiles[r].version + 1
          /\ candidates[r].disabled = profiles[r].disabled
          /\ candidates[r].endpoint >= profiles[r].endpoint
      BY <2>2, <2>5 DEF Succession, Successor
    <3> QED BY <2>4, <3>1 DEF Moves
  <2>6. CASE r # p /\ newZone = zone /\ candidates[r] = profiles[r]
    BY <2>4, <2>6 DEF Moves
  <2>7. CASE r # p /\ candidates[r] = Raised[r]
    <3>1. candidates[r] = [profiles[r] EXCEPT !.version = @ + 1]
      BY <2>7 DEF Raised
    <3>2. /\ candidates[r].version = profiles[r].version + 1
          /\ candidates[r].endpoint = profiles[r].endpoint
          /\ candidates[r].disabled = profiles[r].disabled
      BY <1>0, <3>1 DEF ProfileRecords
    <3> QED BY <1>0, <2>4, <3>2 DEF Moves
  <2> QED BY <2>2, <2>5, <2>6, <2>7 DEF Succession
<1>2. CASE \E p \in Profiles : DisableProfile(p)
  <2>1. PICK p \in Profiles : DisableProfile(p)
    BY <1>2
  <2>2. PICK candidates \in [Profiles -> ProfileRecords] :
            /\ GroupsOK(candidates)
            /\ Saved(candidates, zone)
            /\ candidates[p].version = profiles[p].version + 1
            /\ candidates[p].endpoint = profiles[p].endpoint
            /\ candidates[p].disabled
            /\ \A q \in Profiles \ {p} : candidates[q] = profiles[q]
    BY <1>0, <2>1, DisableSaves
  <2>3. zone \in Zones
    BY <1>0 DEF ProfilesTypeOK
  <2>4. \/ profiles' = profiles /\ zone' = zone
        \/ /\ zone' = zone
           /\ profiles'[r].version = candidates[r].version
           /\ profiles'[r].endpoint = candidates[r].endpoint
           /\ profiles'[r].disabled = candidates[r].disabled
           /\ profiles'[r].pauses = candidates[r].pauses
           /\ \A g \in Groups :
                 SamePolicyBut(candidates[r].groups[g], profiles'[r].groups[g])
    BY <2>2, <2>3, SavedMoves
  <2>5. CASE r = p
    BY <1>0, <2>2, <2>4, <2>5 DEF Moves
  <2>6. CASE r # p
    BY <2>2, <2>4, <2>6 DEF Moves
  <2> QED BY <2>5, <2>6
<1>3. CASE \E w \in Panels : LoadPanel(w)
  BY <1>3 DEF LoadPanel, Moves
<1>4. CASE \E g \in Packages, list \in CatalogLists : CatalogChanges(g, list)
  BY <1>4 DEF CatalogChanges, Moves
<1>5. CASE Reload
  BY <1>0, <1>5, RestartIsSafe DEF Reload, Moves
<1> QED BY <1>1, <1>2, <1>3, <1>4, <1>5, ProfileSteps

(* No step of the profiles lowers a version or brings back what was         *)
(* removed.                                                                 *)
LEMMA ProfilesMoveForward ==
    ASSUME TypeOK, ProfilesInv, ProfilesNext, NEW r \in Profiles
    PROVE  /\ profiles'[r].version >= profiles[r].version
           /\ profiles[r].disabled => profiles'[r].disabled
           /\ profiles'[r].endpoint >= profiles[r].endpoint
<1>1. profiles[r].version \in Nat /\ profiles[r].endpoint \in Nat
  BY DEF TypeOK, ProfilesTypeOK, ProfileRecords
<1> QED BY <1>1, ProfilesMove DEF Moves

-----------------------------------------------------------------------------
(* What holds of challenges and sessions: they repeat what was observed.    *)
PairingInv ==
    /\ \A r \in challenges : r.id \in 1 .. issued /\ r.profileID = observed[r.id].by
    /\ \A s \in sessions :
          /\ s.profileID = observed[s.token].by
          /\ s.expiresAt = observed[s.token].at + SessionTTL
    /\ \A c \in Challenges : c > issued => observed[c].by = Unobserved

(* No step of the pairing changes what was observed once.                   *)
ObservedStays ==
    \A c \in Challenges : observed[c].by # Unobserved => observed'[c] = observed[c]

PairingSteps == Create \/ Tick \/ cleanup \/ \E id \in Challenges, p \in Profiles : Observe(p, id)

LEMMA CleanupKeeps ==
    ASSUME PairingTypeOK, PairingInv, cleanup
    PROVE  PairingTypeOK' /\ PairingInv' /\ ObservedStays
BY DEF cleanup, live, PairingTypeOK, PairingInv, ObservedStays

LEMMA CreateKeeps ==
    ASSUME PairingTypeOK, PairingInv, Create
    PROVE  PairingTypeOK' /\ PairingInv' /\ ObservedStays
<1> DEFINE new == [id |-> issued + 1, expiresAt |-> now + ChallengeTTL, profileID |-> Unobserved]
<1>1. /\ issued \in Nat /\ issued + 1 \in Challenges
      /\ now + ChallengeTTL \in Expiries
  BY PairingAssumption DEF Create, PairingTypeOK, Challenges, Instants, Expiries
<1>2. new \in ChallengeRecords
  BY <1>1 DEF ChallengeRecords
<1>3. /\ challenges' = live(challenges) \union {new}
      /\ sessions' = live(sessions) /\ issued' = issued + 1
      /\ now' = now /\ observed' = observed
  BY DEF Create
<1>4. live(challenges) \subseteq challenges /\ live(sessions) \subseteq sessions
  BY DEF live
<1>5. PairingTypeOK'
  <2>1. challenges' \subseteq ChallengeRecords
    <3> HIDE DEF new
    <3> QED BY <1>2, <1>3, <1>4 DEF PairingTypeOK
  <2>2. issued' \in 0 .. MaxChallenges
    BY <1>1, <1>3, PairingAssumption DEF Challenges
  <2> QED BY <1>3, <1>4, <2>1, <2>2 DEF PairingTypeOK
<1>6. ASSUME NEW r \in challenges'
      PROVE  r.id \in 1 .. issued + 1 /\ r.profileID = observed[r.id].by
  <2>1. CASE r \in challenges
    BY <1>1, <2>1 DEF PairingInv
  <2>2. CASE r = new
    <3>1. observed[issued + 1].by = Unobserved
      BY <1>1 DEF PairingInv
    <3> QED BY <1>1, <2>2, <3>1
  <2> QED BY <1>3, <1>4, <1>6, <2>1, <2>2
<1>7. PairingInv'
  <2>1. \A s \in sessions' :
          /\ s.profileID = observed[s.token].by
          /\ s.expiresAt = observed[s.token].at + SessionTTL
    BY <1>3, <1>4 DEF PairingInv
  <2>2. \A c \in Challenges : c > issued + 1 => observed[c].by = Unobserved
    BY <1>1 DEF PairingInv, Challenges
  <2> QED BY <1>3, <1>6, <2>1, <2>2 DEF PairingInv
<1>8. ObservedStays
  BY <1>3 DEF ObservedStays
<1> QED BY <1>5, <1>7, <1>8

LEMMA TickKeeps ==
    ASSUME PairingTypeOK, PairingInv, Tick
    PROVE  PairingTypeOK' /\ PairingInv' /\ ObservedStays
BY PairingAssumption DEF Tick, PairingTypeOK, PairingInv, ObservedStays, Instants

LEMMA ObserveKeeps ==
    ASSUME PairingTypeOK, PairingInv, NEW id \in Challenges, NEW p \in Profiles, Observe(p, id)
    PROVE  PairingTypeOK' /\ PairingInv' /\ ObservedStays
<1> DEFINE session == [token |-> id, profileID |-> p, expiresAt |-> now + SessionTTL]
           bound(r) == IF r.id = id THEN [r EXCEPT !.profileID = p] ELSE r
<1>1. /\ live(challenges) \subseteq challenges /\ live(sessions) \subseteq sessions
      /\ challenges \subseteq ChallengeRecords /\ sessions \subseteq SessionRecords
      /\ now \in Instants /\ issued \in Nat
      /\ observed[id] \in [by : ProfileIDs \union {Unobserved}, at : Instants]
      /\ p \in ProfileIDs /\ p # Unobserved
  BY SameProfiles, PairingAssumption DEF live, PairingTypeOK
<1>2. PICK c \in live(challenges) : c.id = id
  BY DEF Observe, challengeOf
<1>3. id \in 1 .. issued /\ c.profileID = observed[id].by
  BY <1>1, <1>2 DEF PairingInv
<1>4. now' = now /\ issued' = issued
  BY DEF Observe
<1>5. CASE observed[id].by = Unobserved
  <2>1. \E r \in challengeOf(id) : r.profileID = Unobserved
    BY <1>2, <1>3, <1>5 DEF challengeOf
  <2>2. /\ challenges' = {bound(r) : r \in live(challenges)}
        /\ sessions' = live(sessions) \union {session}
        /\ observed' = [observed EXCEPT ![id] = [by |-> p, at |-> now]]
    BY <1>5, <2>1 DEF Observe, NoteFirst
  <2>3. observed' \in [Challenges -> [by : ProfileIDs \union {Unobserved}, at : Instants]]
    BY <1>1, <2>2 DEF PairingTypeOK
  <2>4. /\ observed'[id].by = p /\ observed'[id].at = now
        /\ \A d \in Challenges : d # id => observed'[d] = observed[d]
    BY <2>2 DEF PairingTypeOK
  <2>5. ASSUME NEW r \in live(challenges)
        PROVE  /\ bound(r) \in ChallengeRecords
               /\ bound(r).id = r.id /\ r.id \in Challenges
               /\ bound(r).profileID = IF r.id = id THEN p ELSE r.profileID
    BY <1>1 DEF ChallengeRecords
  <2>6. challenges' \subseteq ChallengeRecords
    <3> HIDE DEF bound
    <3> QED BY <2>2, <2>5
  <2>7. now + SessionTTL \in Expiries
    BY <1>1, PairingAssumption DEF Instants, Expiries
  <2>8. session \in SessionRecords
    BY <1>1, <2>7 DEF SessionRecords
  <2>9. PairingTypeOK'
    <3> HIDE DEF session
    <3> QED BY <1>1, <1>4, <2>2, <2>3, <2>6, <2>8 DEF PairingTypeOK
  <2>10. ASSUME NEW t \in challenges'
         PROVE  t.id \in 1 .. issued /\ t.profileID = observed'[t.id].by
    <3>1. PICK r \in live(challenges) : t = bound(r)
      BY <2>2, <2>10
    <3>2. r.id \in 1 .. issued /\ r.profileID = observed[r.id].by
      BY <1>1 DEF PairingInv
    <3> HIDE DEF bound
    <3> QED BY <2>4, <2>5, <3>1, <3>2
  <2>11. ASSUME NEW s \in sessions'
         PROVE  s.profileID = observed'[s.token].by /\ s.expiresAt = observed'[s.token].at + SessionTTL
    <3>1. CASE s = session
      BY <2>4, <3>1
    <3>2. CASE s \in sessions
      <4>1. /\ s.token \in Challenges /\ s.profileID \in ProfileIDs
            /\ s.profileID = observed[s.token].by
            /\ s.expiresAt = observed[s.token].at + SessionTTL
        BY <1>1, <3>2 DEF SessionRecords, PairingInv
      <4>2. s.token # id
        BY <1>5, <4>1, PairingAssumption
      <4> QED BY <2>4, <4>1, <4>2
    <3> QED BY <1>1, <2>2, <2>11, <3>1, <3>2
  <2>12. \A d \in Challenges : d > issued => observed'[d].by = Unobserved
    BY <1>1, <1>3, <2>4 DEF PairingInv, Challenges
  <2>13. PairingInv'
    BY <1>4, <2>10, <2>11, <2>12 DEF PairingInv
  <2>14. ObservedStays
    BY <1>5, <2>4 DEF ObservedStays
  <2> QED BY <2>9, <2>13, <2>14
<1>6. CASE observed[id].by # Unobserved
  <2>1. ~ \E r \in challengeOf(id) : r.profileID = Unobserved
    BY <1>1, <1>6 DEF challengeOf, PairingInv
  <2>2. challenges' = live(challenges) /\ sessions' = live(sessions) /\ observed' = observed
    BY <1>6, <2>1 DEF Observe, NoteFirst
  <2> QED BY <1>1, <1>4, <2>2 DEF PairingTypeOK, PairingInv, ObservedStays
<1> QED BY <1>5, <1>6

LEMMA PairingKept ==
    ASSUME PairingTypeOK, PairingInv, PairingSteps
    PROVE  PairingTypeOK' /\ PairingInv' /\ ObservedStays
BY CleanupKeeps, CreateKeeps, TickKeeps, ObserveKeeps DEF PairingSteps

-----------------------------------------------------------------------------
(* A request in progress is for the device its token was bound to, it came  *)
(* before the session's end, and what it remembers is not ahead of the      *)
(* stored profiles.                                                         *)
RequestOK ==
    request # Waiting =>
        /\ request.profileID = observed[request.token].by
        /\ request.since <= observed[request.token].at + SessionTTL
        /\ \A p \in Profiles : request.versions[p] <= profiles[p].version
        /\ enabled \subseteq request.enabled

IInv == TypeOK /\ ProfilesInv /\ PairingInv /\ RequestOK /\ AnswerIsForItsDevice

Forward ==
    \A r \in Profiles :
        /\ profiles'[r].version >= profiles[r].version
        /\ profiles[r].disabled => profiles'[r].disabled
        /\ profiles'[r].endpoint >= profiles[r].endpoint

LEMMA RequestType ==
    ASSUME TypeOK, request # Waiting
    PROVE  request \in [pc : {"found"}, token : Challenges, profileID : Profiles, since : Instants,
                        versions : [Profiles -> Nat], enabled : SUBSET Profiles]
BY DEF TypeOK, Requests

LEMMA VersionType ==
    ASSUME TypeOK, NEW p \in Profiles
    PROVE  profiles[p].version \in Nat /\ profiles[p].disabled \in BOOLEAN
BY DEF TypeOK, ProfilesTypeOK, ProfileRecords

(* Neither an edit nor the pairing disturbs a request or an answer.         *)
LEMMA DevicesKept ==
    ASSUME IInv, TypeOK', ObservedStays, Forward, UNCHANGED <<request, answer>>
    PROVE  RequestOK' /\ AnswerIsForItsDevice'
<1>1. RequestOK'
  <2> SUFFICES ASSUME request # Waiting
               PROVE  /\ request.profileID = observed'[request.token].by
                      /\ request.since <= observed'[request.token].at + SessionTTL
                      /\ \A p \in Profiles : request.versions[p] <= profiles'[p].version
                      /\ enabled' \subseteq request.enabled
    BY DEF RequestOK
  <2>1. /\ request.token \in Challenges /\ request.profileID \in Profiles
        /\ request.versions \in [Profiles -> Nat]
    BY RequestType DEF IInv
  <2>2. /\ request.profileID = observed[request.token].by
        /\ request.since <= observed[request.token].at + SessionTTL
        /\ \A p \in Profiles : request.versions[p] <= profiles[p].version
        /\ enabled \subseteq request.enabled
    BY DEF IInv, RequestOK
  <2>3. observed'[request.token] = observed[request.token]
    BY <2>1, <2>2, SameProfiles, PairingAssumption DEF ObservedStays
  <2>4. ASSUME NEW p \in Profiles
        PROVE  request.versions[p] <= profiles'[p].version
    <3>1. profiles[p].version \in Nat /\ profiles'[p].version \in Nat
      BY VersionType DEF IInv, TypeOK, ProfilesTypeOK, ProfileRecords
    <3> QED BY <2>1, <2>2, <3>1 DEF Forward
  <2>5. enabled' \subseteq enabled
    BY DEF enabled, Forward
  <2> QED BY <2>2, <2>3, <2>4, <2>5
<1>2. AnswerIsForItsDevice'
  <2> SUFFICES ASSUME answer # NoAnswer
               PROVE  observed'[answer.token] = observed[answer.token]
    BY DEF IInv, AnswerIsForItsDevice
  <2>1. answer.token \in Challenges /\ answer.profileID \in Profiles
    BY DEF IInv, TypeOK, Answers
  <2>2. answer.profileID = observed[answer.token].by
    BY DEF IInv, AnswerIsForItsDevice
  <2> QED BY <2>1, <2>2, SameProfiles, PairingAssumption DEF ObservedStays
<1> QED BY <1>1, <1>2

LEMMA FindKeeps ==
    ASSUME IInv, NEW token \in Challenges, FindSession(token)
    PROVE  IInv' /\ ObservedStays /\ UNCHANGED profileVars
<1>1. cleanup /\ UNCHANGED profileVars /\ answer' = NoAnswer
  BY DEF FindSession
<1>2. PairingTypeOK' /\ PairingInv' /\ ObservedStays
  BY <1>1, CleanupKeeps DEF IInv, TypeOK
<1>3. ProfilesTypeOK' /\ ProfilesInv'
  BY <1>1 DEF IInv, TypeOK, ProfilesTypeOK, ProfilesInv, GroupsOK, GroupOK,
              FileInv, FileLoads, profileVars
<1>4. observed' = observed /\ now' = now /\ profiles' = profiles
  BY <1>1 DEF cleanup, profileVars
<1>5. AnswerIsForItsDevice' /\ answer' \in Answers
  BY <1>1 DEF AnswerIsForItsDevice, Answers
<1>6. request' \in Requests /\ RequestOK'
  <2>1. CASE UNCHANGED request
    BY <1>4, <2>1 DEF IInv, TypeOK, RequestOK, enabled
  <2>2. ASSUME NEW s \in live(sessions), s.token = token,
               request' = [pc |-> "found", token |-> token, profileID |-> s.profileID,
                           since |-> now, enabled |-> enabled,
                           versions |-> [p \in Profiles |-> profiles[p].version]]
        PROVE  request' \in Requests /\ RequestOK'
    <3>1. s \in SessionRecords /\ s \in sessions /\ now <= s.expiresAt
      BY <2>2 DEF live, IInv, TypeOK, PairingTypeOK
    <3>2. s.profileID \in Profiles /\ now \in Instants
      BY <3>1, SameProfiles DEF SessionRecords, IInv, TypeOK, PairingTypeOK
    <3>3. [p \in Profiles |-> profiles[p].version] \in [Profiles -> Nat]
      BY VersionType DEF IInv
    <3>4. enabled \in SUBSET Profiles
      BY DEF enabled
    <3>5. request' \in Requests
      BY <2>2, <3>2, <3>3, <3>4 DEF Requests
    <3>6. s.profileID = observed[token].by /\ s.expiresAt = observed[token].at + SessionTTL
      BY <2>2, <3>1 DEF IInv, PairingInv
    <3>7. ASSUME NEW p \in Profiles
          PROVE  request'.versions[p] <= profiles'[p].version
      BY <1>4, <2>2, VersionType DEF IInv
    <3>8. enabled' = enabled
      BY <1>4 DEF enabled
    <3> QED BY <1>4, <2>2, <3>1, <3>5, <3>6, <3>7, <3>8 DEF RequestOK
  <2> QED BY <2>1, <2>2 DEF FindSession
<1> QED BY <1>1, <1>2, <1>3, <1>5, <1>6 DEF IInv, TypeOK

LEMMA ServeKeeps ==
    ASSUME IInv, ServePolicy
    PROVE  IInv' /\ ObservedStays /\ UNCHANGED profileVars
<1>1. UNCHANGED profileVars /\ UNCHANGED pairingVars /\ request' = Waiting /\ request # Waiting
  BY DEF ServePolicy
<1>2. ProfilesTypeOK' /\ ProfilesInv'
  BY <1>1 DEF IInv, TypeOK, ProfilesTypeOK, ProfilesInv, GroupsOK, GroupOK,
              FileInv, FileLoads, profileVars
<1>3. PairingTypeOK' /\ PairingInv' /\ ObservedStays
  BY <1>1 DEF IInv, TypeOK, PairingTypeOK, PairingInv, ObservedStays, pairingVars
<1>4. request' \in Requests /\ RequestOK'
  BY <1>1 DEF Requests, RequestOK
<1>5. answer' \in Answers /\ AnswerIsForItsDevice'
  <2>1. CASE request.profileID \notin enabled
    BY <2>1 DEF ServePolicy, Answers, AnswerIsForItsDevice
  <2>2. CASE request.profileID \in enabled
    <3>1. request \in [pc : {"found"}, token : Challenges, profileID : Profiles,
                       since : Instants, versions : [Profiles -> Nat], enabled : SUBSET Profiles]
      BY <1>1, RequestType DEF IInv
    <3>2. answer' = [token |-> request.token, profileID |-> request.profileID,
                     since |-> request.since, version |-> profiles[request.profileID].version,
                     versions |-> request.versions, enabled |-> request.enabled]
      BY <2>2 DEF ServePolicy
    <3>3. profiles[request.profileID].version \in Nat
      BY <3>1, VersionType DEF IInv
    <3>4. answer' \in Answers
      BY <3>1, <3>2, <3>3 DEF Answers
    <3>5. observed' = observed
      BY <1>1 DEF pairingVars
    <3>6. /\ request.profileID = observed[request.token].by
          /\ request.since <= observed[request.token].at + SessionTTL
          /\ request.versions[request.profileID] <= profiles[request.profileID].version
          /\ request.profileID \in request.enabled
      BY <1>1, <2>2, <3>1 DEF IInv, RequestOK
    <3>7. request.versions[request.profileID] \in Nat
      BY <3>1
    <3>8. AnswerIsForItsDevice'
      BY <3>2, <3>3, <3>5, <3>6, <3>7 DEF AnswerIsForItsDevice
    <3> QED BY <3>4, <3>8
  <2> QED BY <2>1, <2>2
<1> QED BY <1>1, <1>2, <1>3, <1>4, <1>5 DEF IInv, TypeOK

-----------------------------------------------------------------------------
LEMMA Initially ==
    ASSUME Init
    PROVE  IInv
<1>1. ASSUME NEW g \in Packages, NEW action \in Actions
      PROVE  /\ catalogGroup(g, action) \in GroupRecords /\ GroupOK(g, catalogGroup(g, action))
             /\ Placeholder(action) \in GroupRecords /\ GroupOK(g, Placeholder(action))
  <2>1. catalog[g] \in CatalogLists
    BY DEF Init, ProfilesInit
  <2>2. catalogGroup(g, action) \in GroupRecords /\ Placeholder(action) \in GroupRecords
    BY <2>1, ListsAssumption, ValuesAssumption DEF catalogGroup, Placeholder, GroupRecords
  <2> QED
    BY <2>1, <2>2, ListsAssumption DEF catalogGroup, Placeholder, GroupOK
<1>2. PICK prepared \in BOOLEAN :
          profiles = [p \in Profiles |->
              [version |-> 1, endpoint |-> 0, disabled |-> FALSE, pauses |-> NoPauses,
               groups |-> [g \in Groups |->
                   IF g \in Custom THEN NoGroup
                   ELSE IF prepared THEN catalogGroup(g, "block")
                   ELSE Placeholder("block")]]]
  BY DEF Init, ProfilesInit
<1> DEFINE gs == [g \in Groups |-> IF g \in Custom THEN NoGroup
                                   ELSE IF prepared THEN catalogGroup(g, "block")
                                   ELSE Placeholder("block")]
<1>3. ASSUME NEW g \in Groups
      PROVE  /\ gs[g] \in GroupRecords \union {NoGroup} /\ GroupOK(g, gs[g])
  <2>1. CASE g \in Custom
    BY <2>1 DEF GroupOK
  <2>2. CASE g \notin Custom
    BY <1>1, <2>2 DEF Groups, Actions
  <2> QED BY <2>1, <2>2
<1>4. gs \in [Groups -> GroupRecords \union {NoGroup}]
  BY <1>3
<1> HIDE DEF gs
<1>5. profiles = [p \in Profiles |->
          [version |-> 1, endpoint |-> 0, disabled |-> FALSE, pauses |-> NoPauses, groups |-> gs]]
  BY <1>2 DEF gs
<1>6. profiles \in [Profiles -> ProfileRecords]
  BY <1>4, <1>5, ValuesAssumption DEF ProfileRecords
<1>7. file = [zone |-> zone, profiles |-> profiles]
  BY DEF Init, ProfilesInit
<1>8. ProfilesTypeOK
  BY <1>6, <1>7, ValuesAssumption DEF Init, ProfilesInit, ProfilesTypeOK
<1>9. \A p \in Profiles : profiles[p].groups = gs
  BY <1>5
<1>10. GroupsOK(profiles)
  BY <1>3, <1>9 DEF GroupsOK
<1>11. ASSUME NEW p \in Profiles
       PROVE  ProfileMatches(profiles[p], profiles[p])
  <2>1. profiles[p].disabled = FALSE
    BY <1>5
  <2>2. ASSUME NEW g \in Groups
        PROVE  GroupMatches(FALSE, gs[g], gs[g])
    <3>1. CASE gs[g] = NoGroup
      BY <3>1 DEF GroupMatches
    <3>2. CASE gs[g] # NoGroup
      <4>1. g \in Packages /\ gs[g] \in {catalogGroup(g, "block"), Placeholder("block")}
        BY <3>2 DEF gs, Groups
      <4>2. catalog[g] \in CatalogLists
        BY <4>1 DEF Init, ProfilesInit
      <4>3. gs[g].domains = catalog[g] \/ gs[g].domains = {}
        BY <4>1 DEF catalogGroup, Placeholder
      <4>4. Normalize[gs[g].domains] = gs[g].domains
        BY <4>2, <4>3, ListsAssumption
      <4> QED BY <3>2, <4>4 DEF GroupMatches
    <3> QED BY <3>1, <3>2
  <2> QED BY <1>9, <2>1, <2>2 DEF ProfileMatches
<1>12. ProfilesInv
  BY <1>7, <1>10, <1>11 DEF ProfilesInv, FileInv
<1>13. PairingTypeOK /\ PairingInv
  BY PairingAssumption
     DEF Init, PairingInit, PairingTypeOK, PairingInv, Instants, Challenges
<1>14. request \in Requests /\ answer \in Answers /\ RequestOK /\ AnswerIsForItsDevice
  BY DEF Init, Requests, Answers, RequestOK, AnswerIsForItsDevice
<1> QED BY <1>8, <1>12, <1>13, <1>14 DEF IInv, TypeOK

(* A step of the whole keeps the invariant, moves the profiles forward, and *)
(* is a step of the profiles or leaves them alone.                          *)
LEMMA StepKeeps ==
    ASSUME IInv, [Next]_vars
    PROVE  IInv' /\ Forward /\ (ProfilesNext \/ UNCHANGED <<profiles, zone>>)
<1>0. ASSUME profiles' = profiles
      PROVE  Forward
  BY <1>0, VersionType DEF Forward, IInv, TypeOK, ProfilesTypeOK, ProfileRecords
<1>1. CASE ProfilesNext /\ UNCHANGED <<pairingVars, request, answer>>
  <2>1. ProfilesTypeOK' /\ ProfilesInv'
    BY <1>1, ProfilesKept DEF IInv
  <2>2. PairingTypeOK' /\ PairingInv' /\ ObservedStays
    BY <1>1 DEF IInv, TypeOK, PairingTypeOK, PairingInv, ObservedStays, pairingVars
  <2>3. Forward
    BY <1>1, ProfilesMoveForward DEF IInv, Forward
  <2>4. TypeOK'
    BY <1>1, <2>1, <2>2 DEF IInv, TypeOK
  <2>5. RequestOK' /\ AnswerIsForItsDevice'
    BY <1>1, <2>2, <2>3, <2>4, DevicesKept
  <2>6. IInv'
    BY <2>1, <2>2, <2>4, <2>5 DEF IInv
  <2> QED BY <1>1, <2>3, <2>6
<1>2. CASE PairingNext /\ UNCHANGED <<request, answer>>
  <2>1. /\ PairingSteps
        /\ profiles' = profiles /\ zone' = zone /\ file' = file
        /\ catalog' = catalog /\ panel' = panel
        /\ Bounded \/ changes' = changes
    BY <1>2 DEF PairingNext, PairingSteps, CreateRefused, Read, profileVars
  <2>2. PairingTypeOK' /\ PairingInv' /\ ObservedStays
    BY <2>1, PairingKept DEF IInv, TypeOK
  <2>3. changes' \in 0 .. MaxChanges
    BY <2>1, BoundedCounts DEF IInv, TypeOK, ProfilesTypeOK
  <2>4. ProfilesTypeOK' /\ ProfilesInv'
    BY <2>1, <2>3 DEF IInv, TypeOK, ProfilesTypeOK, ProfilesInv, GroupsOK, GroupOK, FileInv,
                      FileLoads
  <2>5. TypeOK'
    BY <1>2, <2>2, <2>4 DEF IInv, TypeOK
  <2> QED BY <1>0, <1>2, <2>1, <2>2, <2>4, <2>5, DevicesKept DEF IInv
<1>3. CASE \E token \in Challenges : FindSession(token)
  BY <1>0, <1>3, FindKeeps DEF profileVars
<1>4. CASE ServePolicy
  BY <1>0, <1>4, ServeKeeps DEF profileVars
<1>5. CASE UNCHANGED vars
  <2>1. UNCHANGED profileVars /\ UNCHANGED pairingVars /\ UNCHANGED <<request, answer>>
    BY <1>5 DEF vars
  <2>2. ProfilesTypeOK' /\ ProfilesInv'
    BY <2>1 DEF IInv, TypeOK, ProfilesTypeOK, ProfilesInv, GroupsOK, GroupOK,
                FileInv, FileLoads, profileVars
  <2>3. PairingTypeOK' /\ PairingInv' /\ ObservedStays
    BY <2>1 DEF IInv, TypeOK, PairingTypeOK, PairingInv, ObservedStays, pairingVars
  <2>4. profiles' = profiles /\ zone' = zone
    BY <2>1 DEF profileVars
  <2>5. TypeOK'
    BY <2>1, <2>2, <2>3 DEF IInv, TypeOK
  <2> QED BY <1>0, <2>1, <2>2, <2>3, <2>4, <2>5, DevicesKept DEF IInv
<1> QED BY <1>1, <1>2, <1>3, <1>4, <1>5 DEF Next

LEMMA Invariant == Spec => []IInv
<1>1. Init => IInv
  BY Initially
<1>2. IInv /\ [Next]_vars => IInv'
  BY StepKeeps
<1> QED BY <1>1, <1>2, PTL DEF Spec

(* Type correctness of the profiles, the pairing and the devices.           *)
THEOREM TypeCorrect == Spec => []TypeOK
<1>1. IInv => TypeOK
  BY DEF IInv
<1> QED BY <1>1, Invariant, PTL

(* A restart starts unless the file holds a list that is not settled, and   *)
(* keeps what the parents saved: the lists of the file are those enforced,  *)
(* but for what is left to the catalog and what another normalising changes.*)
THEOREM RestartsKeepPolicy == Spec => []RestartKeepsPolicy
<1>1. ASSUME IInv
      PROVE  RestartKeepsPolicy
  <2>1. ProfilesTypeOK /\ ProfilesInv
    BY <1>1 DEF IInv, TypeOK
  <2>2. ASSUME \A p \in Profiles, g \in Groups :
                  LET group == file.profiles[p].groups[g]
                  IN group = NoGroup \/ file.profiles[p].disabled \/ settled(group.domains)
        PROVE  AcceptedTwice(Load)
    <3>1. ASSUME NEW p \in Profiles, NEW g \in Groups
          PROVE  GroupLoads(file.profiles[p].disabled, file.profiles[p].groups[g])
      <4>1. file.profiles[p].groups[g] # NoGroup => file.profiles[p].groups[g].domains \in Lists
        BY <2>1, LoadedGroup
      <4>2. ASSUME NEW list \in Lists, settled(list)
            PROVE  Twice(list)
        BY <4>2, ListsAssumption DEF settled, Twice
      <4> QED BY <2>2, <4>1, <4>2 DEF GroupLoads
    <3> QED BY <2>1, <3>1, LoadAcceptance DEF FileLoads
  <2>3. ASSUME AcceptedTwice(Load)
        PROVE  /\ file.zone = zone
               /\ \A p \in Profiles :
                     LET restarted == normalized(normalized(Load))[p]
                     IN /\ restarted.disabled = profiles[p].disabled
                        /\ restarted.pauses = profiles[p].pauses
                        /\ \A g \in Groups :
                              SamePolicyBut(profiles[p].groups[g], restarted.groups[g])
    BY <2>1, <2>3, RestartIsSafe
  <2> QED BY <2>2, <2>3 DEF RestartKeepsPolicy
<1>2. IInv => RestartKeepsPolicy
  BY <1>1
<1> QED BY <1>2, Invariant, PTL

(* A token reads the policy of the device it was bound to.                  *)
THEOREM AnswersAreForTheirDevices == Spec => []AnswerIsForItsDevice
<1>1. IInv => AnswerIsForItsDevice
  BY DEF IInv
<1> QED BY <1>1, Invariant, PTL

(* What was revoked stays revoked.                                          *)
THEOREM RevocationsAreFinal == Spec => RevocationIsFinal
<1>1. IInv /\ [Next]_vars =>
        [\A p \in Profiles :
            /\ profiles[p].disabled => profiles'[p].disabled
            /\ profiles'[p].endpoint >= profiles[p].endpoint]_profileVars
  BY StepKeeps DEF Forward
<1> QED BY <1>1, Invariant, PTL DEF Spec, RevocationIsFinal

(* A version names one policy.                                              *)
THEOREM VersionsNamePolicies == Spec => VersionNamesPolicy
<1> DEFINE Named(r) ==
      \/ profiles'[r].version > profiles[r].version
      \/ /\ profiles'[r].version = profiles[r].version
         /\ zone' = zone
         /\ profiles'[r].pauses = profiles[r].pauses
         /\ \A g \in Groups : SamePolicyBut(profiles[r].groups[g], profiles'[r].groups[g])
<1>1. ASSUME IInv, [Next]_vars, NEW r \in Profiles
      PROVE  Named(r)
  <2>0. profiles[r].version \in Nat
    BY <1>1, VersionType DEF IInv
  <2>1. ASSUME NEW group PROVE SamePolicyBut(group, group)
    BY DEF SamePolicyBut
  <2>2. CASE profiles' = profiles /\ zone' = zone
    BY <2>1, <2>2
  <2>3. CASE ProfilesNext
    BY <1>1, <2>0, <2>1, <2>3, ProfilesMove DEF Moves, IInv
  <2> QED BY <1>1, <2>2, <2>3, StepKeeps
<1>2. IInv /\ [Next]_vars =>
        [\A p \in Profiles :
            \/ profiles'[p].version > profiles[p].version
            \/ /\ profiles'[p].version = profiles[p].version
               /\ zone' = zone
               /\ profiles'[p].pauses = profiles[p].pauses
               /\ \A g \in Groups :
                     SamePolicyBut(profiles[p].groups[g], profiles'[p].groups[g])]_profileVars
  BY <1>1
<1> QED BY <1>2, Invariant, PTL DEF Spec, VersionNamesPolicy

-----------------------------------------------------------------------------
(* born[i] is when challenge i was created.  Challenges are numbered in the *)
(* order of their creation; one that has not expired is still pending; and  *)
(* a challenge that is created when maxPendingChallenges later ones have    *)
(* been created comes after it has expired.                                 *)
BornAt(born) ==
    /\ \A i \in 1 .. issued : born[i] <= now
    /\ \A i, j \in 1 .. issued : i <= j => born[i] <= born[j]
    /\ \A r \in challenges : r.expiresAt = born[r.id] + ChallengeTTL
    /\ \A i \in 1 .. issued :
          now <= born[i] + ChallengeTTL => \E r \in challenges : r.id = i
    /\ \A s \in sessions :
          /\ s.token \in 1 .. issued
          /\ s.expiresAt <= born[s.token] + ChallengeTTL + SessionTTL
    /\ \A i, j \in 1 .. issued :
          j = i + maxPendingChallenges => born[i] + ChallengeTTL < born[j]

AgesInv == \E born \in [1 .. issued -> Nat] : BornAt(born)

(* The clock, the counter and the limits are numbers.                       *)
LEMMA PairingNumbers ==
    ASSUME PairingTypeOK
    PROVE  /\ now \in Nat /\ issued \in Nat /\ ChallengeTTL \in Nat /\ SessionTTL \in Nat
           /\ maxPendingChallenges \in Nat
BY PairingAssumption DEF PairingTypeOK, Instants

(* What cleanup deletes has expired.                                        *)
LEMMA CleanupKeepsAges ==
    ASSUME PairingTypeOK, PairingInv, AgesInv, cleanup
    PROVE  AgesInv'
<1>1. PICK born \in [1 .. issued -> Nat] : BornAt(born)
  BY DEF AgesInv
<1>2. /\ challenges' = {r \in challenges : now <= r.expiresAt}
      /\ sessions' \subseteq sessions /\ issued' = issued /\ now' = now
  BY DEF cleanup, live
<1>3. BornAt(born)'
  <2>1. ASSUME NEW i \in 1 .. issued, now <= born[i] + ChallengeTTL
        PROVE  \E r \in challenges' : r.id = i
    <3>1. PICK r \in challenges : r.id = i
      BY <1>1, <2>1 DEF BornAt
    <3>2. r.expiresAt = born[i] + ChallengeTTL
      BY <1>1, <3>1 DEF BornAt
    <3> QED BY <1>2, <2>1, <3>1, <3>2
  <2> QED BY <1>1, <1>2, <2>1 DEF BornAt
<1> QED BY <1>2, <1>3 DEF AgesInv

(* Time only passes.                                                        *)
LEMMA TickKeepsAges ==
    ASSUME PairingTypeOK, PairingInv, AgesInv, Tick
    PROVE  AgesInv'
<1>1. PICK born \in [1 .. issued -> Nat] : BornAt(born)
  BY DEF AgesInv
<1>2. /\ challenges' = challenges /\ sessions' = sessions /\ issued' = issued
      /\ now' = now + 1
  BY DEF Tick
<1>3. \A i \in 1 .. issued : /\ born[i] <= now + 1
                             /\ now + 1 <= born[i] + ChallengeTTL => now <= born[i] + ChallengeTTL
  BY <1>1, PairingNumbers DEF BornAt
<1>4. BornAt(born)'
  BY <1>1, <1>2, <1>3 DEF BornAt
<1> QED BY <1>2, <1>4 DEF AgesInv

(* A session begins while its challenge lives.                              *)
LEMMA ObserveKeepsAges ==
    ASSUME PairingTypeOK, PairingInv, AgesInv, NEW id \in Challenges, NEW p \in Profiles,
           Observe(p, id)
    PROVE  AgesInv'
<1> DEFINE session == [token |-> id, profileID |-> p, expiresAt |-> now + SessionTTL]
           bound(r) == IF r.id = id THEN [r EXCEPT !.profileID = p] ELSE r
<1>1. PICK born \in [1 .. issued -> Nat] : BornAt(born)
  BY DEF AgesInv
<1>2. /\ issued' = issued /\ now' = now
      /\ \/ challenges' = {bound(r) : r \in live(challenges)}
         \/ challenges' = live(challenges)
      /\ sessions' \subseteq sessions \union {session}
  BY DEF Observe, live
<1>3. PICK c \in challenges : c.id = id /\ now <= c.expiresAt
  BY DEF Observe, challengeOf, live
<1>4. \A r \in challenges : bound(r).id = r.id /\ bound(r).expiresAt = r.expiresAt
  BY DEF PairingTypeOK, ChallengeRecords
<1>5. \A t \in challenges' : \E r \in challenges : t.id = r.id /\ t.expiresAt = r.expiresAt
  <2> HIDE DEF bound
  <2> QED BY <1>2, <1>4 DEF live
<1>6. \A r \in challenges : now <= r.expiresAt => \E t \in challenges' : t.id = r.id
  <2> HIDE DEF bound
  <2> QED BY <1>2, <1>4 DEF live
<1>7. id \in 1 .. issued /\ now <= born[id] + ChallengeTTL
  BY <1>1, <1>3 DEF BornAt, PairingInv
<1>8. BornAt(born)'
  <2>1. \A t \in challenges' : t.expiresAt = born[t.id] + ChallengeTTL
    BY <1>1, <1>5 DEF BornAt
  <2>2. ASSUME NEW i \in 1 .. issued, now <= born[i] + ChallengeTTL
        PROVE  \E t \in challenges' : t.id = i
    <3>1. PICK r \in challenges : r.id = i
      BY <1>1, <2>2 DEF BornAt
    <3>2. r.expiresAt = born[i] + ChallengeTTL
      BY <1>1, <3>1 DEF BornAt
    <3> QED BY <1>6, <2>2, <3>1, <3>2
  <2>3. ASSUME NEW s \in sessions'
        PROVE  /\ s.token \in 1 .. issued
               /\ s.expiresAt <= born[s.token] + ChallengeTTL + SessionTTL
    <3>1. CASE s \in sessions
      BY <1>1, <3>1 DEF BornAt
    <3>2. CASE s = session
      <4>1. s.token = id /\ s.expiresAt = now + SessionTTL
        BY <3>2
      <4>2. born[id] \in Nat
        BY <1>7
      <4> QED BY <1>7, <4>1, <4>2, PairingNumbers
    <3> QED BY <1>2, <2>3, <3>1, <3>2
  <2> QED BY <1>1, <1>2, <2>1, <2>2, <2>3 DEF BornAt
<1> QED BY <1>2, <1>8 DEF AgesInv

(* A challenge is all in its number, so that there are finitely many.       *)
LEMMA PendingFinite ==
    ASSUME PairingTypeOK, PairingInv, NEW born \in [1 .. issued -> Nat], BornAt(born)
    PROVE  IsFiniteSet(pending)
<1> DEFINE held == live(challenges)
           id == [r \in held |-> r.id]
<1>1. id \in Injection(held, 1 .. issued)
  <2>1. \A r \in held : /\ r.id \in 1 .. issued /\ r \in ChallengeRecords
                        /\ r.profileID = observed[r.id].by
                        /\ r.expiresAt = born[r.id] + ChallengeTTL
    BY DEF live, PairingInv, BornAt, PairingTypeOK
  <2>2. \A r, t \in held : r.id = t.id => r = t
    BY <2>1 DEF ChallengeRecords
  <2>3. /\ id \in [held -> 1 .. issued]
        /\ \A r \in held : id[r] = r.id
    <3> HIDE DEF held
    <3> QED BY <2>1
  <2> HIDE DEF held, id
  <2>4. \A r, t \in held : id[r] = id[t] => r = t
    BY <2>2, <2>3
  <2> QED BY <2>3, <2>4, Fun_IsInj
<1>2. IsFiniteSet(held)
  <2>1. IsFiniteSet(1 .. issued)
    BY FS_Interval, PairingNumbers
  <2> HIDE DEF held, id
  <2> QED BY <1>1, <2>1, FS_Injection
<1> QED BY <1>2 DEF pending

(* A challenge that is not refused comes after the one that many places     *)
(* before it has expired: all that were created since are pending else.     *)
LEMMA PlaceIsFree ==
    ASSUME PairingTypeOK, PairingInv, NEW born \in [1 .. issued -> Nat], BornAt(born),
           Cardinality(pending) < maxPendingChallenges,
           NEW i \in 1 .. issued, issued + 1 = i + maxPendingChallenges
    PROVE  born[i] + ChallengeTTL < now
<1> SUFFICES ASSUME ~ (born[i] + ChallengeTTL < now) PROVE FALSE
  OBVIOUS
<1> DEFINE later == i .. issued
           held == live(challenges)
           f == [k \in later |-> CHOOSE r \in held : r.id = k]
<1>1. \A k \in later : k \in 1 .. issued /\ born[k] \in Nat /\ now <= born[k] + ChallengeTTL
  <2> SUFFICES ASSUME NEW k \in later
               PROVE  k \in 1 .. issued /\ born[k] \in Nat /\ now <= born[k] + ChallengeTTL
    OBVIOUS
  <2>1. k \in 1 .. issued /\ i <= k
    BY PairingNumbers
  <2>2. born[i] <= born[k] /\ born[i] \in Nat /\ born[k] \in Nat
    BY <2>1 DEF BornAt
  <2> QED BY <2>1, <2>2, PairingNumbers
<1>2. ASSUME NEW k \in later PROVE \E r \in held : r.id = k
  <2>1. PICK r \in challenges : r.id = k
    BY <1>1 DEF BornAt
  <2>2. r.expiresAt = born[k] + ChallengeTTL
    BY <2>1 DEF BornAt
  <2> QED BY <1>1, <2>1, <2>2 DEF live
<1>3. f \in Injection(later, held)
  <2>1. \A k \in later : f[k] \in held /\ f[k].id = k
    BY <1>2
  <2> HIDE DEF f, later, held
  <2>2. f \in [later -> held]
    BY <2>1 DEF f
  <2>3. \A k, m \in later : f[k] = f[m] => k = m
    BY <2>1
  <2> QED BY <2>2, <2>3, Fun_IsInj
<1>5. IsFiniteSet(held)
  BY PendingFinite DEF pending
<1>6. Cardinality(later) <= Cardinality(held)
  <2> HIDE DEF held, later, f
  <2> QED BY <1>3, <1>5, FS_Injection
<1>7. Cardinality(later) = maxPendingChallenges
  <2>1. i \in Int /\ issued \in Int /\ i <= issued
    BY PairingNumbers
  <2>2. Cardinality(later) = issued - i + 1
    BY <2>1, FS_Interval
  <2> HIDE DEF later
  <2>3. issued - i + 1 = maxPendingChallenges
    BY PairingNumbers
  <2> QED BY <2>2, <2>3
<1>8. Cardinality(held) \in Nat /\ Cardinality(held) < maxPendingChallenges
  BY <1>5, FS_CardinalityType DEF pending
<1> QED BY <1>6, <1>7, <1>8, PairingNumbers

(* A new challenge is the youngest, and is admitted where there is a place. *)
LEMMA CreateKeepsAges ==
    ASSUME PairingTypeOK, PairingInv, AgesInv, Create
    PROVE  AgesInv'
<1> DEFINE new == [id |-> issued + 1, expiresAt |-> now + ChallengeTTL, profileID |-> Unobserved]
<1>1. PICK born \in [1 .. issued -> Nat] : BornAt(born)
  BY DEF AgesInv
<1>2. /\ challenges' = live(challenges) \union {new}
      /\ sessions' = live(sessions) /\ issued' = issued + 1 /\ now' = now
      /\ Cardinality(pending) < maxPendingChallenges
  BY DEF Create
<1>3. /\ now \in Nat /\ issued \in Nat /\ ChallengeTTL \in Nat
      /\ maxPendingChallenges \in Nat
  BY PairingNumbers
<1>4. PICK next \in [1 .. issued + 1 -> Nat] :
        /\ next[issued + 1] = now
        /\ \A i \in 1 .. issued : next[i] = born[i] /\ born[i] \in Nat
        /\ \A i \in 1 .. issued + 1 : i \in 1 .. issued \/ i = issued + 1
  <2> DEFINE next == [i \in 1 .. issued + 1 |-> IF i = issued + 1 THEN now ELSE born[i]]
  <2>1. /\ next \in [1 .. issued + 1 -> Nat]
        /\ next[issued + 1] = now
        /\ \A i \in 1 .. issued : next[i] = born[i] /\ born[i] \in Nat
        /\ \A i \in 1 .. issued + 1 : i \in 1 .. issued \/ i = issued + 1
    BY <1>3
  <2> QED BY <2>1
<1>5. BornAt(next)'
  <2>1. \A i \in 1 .. issued + 1 : next[i] <= now
    BY <1>1, <1>3, <1>4 DEF BornAt
  <2>2. \A i, j \in 1 .. issued + 1 : i <= j => next[i] <= next[j]
    <3> SUFFICES ASSUME NEW i \in 1 .. issued + 1, NEW j \in 1 .. issued + 1, i <= j
                 PROVE  next[i] <= next[j]
      OBVIOUS
    <3>1. CASE j = issued + 1
      BY <1>4, <2>1, <3>1
    <3>2. CASE j \in 1 .. issued
      <4>1. i \in 1 .. issued
        BY <1>3, <3>2
      <4> QED BY <1>1, <1>4, <3>2, <4>1 DEF BornAt
    <3> QED BY <1>4, <3>1, <3>2
  <2>3. ASSUME NEW r \in challenges' PROVE r.expiresAt = next[r.id] + ChallengeTTL
    <3>1. CASE r = new
      <4>1. r.id = issued + 1 /\ r.expiresAt = now + ChallengeTTL
        BY <3>1
      <4> QED BY <1>4, <4>1
    <3>2. CASE r \in challenges
      <4>1. r.id \in 1 .. issued /\ r.expiresAt = born[r.id] + ChallengeTTL
        BY <1>1, <3>2 DEF BornAt, PairingInv
      <4> QED BY <1>4, <4>1
    <3> QED BY <1>2, <2>3, <3>1, <3>2 DEF live
  <2>4. ASSUME NEW i \in 1 .. issued + 1, now <= next[i] + ChallengeTTL
        PROVE  \E r \in challenges' : r.id = i
    <3>1. CASE i = issued + 1
      <4>1. new \in challenges' /\ new.id = issued + 1
        BY <1>2
      <4> QED BY <3>1, <4>1
    <3>2. CASE i \in 1 .. issued
      <4>1. PICK r \in challenges : r.id = i
        BY <1>1, <1>4, <2>4, <3>2 DEF BornAt
      <4>2. r.expiresAt = born[i] + ChallengeTTL
        BY <1>1, <4>1 DEF BornAt
      <4>3. r \in live(challenges)
        BY <1>4, <2>4, <3>2, <4>1, <4>2 DEF live
      <4> QED BY <1>2, <4>1, <4>3
    <3> QED BY <1>4, <3>1, <3>2
  <2>5. ASSUME NEW s \in sessions'
        PROVE  /\ s.token \in 1 .. issued + 1
               /\ s.expiresAt <= next[s.token] + ChallengeTTL + SessionTTL
    <3>1. s \in sessions
      BY <1>2 DEF live
    <3>2. s.token \in 1 .. issued /\ s.expiresAt <= born[s.token] + ChallengeTTL + SessionTTL
      BY <1>1, <3>1 DEF BornAt
    <3>3. s.token \in 1 .. issued + 1
      BY <1>3, <3>2
    <3> QED BY <1>4, <3>2, <3>3
  <2>6. ASSUME NEW i \in 1 .. issued + 1, NEW j \in 1 .. issued + 1,
               j = i + maxPendingChallenges
        PROVE  next[i] + ChallengeTTL < next[j]
    <3>1. CASE j \in 1 .. issued
      <4>1. i \in 1 .. issued
        BY <1>3, <2>6, <3>1
      <4> QED BY <1>1, <1>4, <2>6, <3>1, <4>1 DEF BornAt
    <3>2. CASE j = issued + 1
      <4>1. maxPendingChallenges > 0
        <5>1. Cardinality(pending) \in Nat
          <6>1. IsFiniteSet(pending)
            BY <1>1, PendingFinite
          <6> QED BY <6>1, FS_CardinalityType
        <5> QED BY <1>2, <1>3, <5>1
      <4>2. i \in 1 .. issued
        BY <1>3, <2>6, <3>2, <4>1
      <4>3. born[i] + ChallengeTTL < now
        BY <1>1, <1>2, <2>6, <3>2, <4>2, PlaceIsFree
      <4> QED BY <1>4, <3>2, <4>2, <4>3
    <3> QED BY <1>4, <3>1, <3>2
  <2> QED BY <1>2, <2>1, <2>2, <2>3, <2>4, <2>5, <2>6 DEF BornAt
<1> QED BY <1>2, <1>4, <1>5 DEF AgesInv

(* Challenges that are k times that many places apart are k lives apart.    *)
LEMMA BirthsSpread ==
    ASSUME PairingTypeOK, NEW born \in [1 .. issued -> Nat], BornAt(born),
           NEW lo \in 1 .. issued, NEW k \in Nat, lo + k * maxPendingChallenges <= issued
    PROVE  born[lo] + k * (ChallengeTTL + 1) <= born[lo + k * maxPendingChallenges]
<1> DEFINE M == maxPendingChallenges
           C == ChallengeTTL
           T == {n \in Nat : lo + n * M <= issued => born[lo] + n * (C + 1) <= born[lo + n * M]}
<1>0. M \in Nat /\ C \in Nat /\ issued \in Nat /\ lo \in Nat /\ lo >= 1 /\ born[lo] \in Nat
  BY PairingNumbers
<1>1. 0 \in T
  <2>1. lo + 0 * M = lo /\ born[lo] + 0 * (C + 1) = born[lo]
    BY <1>0
  <2> HIDE DEF M, C
  <2> QED BY <1>0, <2>1
<1>2. ASSUME NEW n \in T PROVE n + 1 \in T
  <2> SUFFICES ASSUME lo + (n + 1) * M <= issued
               PROVE  born[lo] + (n + 1) * (C + 1) <= born[lo + (n + 1) * M]
    OBVIOUS
  <2>1. PICK i \in Nat : i = lo + n * M
    BY <1>0
  <2>2. PICK j \in Nat : j = i + M
    BY <1>0
  <2>3. j = lo + (n + 1) * M
    BY <1>0, <2>1, <2>2
  <2>4. i \in 1 .. issued /\ j \in 1 .. issued
    <3>1. n * M \in Nat
      BY <1>0
    <3>2. j <= issued
      BY <2>3
    <3> HIDE DEF M
    <3> QED BY <1>0, <2>1, <2>2, <3>1, <3>2
  <2>5. born[lo] + n * (C + 1) <= born[i]
    BY <1>0, <2>1, <2>4
  <2>6. born[i] + C < born[j]
    BY <2>2, <2>4 DEF BornAt
  <2>7. (n + 1) * (C + 1) = n * (C + 1) + (C + 1) /\ n * (C + 1) \in Nat
    BY <1>0
  <2>8. born[i] \in Nat /\ born[j] \in Nat
    BY <2>4
  <2> HIDE DEF M, C
  <2>9. born[lo] + (n + 1) * (C + 1) <= born[j]
    BY <1>0, <2>5, <2>6, <2>7, <2>8
  <2> QED BY <2>3, <2>9
<1>3. k \in T
  <2> HIDE DEF T
  <2>1. T \in SUBSET Nat
    BY DEF T
  <2> QED BY <1>1, <1>2, <2>1, Induction
<1> QED BY <1>3

(* The sessions in force are those of challenges that lie within a lapse of *)
(* time, whatever became of the others.                                     *)
LEMMA AgesBoundSessions ==
    ASSUME PairingTypeOK, PairingInv, AgesInv
    PROVE  SessionsAreBounded
<1>1. PICK born \in [1 .. issued -> Nat] : BornAt(born)
  BY DEF AgesInv
<1> DEFINE S == SessionTTL
           C == ChallengeTTL
           M == maxPendingChallenges
           k == (S + C) \div (C + 1) + 1
           held == live(sessions)
           token == [s \in held |-> s.token]
<1>2. /\ S \in Nat /\ C \in Nat /\ M \in Nat /\ issued \in Nat /\ now \in Nat
      /\ k \in Nat /\ S + C < k * (C + 1) /\ M * k \in Nat
  <2>1. /\ S \in Nat /\ C \in Nat /\ M \in Nat /\ issued \in Nat /\ now \in Nat
    BY PairingNumbers
  <2> HIDE DEF S, C, M
  <2>2. PICK a \in Nat, b \in Nat : a = S + C /\ b = C + 1
    BY <2>1
  <2>3. a \div b \in Nat /\ a < (a \div b + 1) * b
    BY <2>1, <2>2, RoundedDown
  <2>4. k = a \div b + 1 /\ k \in Nat
    BY <2>2, <2>3
  <2>5. S + C < k * (C + 1)
    BY <2>2, <2>3, <2>4
  <2> HIDE DEF k
  <2>6. M * k \in Nat
    BY <2>1, <2>4
  <2> QED BY <2>1, <2>4, <2>5, <2>6
<1>3. /\ token \in [held -> Nat]
      /\ \A s \in held : /\ token[s] \in 1 .. issued
                         /\ now <= born[token[s]] + C + S
  <2>1. \A s \in held : /\ s.token \in 1 .. issued
                        /\ now <= s.expiresAt
                        /\ s.expiresAt \in Nat
                        /\ s.expiresAt <= born[s.token] + ChallengeTTL + SessionTTL
    BY <1>1 DEF BornAt, live, PairingTypeOK, SessionRecords, Expiries
  <2>2. \A s \in held : now <= born[s.token] + C + S
    <3> SUFFICES ASSUME NEW s \in held PROVE now <= born[s.token] + C + S
      OBVIOUS
    <3>1. born[s.token] \in Nat
      BY <2>1
    <3>2. PICK b \in Nat : b = born[s.token]
      BY <3>1
    <3>3. PICK e \in Nat : e = s.expiresAt
      BY <2>1
    <3>4. now <= e /\ e <= (b + C) + S
      BY <2>1, <3>2, <3>3
    <3>5. S \in Nat /\ C \in Nat /\ now \in Nat
      BY PairingNumbers
    <3>6. now <= (b + C) + S
      <4> HIDE DEF S, C
      <4> QED BY <3>4, <3>5
    <3> QED BY <3>2, <3>6
  <2> HIDE DEF held
  <2> QED BY <2>1, <2>2
<1>4. \A r, s \in held : token[r] = token[s] => r = s
  <2>1. \A s \in held : /\ s \in SessionRecords
                        /\ s.profileID = observed[s.token].by
                        /\ s.expiresAt = observed[s.token].at + SessionTTL
    BY DEF live, PairingInv, PairingTypeOK
  <2> HIDE DEF held
  <2> QED BY <2>1 DEF SessionRecords
<1>5. CASE held = {}
  <2>1. Cardinality(held) = 0
    BY <1>5, FS_EmptySet
  <2>2. Cardinality(held) <= M * k
    <3> HIDE DEF M, k, held
    <3> QED BY <1>2, <2>1
  <2> QED BY <2>2 DEF SessionsAreBounded
<1>6. CASE held # {}
  <2> HIDE DEF S, C, M, k, held, token
  <2> DEFINE T == {token[s] : s \in held}
  <2>1. T \in SUBSET Nat /\ T # {}
    BY <1>3, <1>6
  <2>2. PICK lo \in T : \A n \in T : lo <= n
    BY <2>1, LeastNumber
  <2>3. \A s \in held : lo <= token[s]
    BY <2>2
  <2>4. /\ lo \in 1 .. issued /\ lo \in Nat
        /\ born[lo] \in Nat
        /\ now <= born[lo] + C + S
    <3>1. PICK s \in held : lo = token[s]
      BY <2>2
    <3> QED BY <1>3, <3>1
  <2>5. ASSUME NEW s \in held PROVE token[s] <= lo + M * k - 1
    <3> SUFFICES ASSUME lo + M * k <= token[s] PROVE FALSE
      BY <1>2, <1>3, <2>4
    <3>1. lo + k * M <= issued
      BY <1>2, <1>3, <2>4
    <3>2. born[lo] + k * (C + 1) <= born[lo + k * M]
      BY <1>1, <1>2, <2>4, <3>1, BirthsSpread DEF C, M
    <3>3. lo + k * M \in 1 .. issued
      BY <1>2, <2>4, <3>1
    <3>4. born[lo + k * M] <= now /\ born[lo + k * M] \in Nat
      BY <1>1, <3>3 DEF BornAt
    <3>5. k * (C + 1) \in Nat
      BY <1>2
    <3> QED BY <1>2, <2>4, <3>2, <3>4, <3>5
  <2>6. PICK top \in Int : top = lo + M * k - 1
    BY <1>2, <2>4
  <2>7. token \in [held -> lo .. top]
    <3>1. \A s \in held : token[s] \in lo .. top
      BY <1>3, <2>3, <2>4, <2>5, <2>6
    <3> QED BY <1>3, <3>1
  <2>8. token \in Injection(held, lo .. top)
    BY <1>4, <2>7, Fun_IsInj
  <2>9. /\ IsFiniteSet(lo .. top)
        /\ Cardinality(lo .. top) <= M * k
    <3>1. /\ IsFiniteSet(lo .. top)
          /\ Cardinality(lo .. top) = IF lo > top THEN 0 ELSE top - lo + 1
      BY <2>4, <2>6, FS_Interval
    <3> QED BY <1>2, <2>4, <2>6, <3>1
  <2>10. Cardinality(held) <= Cardinality(lo .. top) /\ IsFiniteSet(held)
    BY <2>8, <2>9, FS_Injection
  <2>11. Cardinality(held) \in Nat /\ Cardinality(lo .. top) \in Nat
    BY <2>9, <2>10, FS_CardinalityType
  <2>12. Cardinality(held) <= M * k
    BY <1>2, <2>9, <2>10, <2>11
  <2> QED BY <2>12 DEF SessionsAreBounded, S, C, M, k, held
<1> QED BY <1>5, <1>6

(* So every step of the pairing keeps the ages.                             *)
LEMMA AgesKept ==
    ASSUME PairingTypeOK, PairingInv, AgesInv, PairingSteps
    PROVE  AgesInv'
BY CleanupKeepsAges, CreateKeepsAges, TickKeepsAges, ObserveKeepsAges DEF PairingSteps

(* The ages, as they are between the steps of the whole.                    *)
LEMMA AgesStep ==
    ASSUME IInv, AgesInv, [Next]_vars
    PROVE  AgesInv'
<1>1. PairingTypeOK /\ PairingInv
  BY DEF IInv, TypeOK
<1>2. CASE PairingSteps
  BY <1>1, <1>2, AgesKept
<1>3. CASE UNCHANGED pairingVars
  <2>1. /\ now' = now /\ challenges' = challenges
        /\ sessions' = sessions /\ issued' = issued
    BY <1>3 DEF pairingVars
  <2>2. PICK born \in [1 .. issued -> Nat] : BornAt(born)
    BY DEF AgesInv
  <2>3. BornAt(born)'
    BY <2>1, <2>2 DEF BornAt
  <2> QED BY <2>1, <2>3 DEF AgesInv
<1>4. PairingSteps \/ UNCHANGED pairingVars
  BY DEF Next, vars, PairingNext, PairingSteps, CreateRefused, Read, FindSession, ServePolicy
<1> QED BY <1>2, <1>3, <1>4

(* The limit on pending challenges bounds the sessions as well.             *)
THEOREM SessionsStayBounded == Spec => []SessionsAreBounded
<1>1. Init => IInv /\ AgesInv
  <2> SUFFICES ASSUME Init PROVE AgesInv
    BY Initially
  <2>1. /\ now = 0 /\ challenges = {} /\ sessions = {} /\ issued = 0
    BY DEF Init, PairingInit
  <2>2. PICK born \in [1 .. issued -> Nat] : TRUE
    <3>1. [i \in 1 .. issued |-> 0] \in [1 .. issued -> Nat]
      OBVIOUS
    <3> QED BY <3>1
  <2>3. \A i \in 1 .. issued : FALSE
    BY <2>1
  <2>4. BornAt(born)
    BY <2>1, <2>3 DEF BornAt
  <2> QED BY <2>4 DEF AgesInv
<1>2. (IInv /\ AgesInv) /\ [Next]_vars => (IInv /\ AgesInv)'
  BY StepKeeps, AgesStep
<1>3. IInv /\ AgesInv => SessionsAreBounded
  BY AgesBoundSessions DEF IInv, TypeOK
<1> QED BY <1>1, <1>2, <1>3, PTL DEF Spec
=============================================================================
