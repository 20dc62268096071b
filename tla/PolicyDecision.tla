--------------------------- MODULE PolicyDecision ---------------------------
(***************************************************************************)
(* How a profile's policy decides one DNS query (policy.DecideAt), and     *)
(* what NewStore accepts as a policy.                                      *)
(*                                                                         *)
(* A domain name is the sequence of its labels from the root down, so that *)
(* www.example.com is <<"com", "example", "www">> and "ends with           *)
(* .example.com" is a proper prefix.  The code compares lengths in         *)
(* characters, but only between names that all end the queried name, and   *)
(* there one name is longer exactly when it has more labels.               *)
(*                                                                         *)
(* Category, reason and group name of an entry are copied together and are *)
(* represented by the entry's identity, "source"; the label of a pause or  *)
(* schedule is left out.                                                   *)
(***************************************************************************)
EXTENDS WeekSchedule, SequencesExt

CONSTANT Labels     \* labels of domain names

DomainNames == Seq(Labels) \ {<<>>}

Actions == {"allow", "block", "observe"}

(* validAction. *)
validAction(action) == action \in Actions

-----------------------------------------------------------------------------
(* The profile as DecideAt walks through it: the rules in order, then the   *)
(* domains of each group in order.                                          *)

ruleEntries(profile) ==
    [i \in 1 .. Len(profile.rules) |->
        [domain |-> profile.rules[i].domain,
         subdomains |-> profile.rules[i].include_subdomains,
         action |-> profile.rules[i].action,
         schedules |-> <<>>,
         source |-> <<"rule", i>>]]

groupEntries(group, g) ==
    [i \in 1 .. Len(group.domains) |->
        [domain |-> group.domains[i],
         subdomains |-> TRUE,
         action |-> group.action,
         schedules |-> group.schedules,
         source |-> <<"group", g>>]]

groupsEntries(groups) ==
    FlattenSeq([g \in 1 .. Len(groups) |-> groupEntries(groups[g], g)])

entries(profile) == ruleEntries(profile) \o groupsEntries(profile.groups)

(* Bug: a rule for one host also covers its subdomains. *)
matches_IgnoresFlag(entry, name) == IsPrefix(entry.domain, name)

matches(entry, name) ==
    \/ name = entry.domain
    \/ entry.subdomains /\ IsStrictPrefix(entry.domain, name)

(* The group's action, or the action of its schedule that is active now.    *)
scheduledAction(entry, today, minute) ==
    LET active == activeScheduledAction(entry.schedules, today, minute)
    IN IF active = {} THEN entry.action
       ELSE entry.schedules[CHOOSE i \in active : TRUE].action

(* Bug: the last of several equally long matches wins. *)
consider_LastWins(decision, entry, name, today, minute) ==
    IF matches(entry, name) /\ Len(entry.domain) >= decision.length
    THEN [action |-> scheduledAction(entry, today, minute),
          source |-> entry.source,
          length |-> Len(entry.domain)]
    ELSE decision

(* Bug: an active schedule of any matching group sets the action. *)
consider_ScheduleLeaks(decision, entry, name, today, minute) ==
    IF matches(entry, name)
    THEN IF Len(entry.domain) > decision.length
         THEN [action |-> scheduledAction(entry, today, minute),
               source |-> entry.source,
               length |-> Len(entry.domain)]
         ELSE [decision EXCEPT !.action =
                  IF scheduledAction(entry, today, minute) # entry.action
                  THEN scheduledAction(entry, today, minute) ELSE @]
    ELSE decision

(* The body of the two loops of DecideAt. *)
consider(decision, entry, name, today, minute) ==
    IF matches(entry, name) /\ Len(entry.domain) > decision.length
    THEN [action |-> scheduledAction(entry, today, minute),
          source |-> entry.source,
          length |-> Len(entry.domain)]
    ELSE decision

paused(profile, today, minute) ==
    \E i \in 1 .. Len(profile.pauses) :
        windowActive(profile.pauses[i], today, minute)

(* The two loops of DecideAt: the decision after the last of the entries.   *)
decideByEntries(profile, name, today, minute) ==
    LET list == entries(profile)
        decision[n \in 0 .. Len(list)] ==
            IF n = 0
            THEN [action |-> profile.default_action,
                  source |-> <<"default">>,
                  length |-> -1]
            ELSE consider(decision[n - 1], list[n], name, today, minute)
    IN decision[Len(list)]

DecideAt(profile, name, today, minute) ==
    IF paused(profile, today, minute)
    THEN [action |-> "block", source |-> <<"pause">>, length |-> -1]
    ELSE decideByEntries(profile, name, today, minute)

-----------------------------------------------------------------------------
(* NewStore, for one profile: what it refuses about windows, actions and    *)
(* domains.  (Repeated identifiers and malformed names are data the model   *)
(* does not have; endpoints are in other modules.)                          *)
acceptedProfile(profile) ==
    /\ validAction(profile.default_action)
    /\ \A i \in 1 .. Len(profile.pauses) : validateWindow(profile.pauses[i])
    /\ \A i \in 1 .. Len(profile.rules) : validAction(profile.rules[i].action)
    /\ \A g \in 1 .. Len(profile.groups) :
          LET group == profile.groups[g]
          IN /\ validAction(group.action)
             /\ acceptedSchedules(group.schedules)
             /\ \A i \in 1 .. Len(group.schedules) :
                   group.schedules[i].action \in {"allow", "block"}
             /\ IsInjective(group.domains)
=============================================================================
