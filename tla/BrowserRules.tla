---------------------------- MODULE BrowserRules ----------------------------
(***************************************************************************)
(* How the Chrome extension repeats a profile's policy in the browser:     *)
(* extension/rules.js compiles it, at an instant, into declarativeNetRequest*)
(* rules, and extension/decision.js decides one host name for the badge.   *)
(*                                                                         *)
(* A compiled rule applies to a set of domains (with or without their      *)
(* subdomains) or to every host, and lets a page load ("allow") or         *)
(* redirects it to the explanation page ("redirect").  Chrome follows the  *)
(* rule of highest priority that matches, and prefers allow on a tie.      *)
(* Resource types, identifiers of rules and the exclusion of the           *)
(* extension's own pages are left out; the overflow of priorities, which   *)
(* candidatePriority refuses, needs more entries than a profile holds.     *)
(***************************************************************************)
EXTENDS PolicyDecision, FiniteSetsExt

CONSTANT MidnightMinutes
    (* The minutes after midnight that Intl.DateTimeFormat writes with the  *)
    (* hour 24 when asked for hour12: false: none where that means the hour *)
    (* cycle h23, an hour where it means h24.                               *)

ASSUME MidnightAssumption == MidnightMinutes \in 0 .. DayLength

AnyHost == {<<>>}

DEFAULT_BLOCK_PRIORITY == 1

-----------------------------------------------------------------------------
(* localClock: the minute of the day as the browser reads it. *)
localClock(minute) ==
    IF minute < MidnightMinutes THEN minute + DayLength ELSE minute

effectiveGroupAction(group, today, minute) ==
    scheduledAction(group, today, minute)

pauseActive(profile, today, minute) == paused(profile, today, minute)

actionForPolicy(action) == IF action = "block" THEN "redirect" ELSE "allow"

(* Bug: among equally long domains the later source wins. *)
candidatePriority_LaterWins(domainLength, sourceOrder, sourceCount) ==
    2 + domainLength * (sourceCount + 1) + sourceOrder

(* Bug: the order of the sources can outweigh a longer domain. *)
candidatePriority_NoStride(domainLength, sourceOrder, sourceCount) ==
    2 + domainLength + (sourceCount + 1 - sourceOrder)

(* One more label outweighs every position in the profile. *)
candidatePriority(domainLength, sourceOrder, sourceCount) ==
    LET stride == sourceCount + 1
    IN 2 + domainLength * stride + (stride - sourceOrder)

sourceCount(profile) == Len(profile.rules) + Len(profile.groups)

(* Rules, in order; a domain without its subdomains is matched exactly. *)
ruleCandidates(profile) ==
    {[priority |-> candidatePriority(Len(profile.rules[i].domain), i - 1,
                                     sourceCount(profile)),
      action |-> actionForPolicy(profile.rules[i].action),
      domains |-> {profile.rules[i].domain},
      exact |-> ~ profile.rules[i].include_subdomains] :
        i \in 1 .. Len(profile.rules)}

(* Bug: a group keeps one priority, that of its first domain. *)
groupCandidates_OneBucket(profile, today, minute) ==
    {[priority |-> candidatePriority(Len(profile.groups[g].domains[1]),
                                     Len(profile.rules) + g - 1,
                                     sourceCount(profile)),
      action |-> actionForPolicy(
                    effectiveGroupAction(profile.groups[g], today, minute)),
      domains |-> Range(profile.groups[g].domains),
      exact |-> FALSE] : g \in 1 .. Len(profile.groups)}

(* Groups: one candidate for all domains of a group that are equally long.  *)
groupCandidates(profile, today, minute) ==
    UNION {LET group == profile.groups[g]
               lengths == {Len(domain) : domain \in Range(group.domains)}
           IN {[priority |-> candidatePriority(length, Len(profile.rules) + g - 1,
                                               sourceCount(profile)),
                action |-> actionForPolicy(effectiveGroupAction(group, today, minute)),
                domains |-> {domain \in Range(group.domains) : Len(domain) = length},
                exact |-> FALSE] : length \in lengths} :
             g \in 1 .. Len(profile.groups)}

redirectAll(priority) ==
    [priority |-> priority, action |-> "redirect", domains |-> AnyHost, exact |-> FALSE]

(* buildRules; the pause's priority is above every candidate's. *)
buildRules(profile, today, minute) ==
    IF pauseActive(profile, today, minute)
    THEN {redirectAll(2147483647)}
    ELSE (IF profile.default_action = "block"
          THEN {redirectAll(DEFAULT_BLOCK_PRIORITY)} ELSE {})
         \union ruleCandidates(profile)
         \union groupCandidates(profile, today, minute)

-----------------------------------------------------------------------------
(* declarativeNetRequest: which rules apply to a host, and what happens.    *)
appliesTo(rule, host) ==
    \E domain \in rule.domains :
        IF rule.exact THEN host = domain ELSE IsPrefix(domain, host)

redirects(rules, host) ==
    \E rule \in rules :
        /\ rule.action = "redirect"
        /\ appliesTo(rule, host)
        /\ \A other \in rules :
              appliesTo(other, host) =>
                 \/ other.priority < rule.priority
                 \/ other.priority = rule.priority /\ other.action = "redirect"

(* decideAt: the loops of policy.DecideAt once more, for the tab's badge. *)
decideAt(profile, host, today, minute) ==
    IF pauseActive(profile, today, minute) THEN "block"
    ELSE decideByEntries(profile, host, today, minute).action
=============================================================================
