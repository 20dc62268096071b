-------------------------- MODULE MCPolicyDecision --------------------------
(***************************************************************************)
(* One profile that is edited in the panel while the week goes by: its     *)
(* rules, groups, pauses and default action, one entry at a time; or the   *)
(* list of schedules of its only group, with every window of a short day.  *)
(* After every step, the decision of the resolver and of the browser for   *)
(* every name.                                                             *)
(***************************************************************************)
EXTENDS BrowserRules

CONSTANTS MaxEntries,    \* rules and groups together
          MaxLabels,     \* labels of a queried name
          MaxSchedules,  \* longest list of schedules that is edited
          DaySets        \* the sets of weekdays used by its windows

ASSUME DaysAssumption == DaySets \subseteq SUBSET Days /\ DayLength > 1

ASSUME LabelsAssumption == {"example", "www"} \subseteq Labels /\ MaxLabels \in Nat

VARIABLES profile, today, minute

vars == <<profile, today, minute>>

Names == UNION {[1 .. n -> Labels] : n \in 1 .. MaxLabels}

(* Domains of rules and groups: a site and a host below it. *)
Site == <<"example">>
Host == <<"example", "www">>

MCRules == [domain : {Site, Host},
            include_subdomains : BOOLEAN,
            action : {"allow", "block"}]

(* A weekday window, and one that runs over the end of the week. *)
Daytime == [days |-> {0, 3}, start |-> 0, end |-> 1]
Overnight == [days |-> {6}, start |-> 1, end |-> 0]

(* A schedule: a window and what the group does in it. *)
During(window, action) ==
    [action |-> action, days |-> window.days, start |-> window.start, end |-> window.end]

MCSchedules ==
    {<<>>,
     <<During(Daytime, "allow")>>,
     <<During(Overnight, "block"), During(Daytime, "allow")>>}

MCGroups == {g \in [domains : {<<Site>>, <<Host>>, <<Site, Host>>},
                    action : {"allow", "block"},
                    schedules : MCSchedules] : acceptedSchedules(g.schedules)}

(* Weekdays on both sides of the end of the week, alone and together. *)
MCDaySets == {{0}, {6}, {5, 6}, {0, 3}, Days}

MCWindows == {w \in [days : DaySets, start : Minutes, end : Minutes] :
                 validateWindow(w)}

(* The group whose schedules are edited. *)
Scheduled == [domains |-> <<Site>>, action |-> "observe", schedules |-> <<>>]

Init ==
    /\ \E groups \in {<<>>, <<Scheduled>>}, action \in {"observe", "block"} :
          /\ profile = [default_action |-> action, pauses |-> <<>>,
                        rules |-> <<>>, groups |-> groups]
          /\ groups # <<>> => action = "observe"
    /\ today = 5
    /\ minute = 0

EditsSchedules == \E g \in DOMAIN profile.groups : profile.groups[g].action = "observe"

Put(edited) ==
    /\ acceptedProfile(edited)
    /\ profile' = edited
    /\ UNCHANGED <<today, minute>>

AddRule(rule) ==
    /\ ~ EditsSchedules
    /\ Len(profile.rules) + Len(profile.groups) < MaxEntries
    /\ Put([profile EXCEPT !.rules = Append(@, rule)])

AddGroup(group) ==
    /\ ~ EditsSchedules
    /\ Len(profile.rules) + Len(profile.groups) < MaxEntries
    /\ Put([profile EXCEPT !.groups = Append(@, group)])

SetPauses(windows) ==
    /\ ~ EditsSchedules
    /\ profile.pauses # windows
    /\ Put([profile EXCEPT !.pauses = windows])

AddSchedule(window) ==
    /\ EditsSchedules
    /\ Len(profile.groups[1].schedules) < MaxSchedules
    /\ LET group == profile.groups[1]
           longer == [group EXCEPT !.schedules =
                         Append(group.schedules, During(window, "block"))]
           groups == [profile.groups EXCEPT ![1] = longer]
       IN Put([profile EXCEPT !.groups = groups])

Tick ==
    /\ minute' = (minute + 1) % DayLength
    /\ today' = IF minute' = 0 THEN (today + 1) % 7 ELSE today
    /\ UNCHANGED profile

Next ==
    \/ \E rule \in MCRules : AddRule(rule)
    \/ \E group \in MCGroups : AddGroup(group)
    \/ \E windows \in {<<>>, <<Overnight>>} : SetPauses(windows)
    \/ \E window \in MCWindows : AddSchedule(window)
    \/ Tick

Spec == Init /\ [][Next]_vars

-----------------------------------------------------------------------------
(* The reference reading of a policy, over sets instead of loops.           *)

Covers(entry, name) ==
    IF entry.subdomains THEN \E n \in 1 .. Len(name) : SubSeq(name, 1, n) = entry.domain
    ELSE name = entry.domain

(* The entries that decide name: none, or the first of the longest. *)
Deciding(p, name) ==
    {i \in DOMAIN entries(p) :
        /\ Covers(entries(p)[i], name)
        /\ \A j \in DOMAIN entries(p) :
              Covers(entries(p)[j], name) =>
                 \/ Len(entries(p)[j].domain) < Len(entries(p)[i].domain)
                 \/ Len(entries(p)[j].domain) = Len(entries(p)[i].domain) /\ i <= j}

(* A window covers a minute of the week when occupyWindow reserves it. *)
InForce(window, day, time) == (day * DayLength + time) \in occupiedBy(window)

Reference(p, name, day, time) ==
    IF \E i \in DOMAIN p.pauses : InForce(p.pauses[i], day, time)
    THEN "block"
    ELSE IF Deciding(p, name) = {} THEN p.default_action
    ELSE LET entry == entries(p)[CHOOSE i \in Deciding(p, name) : TRUE]
             scheduled == {i \in DOMAIN entry.schedules :
                              InForce(entry.schedules[i], day, time)}
         IN IF scheduled = {} THEN entry.action
            ELSE entry.schedules[CHOOSE i \in scheduled : TRUE].action

(* The loops of DecideAt compute the policy a family reads in the panel: a  *)
(* pause in force blocks everything; otherwise the most specific entry that *)
(* covers the name decides, the earlier one on a tie and rules before       *)
(* groups; a group's schedule in force replaces its action; a name nothing  *)
(* covers gets the default action.                                          *)
MostSpecificWins ==
    \A name \in Names :
        DecideAt(profile, name, today, minute).action =
            Reference(profile, name, today, minute)

(* An edit reaches only the names it is about: when a rule or group that is *)
(* added, or whose schedules change, changes the decision of a name, the    *)
(* entry that decides the name from then on is that one.  An entry already  *)
(* there keeps every tie, and is never hidden by something less specific.   *)
EditsAreLocal ==
    [][\A name \in Names :
          /\ profile'.pauses = profile.pauses
          /\ DecideAt(profile', name, today, minute).action
                # DecideAt(profile, name, today, minute).action
          => \A i \in Deciding(profile', name) :
                entries(profile')[i] \notin Range(entries(profile))]_vars

(* As the clock advances the decision for a name changes only when a pause, *)
(* or a schedule of the very group that decides the name, begins or ends:   *)
(* never because of a schedule of a group that a more specific entry hides. *)
ClockChangesOnlyItsGroup ==
    [][\A name \in Names :
          DecideAt(profile, name, today, minute).action
              # DecideAt(profile, name, today', minute').action =>
          \/ \E i \in DOMAIN profile.pauses :
                InForce(profile.pauses[i], today, minute)
                    # InForce(profile.pauses[i], today', minute')
          \/ \E i \in Deciding(profile, name) :
                LET schedules == entries(profile)[i].schedules
                IN \E k \in DOMAIN schedules :
                      InForce(schedules[k], today, minute)
                          # InForce(schedules[k], today', minute')]_vars

(* The minute whose policy the browser enforces.  A minute that it writes   *)
(* with the hour 24 comes after every window that ends on its day, and in   *)
(* every window that runs on into the next: it is like the last one.        *)
browserMinute == IF minute < MidnightMinutes THEN DayLength - 1 ELSE minute

(* The browser agrees with the resolver about that minute: for every host,  *)
(* the compiled rules redirect the page exactly when the resolver answers   *)
(* that the name is blocked, and the tab's badge says so as well.  The      *)
(* priorities of the compiled rules must carry everything the loops of      *)
(* DecideAt know: specificity, source order, exact hosts, schedules, pauses.*)
BrowserAgreesWithDns ==
    \A host \in Names :
        LET blocked == DecideAt(profile, host, today, browserMinute).action = "block"
            seen == localClock(minute)
        IN /\ redirects(buildRules(profile, today, seen), host) <=> blocked
           /\ (decideAt(profile, host, today, seen) = "block") <=> blocked

-----------------------------------------------------------------------------
(* Every window in use, and every list of schedules.                        *)
WindowsInUse ==
    Range(profile.pauses) \union
        UNION {Range(profile.groups[g].schedules) : g \in DOMAIN profile.groups}

(* The two readings of a window agree at every minute of the week: what     *)
(* windowActive says now is what occupyWindow reserved.                     *)
ActiveMatchesOccupied ==
    \A window \in WindowsInUse :
        windowActive(window, today, minute) <=> InForce(window, today, minute)

(* No two schedules of a group that NewStore accepted are active together,  *)
(* so their order in the list cannot matter.                                *)
OneActiveAtATime ==
    \A g \in DOMAIN profile.groups :
        LET schedules == profile.groups[g].schedules
        IN \A i, j \in DOMAIN schedules :
              /\ windowActive(schedules[i], today, minute)
              /\ windowActive(schedules[j], today, minute)
              => i = j

(* As the clock advances, a window begins to apply exactly at its start on  *)
(* one of its days and ends exactly at its end, the next morning when it    *)
(* runs over midnight: it has no gap at midnight and no early or late edge. *)
SwitchesOnTime ==
    [][Tick =>
         \A w \in WindowsInUse :
            LET wasOn == windowActive(w, today, minute)
                isOn == windowActive(w, today', minute')
                endDays == IF w.start < w.end THEN w.days
                           ELSE {(day + 1) % 7 : day \in w.days}
            IN /\ (~wasOn /\ isOn) <=> (minute' = w.start /\ today' \in w.days)
               /\ (wasOn /\ ~isOn) <=> (minute' = w.end /\ today' \in endDays)
      ]_vars
=============================================================================
