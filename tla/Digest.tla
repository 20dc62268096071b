------------------------------- MODULE Digest -------------------------------
(***************************************************************************)
(* The weekly digest (internal/digest): counters of observed domains that  *)
(* queries add to, a scheduler that mails them to each house and purges    *)
(* them, and the deletion of a house, which must leave none behind.  The   *)
(* process may crash; it comes back with what observations.json holds.     *)
(*                                                                         *)
(* A profile's counters, by period of the day and domain, are one number,  *)
(* because every operation of the store treats the counters of a profile   *)
(* alike.  A query is in flight from the lookup of its profile (module     *)
(* Gateway, Lookup) until its event reaches the store (WriteDigest).       *)
(* Every house has an e-mail address; houses without one are skipped.      *)
(*                                                                         *)
(* A definition whose comment begins with "Bug:" is not part of the        *)
(* specification: it is a plausible mistake in the definition after it.    *)
(***************************************************************************)
EXTENDS Integers

CONSTANTS
    Houses,
    Profiles,
    HouseOf,       \* HouseOf[p]: the house of profile p
    Interval,      \* time between two digests of a house
    LastInstant,   \* bound on the clock
    MaxObserved,   \* MaxObserved[p]: bound on the observations of p
    MaxCrashes     \* bound on the crashes of the process

Instants == 0 .. LastInstant
Never == -1

ASSUME HouseAssumption == HouseOf \in [Profiles -> Houses]
ASSUME TimeAssumption == LastInstant \in Nat /\ Interval \in Nat \ {0}
ASSUME CountAssumption == MaxObserved \in [Profiles -> Nat] /\ MaxCrashes \in Nat

VARIABLES
    clock,
    registered,   \* houses in the configuration, which is durable
    deletion,     \* deletion[h]: how far deleteHouse has come for h
    inFlight,     \* profiles with a query being resolved
    entries,      \* Store.entries
    lastSentAt,   \* Store.lastSentAt
    file,         \* the content of observations.json
    stage,        \* where checkAndSend is
    todo,         \* the houses of its snapshot that it has not come to
    house,        \* the house it is at
    scanTime,     \* its local variable "now"
    report,       \* what the digest it is about to send tells
    written,      \* history: observations ever made, by profile
    mailed,       \* history: observations ever delivered in a digest
    delivered,    \* history: scanTime of the last digest h received
    excused,      \* history: houses hit by a crash or a failure that
                  \* neither the store nor the scheduler can hide
    crashes

storeVars == <<entries, lastSentAt, file>>
schedulerVars == <<stage, todo, house, scanTime, report>>
houseVars == <<registered, deletion>>
historyVars == <<written, mailed, delivered, excused>>
vars == <<clock, registered, deletion, inFlight, entries, lastSentAt, file,
          stage, todo, house, scanTime, report, written, mailed, delivered,
          excused, crashes>>

Counters == [Profiles -> Nat]
SendTimes == [Houses -> Instants \union {Never}]
NoCounters == [p \in Profiles |-> 0]
NeverSent == [h \in Houses |-> Never]

TypeOK ==
    /\ clock \in Instants
    /\ registered \in SUBSET Houses
    /\ deletion \in [Houses -> {"none", "updated", "forgotten", "interrupted"}]
    /\ inFlight \in SUBSET Profiles
    /\ entries \in Counters
    /\ lastSentAt \in SendTimes
    /\ file \in [entries : Counters, lastSentAt : SendTimes]
    /\ stage \in {"waiting", "scanning", "reported", "sent"}
    /\ todo \in SUBSET Houses
    /\ house \in Houses
    /\ scanTime \in Instants
    /\ report \in Counters
    /\ written \in Counters
    /\ mailed \in Counters
    /\ delivered \in SendTimes
    /\ excused \in SUBSET Houses
    /\ crashes \in 0 .. MaxCrashes

ProfilesOf(h) == {p \in Profiles : HouseOf[p] = h}

Without(counters, h) ==
    [p \in Profiles |-> IF p \in ProfilesOf(h) THEN 0 ELSE counters[p]]

Init ==
    /\ clock = 0
    /\ registered = Houses
    /\ deletion = [h \in Houses |-> "none"]
    /\ inFlight = {}
    /\ entries = NoCounters
    /\ lastSentAt = NeverSent
    /\ file = [entries |-> NoCounters, lastSentAt |-> NeverSent]
    /\ stage = "waiting"
    /\ todo = {}
    /\ house \in Houses
    /\ scanTime = 0
    /\ report = NoCounters
    /\ written = NoCounters
    /\ mailed = NoCounters
    /\ delivered = NeverSent
    /\ excused = {}
    /\ crashes = 0

-----------------------------------------------------------------------------
(* The gateway.                                                             *)

(* A query that the policy observes is looked up: the profile's house is in *)
(* the configuration at that moment.                                        *)
Lookup(p) ==
    /\ p \notin inFlight
    /\ HouseOf[p] \in registered
    /\ written[p] < MaxObserved[p]
    /\ inFlight' = inFlight \union {p}
    /\ UNCHANGED <<clock, houseVars, storeVars, schedulerVars, historyVars, crashes>>

(* Store.Write. *)
Write(p) ==
    /\ p \in inFlight
    /\ inFlight' = inFlight \ {p}
    /\ entries' = [entries EXCEPT ![p] = @ + 1]
    /\ written' = [written EXCEPT ![p] = @ + 1]
    /\ UNCHANGED <<lastSentAt, file, mailed, delivered, excused>>
    /\ UNCHANGED <<clock, houseVars, schedulerVars, crashes>>

Tick ==
    /\ clock < LastInstant
    /\ clock' = clock + 1
    /\ UNCHANGED <<houseVars, inFlight, storeVars, schedulerVars, historyVars, crashes>>

-----------------------------------------------------------------------------
(* The scheduler.                                                           *)

(* checkAndSend begins with a snapshot of the configuration. *)
Scan ==
    /\ stage = "waiting"
    /\ stage' = "scanning"
    /\ todo' = registered
    /\ scanTime' = clock
    /\ UNCHANGED <<house, report, clock, houseVars, inFlight, storeVars,
                   historyVars, crashes>>

IsDue(h, now) == lastSentAt[h] = Never \/ now - lastSentAt[h] >= Interval

(* A house whose digest is not due yet. *)
SkipHouse(h) ==
    /\ stage = "scanning"
    /\ h \in todo
    /\ ~ IsDue(h, scanTime)
    /\ todo' = todo \ {h}
    /\ UNCHANGED <<stage, house, scanTime, report>>
    /\ UNCHANGED <<clock, houseVars, inFlight, storeVars, historyVars, crashes>>

(* Store.Digest. *)
MakeReport(h) ==
    /\ stage = "scanning"
    /\ h \in todo
    /\ IsDue(h, scanTime)
    /\ todo' = todo \ {h}
    /\ house' = h
    /\ report' = [p \in Profiles |-> IF p \in ProfilesOf(h) THEN entries[p] ELSE 0]
    /\ stage' = "reported"
    /\ UNCHANGED <<scanTime, clock, houseVars, inFlight, storeVars,
                   historyVars, crashes>>

(* Sender.Send succeeds.  (The history of excused houses is not kept.)      *)
Send ==
    /\ stage = "reported"
    /\ stage' = "sent"
    /\ mailed' = IF house \in excused THEN mailed
                 ELSE [p \in Profiles |-> mailed[p] + report[p]]
    /\ delivered' = [delivered EXCEPT ![house] = scanTime]
    /\ UNCHANGED <<written, excused, todo, house, scanTime, report>>
    /\ UNCHANGED <<clock, houseVars, inFlight, storeVars, crashes>>

(* Bug: the first failure ends the scan. *)
SendFails_EndsScan ==
    /\ stage = "reported"
    /\ stage' = "waiting"
    /\ todo' = {}
    /\ scanTime' = 0
    /\ report' = NoCounters
    /\ UNCHANGED <<house, historyVars>>
    /\ UNCHANGED <<clock, houseVars, inFlight, storeVars, crashes>>

(* Sender.Send returns an error.  The e-mail may have been delivered all    *)
(* the same, when only the answer of the mail service was lost.             *)
SendFails ==
    /\ stage = "reported"
    /\ stage' = "scanning"
    /\ \/ UNCHANGED excused
       \/ excused' = excused \union {house}
    /\ UNCHANGED <<written, mailed, delivered, todo, house, scanTime>>
    /\ UNCHANGED <<clock, houseVars, inFlight, storeVars, crashes>>
    /\ report' = NoCounters

(* saveLocked: the whole store replaces the file, or the write fails and    *)
(* the file stays.                                                          *)
Save(h) ==
    \/ file' = [entries |-> entries', lastSentAt |-> lastSentAt'] /\ UNCHANGED excused
    \/ UNCHANGED file /\ excused' = excused \union {h}

(* Bug: the counters are purged in memory only. *)
CompleteDigest_NotSaved ==
    /\ stage = "sent"
    /\ entries' = Without(entries, house)
    /\ lastSentAt' = [lastSentAt EXCEPT ![house] = scanTime]
    /\ stage' = "scanning"
    /\ UNCHANGED <<file, excused, written, mailed, delivered, todo, house, scanTime>>
    /\ UNCHANGED <<clock, houseVars, inFlight, crashes>>
    /\ report' = NoCounters

(* Bug: the counters stay after the digest. *)
CompleteDigest_KeepsCounters ==
    /\ stage = "sent"
    /\ UNCHANGED entries
    /\ lastSentAt' = [lastSentAt EXCEPT ![house] = scanTime]
    /\ Save(house)
    /\ stage' = "scanning"
    /\ UNCHANGED <<written, mailed, delivered, todo, house, scanTime>>
    /\ UNCHANGED <<clock, houseVars, inFlight, crashes>>
    /\ report' = NoCounters

(* Store.CompleteDigest. *)
CompleteDigest ==
    /\ stage = "sent"
    /\ entries' = Without(entries, house)
    /\ lastSentAt' = [lastSentAt EXCEPT ![house] = scanTime]
    /\ Save(house)
    /\ stage' = "scanning"
    /\ UNCHANGED <<written, mailed, delivered, todo, house, scanTime>>
    /\ UNCHANGED <<clock, houseVars, inFlight, crashes>>
    /\ report' = NoCounters

EndScan ==
    /\ stage = "scanning"
    /\ todo = {}
    /\ stage' = "waiting"
    /\ scanTime' = 0
    /\ UNCHANGED <<todo, house, report>>
    /\ UNCHANGED <<clock, houseVars, inFlight, storeVars, historyVars, crashes>>

-----------------------------------------------------------------------------
(* Deleting a house, and crashes.                                           *)

(* deleteHouse: the house and its profiles leave the configuration.         *)
DeleteHouse(h) ==
    /\ h \in registered
    /\ registered' = registered \ {h}
    /\ deletion' = [deletion EXCEPT ![h] = "updated"]
    /\ UNCHANGED <<clock, inFlight, storeVars, schedulerVars, historyVars, crashes>>

(* Bug: deleteHouse forgets the times and leaves the counters. *)
Forget_TimesOnly(h) ==
    /\ deletion[h] = "updated"
    /\ lastSentAt' = [lastSentAt EXCEPT ![h] = Never]
    /\ UNCHANGED entries
    /\ Save(h)
    /\ deletion' = [deletion EXCEPT ![h] = "forgotten"]
    /\ UNCHANGED <<written, mailed, delivered, registered>>
    /\ UNCHANGED <<clock, inFlight, schedulerVars, crashes>>

(* Store.Forget; the request is answered "deleted" also when saving failed. *)
Forget(h) ==
    /\ deletion[h] = "updated"
    /\ entries' = Without(entries, h)
    /\ lastSentAt' = [lastSentAt EXCEPT ![h] = Never]
    /\ Save(h)
    /\ deletion' = [deletion EXCEPT ![h] = "forgotten"]
    /\ UNCHANGED <<written, mailed, delivered, registered>>
    /\ UNCHANGED <<clock, inFlight, schedulerVars, crashes>>

(* The process dies and is restarted: NewStore loads the file.  What was    *)
(* not saved is lost, a digest already sent may not be on record, and a     *)
(* deletion that had not come to Forget never will.                         *)
Crash ==
    /\ crashes < MaxCrashes
    /\ crashes' = crashes + 1
    /\ entries' = file.entries
    /\ lastSentAt' = file.lastSentAt
    /\ inFlight' = {}
    /\ stage' = "waiting"
    /\ todo' = {}
    /\ deletion' = [h \in Houses |->
                       IF deletion[h] = "updated" THEN "interrupted" ELSE deletion[h]]
    /\ excused' = IF stage = "sent" THEN excused \union {house} ELSE excused
    /\ scanTime' = 0
    /\ report' = NoCounters
    /\ UNCHANGED <<clock, registered, file, house, written, mailed, delivered>>

-----------------------------------------------------------------------------
Scheduler ==
    \/ Scan
    \/ \E h \in Houses : SkipHouse(h) \/ MakeReport(h)
    \/ Send
    \/ SendFails
    \/ CompleteDigest
    \/ EndScan

Next ==
    \/ \E p \in Profiles : Lookup(p) \/ Write(p)
    \/ Scheduler
    \/ \E h \in Houses : DeleteHouse(h) \/ Forget(h)
    \/ Tick
    \/ Crash

(* The ticker of Run fires for as long as the process lives, and the mail   *)
(* client gives up after its timeout.                                       *)
Spec == Init /\ [][Next]_vars /\ WF_vars(Scheduler)

-----------------------------------------------------------------------------
(* No observation is told twice: what a house has been told and what is     *)
(* kept for its next digest, in memory or in the file that a restart reads, *)
(* never exceed what was observed.  The exceptions are a crash between the  *)
(* delivery of a digest and its record, a record that could not be saved,   *)
(* and an e-mail delivered although its sender saw an error.                *)
NoObservationToldTwice ==
    \A p \in Profiles :
        /\ HouseOf[p] \notin excused
        /\ ~ (stage = "sent" /\ house = HouseOf[p])
        => /\ mailed[p] + entries[p] <= written[p]
           /\ mailed[p] + file.entries[p] <= written[p]

(* With the same exceptions a house gets no two digests within an interval, *)
(* across restarts of the process too.  (A house deleted during a scan may: *)
(* Forget erases the time of its last digest, and the scan still has it.)   *)
CadenceKept ==
    [][\A h \in registered \ excused :
          /\ delivered[h] # Never
          /\ Send /\ house = h
          => scanTime - delivered[h] >= Interval]_vars

(* Every due house is attempted: a mail service that refuses the e-mails of *)
(* one house does not hold back those of the others.                        *)
EveryDueHouseIsAttempted ==
    \A h \in Houses :
        (h \in registered /\ IsDue(h, clock)) ~>
            \/ stage = "reported" /\ house = h
            \/ h \notin registered
            \/ ~ IsDue(h, clock)

(* "Forget removes accumulated entries and last-sent bookkeeping for a      *)
(* house that is being deleted, so no observation data survives the         *)
(* account."                                                                *)
NothingSurvivesDeletion ==
    \A h \in Houses :
        deletion[h] = "forgotten" =>
            \A p \in ProfilesOf(h) : entries[p] = 0

(* What does survive in memory is the queries that were in flight when the  *)
(* house was deleted, one for each of its profiles here, and nothing more.  *)
SurvivorsWereInFlight ==
    \A h \in Houses \ excused :
        deletion[h] = "forgotten" =>
            \A p \in ProfilesOf(h) :
                entries[p] + (IF p \in inFlight THEN 1 ELSE 0) <= 1
=============================================================================
