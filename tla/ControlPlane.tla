---------------------------- MODULE ControlPlane ----------------------------
(***************************************************************************)
(* The life cycle of the policy configuration inside one teenDNS process:  *)
(* the file on disk, the administrative copy of it (Server.config), and    *)
(* the policy store that the DNS side reads through an atomic pointer      *)
(* (policy.Manager).  Three writers touch them:                            *)
(*                                                                         *)
(*   - admin requests, all through Server.update, under Server.mu;         *)
(*   - the SIGHUP goroutine of main.go, which takes Server.mu only for its *)
(*     last step;                                                          *)
(*   - the operator, who edits the file from another process.              *)
(*                                                                         *)
(* A configuration says of every change whether it is in it, and with which *)
(* list of domains.  The list matters because policy.NewStore normalises it *)
(* in place, in the slices the configuration owns, and normalizeName takes  *)
(* one trailing dot away: what NewStore accepts once it may refuse the next *)
(* time, and the copies of one configuration are normalised a different     *)
(* number of times.                                                        *)
(*                                                                         *)
(* A definition named X_Bug is not part of the specification: it is the    *)
(* definition X with a plausible programming error, kept to show that the  *)
(* properties at the end of the module notice it.                          *)
(***************************************************************************)

CONSTANTS
    Requests,   \* admin requests; each stands for the change it asks for
    Edits,      \* changes the operator makes directly in the file
    Lists,      \* lists of domains, as the rules and groups hold them
    NoList,     \* the list of a change that is not in a configuration
    Refused,    \* what normalising a list that NewStore refuses gives
    Normalize,  \* what one NewStore makes of each list
    Asks,       \* the list each change brings, as it was typed
    Broken,     \* the content of a file that is not a configuration
    NoConfig    \* what a process that is not running has in memory

Changes == Requests \union Edits

Configs == [Changes -> Lists \union {NoList}]

ASSUME ListsAssumption ==
    /\ NoList \notin Lists
    /\ Refused \notin Lists \union {NoList}
ASSUME NormalizeAssumption ==
    /\ Normalize \in [Lists \union {NoList} -> Lists \union {NoList, Refused}]
    /\ \A list \in Lists : Normalize[list] # NoList
    /\ Normalize[NoList] = NoList
ASSUME AsksAssumption == Asks \in [Changes -> Lists]
ASSUME BrokenAssumption == Broken \notin Configs
ASSUME NoConfigAssumption ==
    /\ NoConfig \notin Configs \union {Broken}
    /\ \A set \in SUBSET Changes : NoConfig # set

VARIABLES
    disk,       \* the configuration file
    config,     \* Server.config
    store,      \* the policy.Store that Manager.store points to
    phase,      \* phase[r]: how far Server.update has come for request r
    next,       \* next[r]: the local variable "next" of that call
    pending,    \* a SIGHUP waits in the channel "reload" (capacity 1)
    reloader,   \* where the SIGHUP goroutine is
    loaded,     \* its local variable "updated"
    opened      \* the copy of the file the operator is editing

adminVars == <<disk, config, store, phase, next>>
reloadVars == <<pending, reloader, loaded>>
vars == <<disk, config, store, phase, next, pending, reloader, loaded, opened>>

Phases == {"idle", "validated", "written", "published",
           "acked", "rejected", "lost"}

(* The phases in which update holds Server.mu. *)
Critical == {"validated", "written", "published"}

(* What policy.NewStore does with a configuration: it accepts every list or *)
(* fails, and leaves the lists normalised where they are.                   *)
accepted(c) == \A x \in Changes : Normalize[c[x]] # Refused
normalized(c) == [x \in Changes |-> Normalize[c[x]]]

(* Normalising it once more changes nothing.                                *)
settled(c) == normalized(c) = c

changes(c) == {x \in Changes : c[x] # NoList}

Up == config # NoConfig

MutexFree == \A r \in Requests : phase[r] \notin Critical

TypeOK ==
    /\ disk \in Configs \union {Broken}
    /\ config \in Configs \union {NoConfig}
    /\ store \in Configs \union {NoConfig}
    /\ phase \in [Requests -> Phases]
    /\ next \in [Requests -> Configs]
    /\ pending \in BOOLEAN
    /\ reloader \in {"idle", "loaded", "replaced"}
    /\ loaded \in Configs
    /\ opened \in Configs

(* config.Load ends with NewStore; NewManager and Manager.Replace run it a  *)
(* second time on what Load returned.                                       *)
loads(file) == file # Broken /\ accepted(file)
starts(file) == loads(file) /\ accepted(normalized(file))

Installed == [x \in Changes |-> NoList]

(* runGateway: the file is loaded, then published by policy.NewManager and  *)
(* handed to admin.NewServer before anything is served.                     *)
Init ==
    /\ disk = Installed
    /\ config = Installed
    /\ store = Installed
    /\ phase = [r \in Requests |-> "idle"]
    /\ next = [r \in Requests |-> Installed]
    /\ pending = FALSE
    /\ reloader = "idle"
    /\ loaded = Installed
    /\ opened = Installed

-----------------------------------------------------------------------------
(* Server.update, step by step.                                            *)

At(r, from, to) ==
    /\ phase[r] = from
    /\ phase' = [phase EXCEPT ![r] = to]

(* The clone of the configuration with the change that r asks for.          *)
asked(c, r) == [c EXCEPT ![r] = Asks[r]]

(* Bug: update does not lock. *)
Validate_NoLock(r) ==
    /\ Up /\ accepted(asked(config, r))
    /\ At(r, "idle", "validated")
    /\ next' = [next EXCEPT ![r] = normalized(asked(config, r))]
    /\ UNCHANGED <<disk, config, store, reloadVars, opened>>

(* Lock; clone the configuration, apply the request's change to the clone,  *)
(* derive the time zones and validate the result with policy.NewStore.      *)
Validate(r) ==
    /\ Up /\ MutexFree
    /\ accepted(asked(config, r))
    /\ At(r, "idle", "validated")
    /\ next' = [next EXCEPT ![r] = normalized(asked(config, r))]
    /\ UNCHANGED <<disk, config, store, reloadVars, opened>>

(* The change, the time zones or the validation fail: update returns the    *)
(* error with nothing changed.                                              *)
Refuse(r) ==
    /\ Up /\ MutexFree
    /\ At(r, "idle", "rejected")
    /\ UNCHANGED <<disk, config, store, next, reloadVars, opened>>

(* config.WriteAtomic succeeds: the rename replaces the file as a whole.    *)
WriteAtomic(r) ==
    /\ At(r, "validated", "written")
    /\ disk' = next[r]
    /\ UNCHANGED <<config, store, next, reloadVars, opened>>

(* Bug: chmod comes after the rename, and fails. *)
WriteFails_AfterRename(r) ==
    /\ At(r, "validated", "rejected")
    /\ disk' = next[r]
    /\ UNCHANGED <<config, store, next, reloadVars, opened>>

(* A step of WriteAtomic before or at the rename fails: the error goes to   *)
(* the caller and only the temporary file existed.                          *)
WriteFails(r) ==
    /\ At(r, "validated", "rejected")
    /\ UNCHANGED <<disk, config, store, next, reloadVars, opened>>

(* Bug: the store is replaced before the file is written. *)
Replace_BeforeWrite(r) ==
    /\ accepted(next[r])
    /\ At(r, "validated", "published")
    /\ store' = normalized(next[r])
    /\ next' = [next EXCEPT ![r] = normalized(next[r])]
    /\ UNCHANGED <<disk, config, reloadVars, opened>>

(* Manager.Replace: NewStore again, which normalises next a second time.    *)
Replace(r) ==
    /\ accepted(next[r])
    /\ At(r, "written", "published")
    /\ store' = normalized(next[r])
    /\ next' = [next EXCEPT ![r] = normalized(next[r])]
    /\ UNCHANGED <<disk, config, reloadVars, opened>>

(* NewStore refuses what it made of the lists in Validate: the request is   *)
(* answered with an error after its configuration went to the file.         *)
ReplaceFails(r) ==
    /\ ~accepted(next[r])
    /\ At(r, "written", "rejected")
    /\ UNCHANGED <<disk, config, store, next, reloadVars, opened>>

(* Bug: s.config is not assigned. *)
Finish_NoAssignment(r) ==
    /\ At(r, "published", "acked")
    /\ UNCHANGED <<disk, config, store, next, reloadVars, opened>>

(* Bug: the handler answers as soon as the file is written. *)
Finish_BeforeReplace(r) ==
    /\ At(r, "written", "acked")
    /\ config' = next[r]
    /\ UNCHANGED <<disk, store, next, reloadVars, opened>>

(* s.config = next; Unlock; the handler answers the request.                *)
Finish(r) ==
    /\ At(r, "published", "acked")
    /\ config' = next[r]
    /\ UNCHANGED <<disk, store, next, reloadVars, opened>>

(* The process dies: memory is gone, and callers of update get no answer.   *)
Crash ==
    /\ Up
    /\ config' = NoConfig
    /\ store' = NoConfig
    /\ phase' = [r \in Requests |->
                    IF phase[r] \in Critical THEN "lost" ELSE phase[r]]
    /\ pending' = FALSE
    /\ reloader' = "idle"
    /\ UNCHANGED <<disk, next, loaded, opened>>

(* runGateway again: config.Load, policy.NewManager, admin.NewServer.       *)
Restart ==
    /\ ~Up
    /\ starts(disk)
    /\ config' = normalized(normalized(disk))
    /\ store' = normalized(normalized(disk))
    /\ UNCHANGED <<disk, phase, next, reloadVars, opened>>

(* One of the two refuses the file: log.Fatal, and the container's restart  *)
(* policy tries again.                                                      *)
RestartFails ==
    /\ ~Up
    /\ ~starts(disk)
    /\ UNCHANGED vars

-----------------------------------------------------------------------------
(* The SIGHUP path.                                                        *)

(* A signal that finds the channel full is dropped by signal.Notify.        *)
Sighup ==
    /\ Up
    /\ pending' = TRUE
    /\ UNCHANGED <<adminVars, reloader, loaded, opened>>

(* Take the signal and load the file; Server.mu is not held.                *)
ReloadLoad ==
    /\ Up /\ pending /\ reloader = "idle"
    /\ pending' = FALSE
    /\ loads(disk)
    /\ loaded' = normalized(disk)
    /\ reloader' = "loaded"
    /\ UNCHANGED <<adminVars, opened>>

(* config.Load refuses the file: log and wait for the next signal.          *)
ReloadRefused ==
    /\ Up /\ pending /\ reloader = "idle"
    /\ pending' = FALSE
    /\ ~loads(disk)
    /\ UNCHANGED <<adminVars, reloader, loaded, opened>>

(* profiles.Replace, again without Server.mu.                               *)
ReloadReplace ==
    /\ Up /\ reloader = "loaded"
    /\ accepted(loaded)
    /\ reloader' = "replaced"
    /\ loaded' = normalized(loaded)
    /\ store' = normalized(loaded)
    /\ UNCHANGED <<disk, config, phase, next, pending, opened>>

(* Bug: the error of Replace is logged, and the loop goes on to Reload. *)
ReloadReplaceFails_NoContinue ==
    /\ Up /\ reloader = "loaded"
    /\ ~accepted(loaded)
    /\ reloader' = "replaced"
    /\ loaded' = normalized(loaded)
    /\ UNCHANGED <<adminVars, pending, opened>>

(* Replace refuses what Load accepted: log and wait for the next signal.    *)
ReloadReplaceFails ==
    /\ Up /\ reloader = "loaded"
    /\ ~accepted(loaded)
    /\ reloader' = "idle"
    /\ UNCHANGED <<adminVars, pending, loaded, opened>>

(* Bug: Server.Reload does not lock. *)
ReloadAdopt_NoLock ==
    /\ Up /\ reloader = "replaced"
    /\ reloader' = "idle"
    /\ config' = loaded
    /\ UNCHANGED <<disk, store, phase, next, pending, loaded, opened>>


(* Server.Reload: the one step of the path that takes Server.mu.            *)
ReloadAdopt ==
    /\ Up /\ reloader = "replaced" /\ MutexFree
    /\ reloader' = "idle"
    /\ config' = loaded
    /\ UNCHANGED <<disk, store, phase, next, pending, loaded, opened>>

-----------------------------------------------------------------------------
(* The operator and the file.                                              *)

(* cmd/labpolicy: load the file, ...                                        *)
OperatorOpens ==
    /\ loads(disk)
    /\ opened' = normalized(disk)
    /\ UNCHANGED <<adminVars, reloadVars>>

(* ... change and check it, then write it back whole, with whatever         *)
(* happened in between lost.                                                *)
OperatorSaves(e) ==
    /\ accepted(asked(opened, e))
    /\ disk' = normalized(asked(opened, e))
    /\ UNCHANGED <<config, store, phase, next, reloadVars, opened>>

(* An edit by hand leaves a file that does not load.                        *)
OperatorBreaks ==
    /\ disk' = Broken
    /\ UNCHANGED <<config, store, phase, next, reloadVars, opened>>

-----------------------------------------------------------------------------
UpdateNext ==
    \E r \in Requests :
        \/ Validate(r) \/ Refuse(r)
        \/ WriteAtomic(r) \/ WriteFails(r)
        \/ Replace(r) \/ ReplaceFails(r) \/ Finish(r)

ReloadNext ==
    \/ Sighup
    \/ ReloadLoad \/ ReloadRefused
    \/ ReloadReplace \/ ReloadReplaceFails
    \/ ReloadAdopt

OperatorNext ==
    OperatorOpens \/ (\E e \in Edits : OperatorSaves(e)) \/ OperatorBreaks

AdminNext == UpdateNext \/ Crash \/ Restart \/ RestartFails

Next == AdminNext \/ ReloadNext \/ OperatorNext

(* A handler that runs update keeps running, and sync.Mutex hands itself to *)
(* a starving waiter, so a request that keeps asking for it gets it.  The   *)
(* SIGHUP goroutine is a loop of its own.  Nothing forces a crash, and the  *)
(* container's restart policy brings a dead process back.                   *)
UpdateFairness ==
    /\ \A r \in Requests : SF_vars(Validate(r) \/ Refuse(r))
    /\ \A r \in Requests : WF_vars(WriteAtomic(r) \/ WriteFails(r))
    /\ \A r \in Requests : WF_vars(Replace(r) \/ ReplaceFails(r) \/ Finish(r))
    /\ WF_vars(Restart)

ReloadFairness ==
    /\ WF_vars(ReloadLoad \/ ReloadRefused)
    /\ WF_vars(ReloadReplace \/ ReloadReplaceFails)
    /\ SF_vars(ReloadAdopt)

(* The process as the admin API alone drives it. *)
AdminSpec == Init /\ [][AdminNext]_vars /\ UpdateFairness

(* The same process with an operator who edits the file and sends SIGHUP.   *)
Spec == Init /\ [][Next]_vars /\ UpdateFairness /\ ReloadFairness

-----------------------------------------------------------------------------
(* Properties of the admin API alone (AdminSpec).                          *)

(* Whenever no update holds the mutex, the served policy is the one of the  *)
(* administrative copy, and both are what the file says unless the file     *)
(* holds a list that normalising changes: no early return or crash of       *)
(* update leaves the copies apart otherwise.                                *)
QuiescentAgreement ==
    Up /\ MutexFree =>
        /\ store = config
        /\ disk # Broken /\ settled(disk) => disk = config

(* DNS never enforces a change that a crash would undo: the file is written *)
(* before the store is replaced, on every path.                             *)
ServedIsDurable == Up => changes(store) \subseteq changes(disk)

(* A change that was answered with success survives every later update,     *)
(* failure, crash and restart, and is enforced whenever the process runs.   *)
AckedIsKept ==
    \A r \in Requests :
        phase[r] = "acked" =>
            r \in changes(disk) /\ (Up => r \in changes(store))

(* A request that was answered with an error never takes effect: its change *)
(* is in neither copy in memory, and a file in which it was left (by a      *)
(* Replace that failed, server.go:1274) does not load, so that no restart   *)
(* brings it back.                                                          *)
RefusedNeverTakesEffect ==
    \A r \in Requests :
        phase[r] = "rejected" =>
            /\ Up => r \notin changes(config) \union changes(store)
            /\ r \in changes(disk) => ~loads(disk)

(* The copies together behave as one durable configuration with a served    *)
(* view that may lag behind it by the one change being made, and a refused  *)
(* change that never gets into that view.                                   *)
Durable == INSTANCE DurablePolicy WITH
    NoService <- NoConfig,
    durable <- changes(disk),
    served <- IF Up THEN changes(store) ELSE NoConfig,
    answered <- {r \in Requests : phase[r] = "acked"},
    refused <- {r \in Requests : phase[r] = "rejected"}

ImplementsDurablePolicy == Durable!Spec

-----------------------------------------------------------------------------
(* Properties of the whole process (Spec).                                 *)

(* While update holds the mutex, nobody changes the copy it cloned: the     *)
(* assignment in Finish cannot revert a reload that came after the clone.   *)
CriticalSectionIsolated ==
    \A r \in Requests :
        /\ phase[r] \in {"validated", "written"} =>
              next[r] = normalized(asked(config, r))
        /\ phase[r] = "published" =>
              next[r] = normalized(normalized(asked(config, r)))

(* A file that config.Load refuses, or that it accepts and Replace refuses, *)
(* never becomes the served policy or the administrative copy, by a reload  *)
(* or by a restart: the last valid version stays (laboratorio.md:99).       *)
BrokenFileNeverTakesEffect ==
    /\ Broken \notin {config, store}
    /\ Up => \A x \in Changes : Refused \notin {config[x], store[x]}

(* Once requests have ended and the file is left alone, an operator who     *)
(* keeps sending SIGHUP does bring the administrative copy and the served   *)
(* policy to what the file says, whatever races came before, if a process   *)
(* can start with that file.                                                *)
Quiet == \A r \in Requests : phase[r] \in {"acked", "rejected", "lost"}


(* What the comment on Server.Reload promises (server.go:288): after a      *)
(* reload the control plane is in sync with the policy being served.  It is *)
(* not: Load and Replace run outside Server.mu, so an update can fall       *)
(* between them and Reload.                                                 *)
ReloadKeepsInSync ==
    Up /\ MutexFree /\ reloader = "idle" => config = store

=============================================================================
