----------------------------- MODULE Extension ------------------------------
(***************************************************************************)
(* The service worker of the Chrome extension (extension/background.js):   *)
(* one stored state, handlers that read it, wait, and write it back whole, *)
(* and the session rules of the browser that are rebuilt from it.          *)
(*                                                                         *)
(* Every "await" is a point where another handler may run, and where Chrome*)
(* may end the worker; a handler between two awaits is one action.  The    *)
(* stored state keeps the session token, the flag "paired" and the snapshot*)
(* together (applySnapshot sets the three, unpair clears the three, every  *)
(* other handler writes back what it read), so a snapshot stands for them. *)
(* The text of an error, the instant of the last synchronisation and the   *)
(* address of the server are left out; setBaseUrl writes what unpair       *)
(* writes.  A request to the server, with the pairing it may begin with,   *)
(* succeeds or fails; its content is modelled in Profiles.                 *)
(*                                                                         *)
(* The signature of compiled rules is their text: a signature is the set   *)
(* of rules itself.                                                        *)
(***************************************************************************)
EXTENDS Naturals

CONSTANTS
    Snapshots,     \* policies the server hands out
    None,          \* no snapshot: the browser is not paired
    Phases,        \* stretches of the week between two schedule boundaries
    Compiled,      \* buildRules: the rules of a snapshot in a phase
    NoRules,       \* the empty set of session rules
    Null,          \* no signature: null
    Undefined,     \* no signature: the field was never written
    Syncs,         \* runs of syncNow under way at the same time
    MaxFaults,     \* bound: worker kills, Chrome restarts, tabs closed in a refresh
    PopupInBoot    \* bound: may the popup be used before bootstrap has ended

Rulesets == {Compiled[s][p] : s \in Snapshots, p \in Phases} \union {NoRules}

(* What stands for no signature; bootstrap tells the two apart from a       *)
(* signature, recomputeRulesNow only null.                                  *)
NoSignature == {Null, Undefined}

ASSUME NoneAssumption ==
    /\ None \notin Snapshots
    /\ NoSignature \intersect Rulesets = {}
    /\ Null # Undefined

ASSUME BoundsAssumption == MaxFaults \in Nat /\ PopupInBoot \in BOOLEAN

VARIABLES
    policy,        \* the profile's policy on the server
    phase,         \* the stretch of the week it is
    storage,       \* chrome.storage.local: snapshot and rulesSig
    rules,         \* the session rules Chrome enforces
    recompute,     \* the head of ruleUpdateQueue
    waiting,       \* recomputeRules was called and has not started
    sync,          \* the runs of syncNow
    boot,          \* bootstrap
    faults,        \* faults so far
    calm,          \* since Chrome started, no two handlers overlapped (history)
    freed          \* unpaired with no pairing in a handler's hands, and the
                   \* popup not used since (history)

browser == <<storage, rules>>
worker == <<recompute, waiting, sync, boot>>
vars == <<policy, phase, browser, worker, faults, calm, freed>>

Stored == [snapshot : Snapshots \union {None}, rulesSig : Rulesets \union NoSignature]

Idle == [pc |-> "idle"]

Recomputes == {Idle}
    \union [pc : {"remove", "forget", "write"}, state : Stored]
    \union [pc : {"install", "reread"}, target : Rulesets, snapshot : Snapshots]

SyncStates == {Idle}
    \union [pc : {"fetch", "settle", "error"}, mine : Stored]
    \union [pc : {"apply"}, mine : Stored, got : Snapshots]
    \union [pc : {"store"}, mine : Stored, state : Stored]

Boots == {Idle, [pc |-> "read"], [pc |-> "sync"]} \union [pc : {"write"}, state : Stored]

TypeOK ==
    /\ policy \in Snapshots
    /\ phase \in Phases
    /\ storage \in Stored
    /\ rules \in Rulesets
    /\ recompute \in Recomputes
    /\ waiting \in BOOLEAN
    /\ sync \in [Syncs -> SyncStates]
    /\ boot \in Boots
    /\ faults \in 0 .. MaxFaults
    /\ calm \in BOOLEAN
    /\ freed \in BOOLEAN

Init ==
    /\ policy \in Snapshots
    /\ phase \in Phases
    /\ storage = [snapshot |-> None, rulesSig |-> Undefined]
    /\ rules = NoRules
    /\ recompute = Idle
    /\ waiting = FALSE
    /\ sync = [s \in Syncs |-> Idle]
    /\ boot = [pc |-> "read"]
    /\ faults = 0
    /\ calm = TRUE
    /\ freed = FALSE

paired == storage.snapshot # None

(* setState, and the event storage.onChanged, which calls syncFromStorage.  *)
setState(state) ==
    /\ storage' = state
    /\ waiting' = TRUE

-----------------------------------------------------------------------------
(* recomputeRulesNow, serialised by ruleUpdateQueue.                        *)

(* Bug: with no snapshot and no signature there is nothing to remove. *)
RecomputeReads_EarlyReturn ==
    /\ recompute = Idle
    /\ waiting
    /\ waiting' = FALSE
    /\ recompute' =
          CASE ~ paired -> IF storage.rulesSig \in NoSignature THEN Idle
                           ELSE [pc |-> "remove", state |-> storage]
            [] paired /\ storage.rulesSig = Compiled[storage.snapshot][phase] -> Idle
            [] OTHER -> [pc |-> "install", target |-> Compiled[storage.snapshot][phase],
                         snapshot |-> storage.snapshot]
    /\ UNCHANGED <<policy, phase, browser, sync, boot, faults, calm, freed>>

(* The state is read: no snapshot, a signature that is up to date, or rules *)
(* to be installed.                                                         *)
RecomputeReads ==
    /\ recompute = Idle
    /\ waiting
    /\ waiting' = FALSE
    /\ recompute' =
          CASE ~ paired -> [pc |-> "remove", state |-> storage]
            [] paired /\ storage.rulesSig = Compiled[storage.snapshot][phase] -> Idle
            [] OTHER -> [pc |-> "install", target |-> Compiled[storage.snapshot][phase],
                         snapshot |-> storage.snapshot]
    /\ UNCHANGED <<policy, phase, browser, sync, boot, faults, calm, freed>>

(* Without a snapshot every rule is removed ... *)
RecomputeRemoves ==
    /\ recompute.pc = "remove"
    /\ rules' = NoRules
    /\ recompute' = IF recompute.state.rulesSig = Null THEN Idle
                    ELSE [recompute EXCEPT !.pc = "forget"]
    /\ UNCHANGED <<policy, phase, storage, waiting, sync, boot, faults, calm, freed>>

(* ... and the state read before is written back without its signature.     *)
RecomputeForgets ==
    /\ recompute.pc = "forget"
    /\ setState([recompute.state EXCEPT !.rulesSig = Null])
    /\ recompute' = Idle
    /\ UNCHANGED <<policy, phase, rules, sync, boot, faults, calm, freed>>

(* updateSessionRules refuses the change, or the policy is too large for    *)
(* the priorities (candidatePriority throws): the rules stay, the queue goes*)
(* on, and a run of syncNow that waits for this recomputation, through      *)
(* applySnapshot, fails with it.                                            *)
RecomputeFails ==
    /\ recompute.pc = "install"
    /\ recompute' = Idle
    /\ \E failed \in SUBSET {s \in Syncs : sync[s].pc = "settle"} :
          /\ sync' = [s \in Syncs |-> IF s \in failed THEN [pc |-> "error", mine |-> sync[s].mine]
                                     ELSE sync[s]]
          /\ calm' = (calm /\ failed = {})
    /\ UNCHANGED <<policy, phase, browser, waiting, boot, faults, freed>>

(* updateSessionRules removes the old rules and adds the new at once. *)
RecomputeInstalls ==
    /\ recompute.pc = "install"
    /\ rules' = recompute.target
    /\ recompute' = [recompute EXCEPT !.pc = "reread"]
    /\ UNCHANGED <<policy, phase, storage, waiting, sync, boot, faults, calm, freed>>

(* Bug: the state read at the start is written with the new signature. *)
RecomputeRereads_Not ==
    /\ recompute.pc = "reread"
    /\ recompute' = [pc |-> "write",
                     state |-> [snapshot |-> recompute.snapshot, rulesSig |-> recompute.target]]
    /\ UNCHANGED <<policy, phase, browser, waiting, sync, boot, faults, calm, freed>>

(* The state is read again, to be written with the new signature. *)
RecomputeRereads ==
    /\ recompute.pc = "reread"
    /\ recompute' = [pc |-> "write", state |-> [storage EXCEPT !.rulesSig = recompute.target]]
    /\ UNCHANGED <<policy, phase, browser, waiting, sync, boot, faults, calm, freed>>

RecomputeWrites ==
    /\ recompute.pc = "write"
    /\ setState(recompute.state)
    /\ recompute' = Idle
    /\ UNCHANGED <<policy, phase, rules, sync, boot, faults, calm, freed>>

recomputeRulesNow ==
    \/ RecomputeReads
    \/ RecomputeRemoves
    \/ RecomputeForgets
    \/ RecomputeInstalls
    \/ RecomputeFails
    \/ RecomputeRereads
    \/ RecomputeWrites

-----------------------------------------------------------------------------
(* syncNow.                                                                 *)

Quiet == \A s \in Syncs : sync[s] = Idle

Rests == recompute = Idle /\ Quiet /\ boot = Idle

Settled == Rests /\ ~ waiting

(* The state is read; without a pairing, only the popup may begin one. *)
SyncReads(s, allowPair) ==
    /\ sync[s] = Idle
    /\ paired \/ allowPair
    /\ sync' = [sync EXCEPT ![s] = [pc |-> "fetch", mine |-> storage]]

(* The alarm teenRefresh, every 20 minutes; bootstrap sets it anew. *)
Refresh(s) ==
    /\ boot = Idle
    /\ SyncReads(s, FALSE)
    /\ calm' = (calm /\ Settled)
    /\ UNCHANGED <<policy, phase, browser, recompute, waiting, boot, faults, freed>>

(* The popup's commands pair and syncNow. *)
PopupSync(s) ==
    /\ PopupInBoot \/ boot = Idle
    /\ SyncReads(s, TRUE)
    /\ calm' = (calm /\ Settled)
    /\ freed' = FALSE
    /\ UNCHANGED <<policy, phase, browser, recompute, waiting, boot, faults>>

(* Bug: while the session lasts, the snapshot that is stored is taken. *)
FetchSucceeds_Cached(s) ==
    /\ sync[s].pc = "fetch"
    /\ sync' = [sync EXCEPT ![s] = [pc |-> "apply", mine |-> @.mine,
            got |-> IF @.mine.snapshot = None THEN policy ELSE @.mine.snapshot]]
    /\ UNCHANGED <<policy, phase, browser, recompute, waiting, boot, faults, calm, freed>>

(* ensureFreshSnapshot: the token is used, or a new pairing begun, and the  *)
(* server answers with the policy.                                          *)
FetchSucceeds(s) ==
    /\ sync[s].pc = "fetch"
    /\ sync' = [sync EXCEPT ![s] = [pc |-> "apply", mine |-> @.mine, got |-> policy]]
    /\ UNCHANGED <<policy, phase, browser, recompute, waiting, boot, faults, calm, freed>>

(* No network, an expired or unknown session, an unanswered challenge. *)
FetchFails(s) ==
    /\ sync[s].pc = "fetch"
    /\ sync' = [sync EXCEPT ![s] = [pc |-> "error", mine |-> @.mine]]
    /\ UNCHANGED <<policy, phase, browser, recompute, waiting, boot, faults, calm, freed>>

(* applySnapshot reads the state ... *)
ApplyReads(s) ==
    /\ sync[s].pc = "apply"
    /\ sync' = [sync EXCEPT ![s] =
          [pc |-> "store", mine |-> @.mine, state |-> [storage EXCEPT !.snapshot = sync[s].got]]]
    /\ UNCHANGED <<policy, phase, browser, recompute, waiting, boot, faults, calm, freed>>

(* ... writes it with the new snapshot, and waits for syncFromStorage. *)
ApplyStores(s) ==
    /\ sync[s].pc = "store"
    /\ setState(sync[s].state)
    /\ sync' = [sync EXCEPT ![s] = [pc |-> "settle", mine |-> @.mine]]
    /\ UNCHANGED <<policy, phase, rules, recompute, boot, faults, calm, freed>>

SyncEnds(s) ==
    /\ sync[s].pc = "settle"
    /\ sync' = [sync EXCEPT ![s] = Idle]
    /\ UNCHANGED <<policy, phase, browser, recompute, waiting, boot, faults, calm, freed>>

(* refreshAllTabs fails, because a tab was closed meanwhile, and with it    *)
(* syncFromStorage and applySnapshot.                                       *)
TabFails(s) ==
    /\ sync[s].pc = "settle"
    /\ faults < MaxFaults
    /\ faults' = faults + 1
    /\ calm' = FALSE
    /\ sync' = [sync EXCEPT ![s] = [pc |-> "error", mine |-> @.mine]]
    /\ UNCHANGED <<policy, phase, browser, recompute, waiting, boot, freed>>

(* The catch of syncNow writes back the state that syncNow read first.      *)
SyncCatches(s) ==
    /\ sync[s].pc = "error"
    /\ setState(sync[s].mine)
    /\ sync' = [sync EXCEPT ![s] = Idle]
    /\ UNCHANGED <<policy, phase, rules, recompute, boot, faults, calm, freed>>

-----------------------------------------------------------------------------
(* Bug: the signature is kept over a new start of Chrome. *)
BootReads_KeepsSignature ==
    /\ boot.pc = "read"
    /\ boot' = IF paired THEN [pc |-> "sync"] ELSE Idle
    /\ waiting' = (waiting \/ ~ paired)
    /\ UNCHANGED <<policy, phase, browser, recompute, sync, faults, calm, freed>>

(* bootstrap: the signature is dropped, for the rules did not survive.      *)
BootReads ==
    /\ boot.pc = "read"
    /\ \/ /\ storage.rulesSig \notin NoSignature
          /\ boot' = [pc |-> "write", state |-> [storage EXCEPT !.rulesSig = Null]]
          /\ UNCHANGED waiting
       \/ /\ storage.rulesSig \in NoSignature
          /\ boot' = IF paired THEN [pc |-> "sync"] ELSE Idle
          /\ waiting' = (waiting \/ ~ paired)
    /\ UNCHANGED <<policy, phase, browser, recompute, sync, faults, calm, freed>>

BootWrites ==
    /\ boot.pc = "write"
    /\ setState(boot.state)
    /\ boot' = IF boot.state.snapshot # None THEN [pc |-> "sync"] ELSE Idle
    /\ UNCHANGED <<policy, phase, rules, recompute, sync, faults, calm, freed>>

(* bootstrap ends with syncNow. *)
BootSyncs(s) ==
    /\ boot.pc = "sync"
    /\ boot' = Idle
    /\ IF paired THEN SyncReads(s, FALSE) ELSE UNCHANGED sync
    /\ UNCHANGED <<policy, phase, browser, recompute, waiting, faults, calm, freed>>

(* A handler holds, or is about to fetch, a state that it will write back.  *)
Carrying == recompute.pc = "write" \/ boot.pc = "write" \/ ~ Quiet

(* unpair, and setBaseUrl, which asks for no pairing. *)
Unpair ==
    /\ setState([snapshot |-> None, rulesSig |-> Null])
    /\ calm' = (calm /\ Settled)
    /\ freed' = (freed \/ ~ Carrying)
    /\ UNCHANGED <<policy, phase, rules, recompute, sync, boot, faults>>

(* The alarm teenRules, every minute. *)
Tick ==
    /\ waiting' = TRUE
    /\ calm' = (calm /\ Settled)
    /\ UNCHANGED <<policy, phase, browser, recompute, sync, boot, faults, freed>>

-----------------------------------------------------------------------------
(* Around the worker.                                                       *)

(* The parents edit the profile. *)
EditPolicy ==
    /\ \E s \in Snapshots : policy' = s
    /\ UNCHANGED <<phase, browser, worker, faults, calm, freed>>

(* A schedule begins or ends. *)
Boundary ==
    /\ \E p \in Phases : phase' = p
    /\ calm' = (calm /\ Settled)
    /\ UNCHANGED <<policy, browser, worker, faults, freed>>

Ended ==
    /\ recompute' = Idle
    /\ waiting' = FALSE
    /\ sync' = [s \in Syncs |-> Idle]
    /\ faults < MaxFaults
    /\ faults' = faults + 1

(* Chrome ends the worker; an alarm or the popup starts it again. *)
Kill ==
    /\ Ended
    /\ boot' = Idle
    /\ calm' = FALSE
    /\ UNCHANGED <<policy, phase, browser, freed>>

(* Chrome is closed and started: session rules are gone, storage is kept.   *)
Restart ==
    /\ Ended
    /\ rules' = NoRules
    /\ boot' = [pc |-> "read"]
    /\ calm' = TRUE
    /\ UNCHANGED <<policy, phase, storage, freed>>

SyncStep(s) ==
    \/ FetchSucceeds(s) \/ FetchFails(s)
    \/ ApplyReads(s) \/ ApplyStores(s)
    \/ SyncEnds(s) \/ TabFails(s) \/ SyncCatches(s)

BootStep == BootReads \/ BootWrites \/ \E s \in Syncs : BootSyncs(s)

Next ==
    \/ recomputeRulesNow
    \/ BootStep
    \/ \E s \in Syncs : Refresh(s) \/ PopupSync(s) \/ SyncStep(s)
    \/ Unpair
    \/ Tick
    \/ EditPolicy
    \/ Boundary
    \/ Kill
    \/ Restart

Fairness ==
    /\ WF_vars(recomputeRulesNow)
    /\ WF_vars(BootStep)
    /\ WF_vars(Tick)
    /\ \A s \in Syncs :
          /\ WF_vars(SyncStep(s))
          /\ WF_vars(Refresh(s))
          /\ SF_vars(FetchSucceeds(s))

Spec == Init /\ [][Next]_vars /\ Fairness

-----------------------------------------------------------------------------
(* A recomputation would change nothing: the stored signature is that of    *)
(* the stored snapshot, now.                                                *)
UpToDate == paired /\ storage.rulesSig = Compiled[storage.snapshot][phase]

(* What lets recomputeRulesNow return early is the truth: as long as every  *)
(* handler since Chrome started has begun while the worker was at rest,     *)
(* rules that are believed up to date are the rules Chrome enforces,        *)
(* through pairing, edits, failed requests, unpairing, and a new start of   *)
(* Chrome, which drops the rules and keeps the signature.                   *)
RulesAreAsBelieved == (calm /\ Settled /\ UpToDate) => rules = storage.rulesSig

(* An unpairing is kept: when no handler holds a state to write back, the   *)
(* browser stays unpaired until the popup is used, whatever runs or fails   *)
(* afterwards, a recomputation that had already read the old snapshot and   *)
(* is installing its rules, ends of the worker and of Chrome included.      *)
(* (With such a handler under way the unpairing may be lost: the worker     *)
(* writes back the snapshot it read, in recomputeRulesNow or in the catch   *)
(* of syncNow.)                                                             *)
UnpairingIsKept == freed => ~ paired

(* ... and frees the browser: in the end its rules are gone, and none is    *)
(* being installed, unless the popup is used again.                         *)
UnpairedIsFree == freed ~> (rules = NoRules /\ recompute.pc # "install") \/ ~ freed

(* What the parents save reaches a paired browser, through failed requests  *)
(* and stale writes: its snapshot becomes theirs, unless they edit again or *)
(* the browser is unpaired.                                                 *)
PolicyReachesBrowser ==
    \A s \in Snapshots :
        (paired /\ policy = s) ~> (storage.snapshot = s \/ policy # s \/ ~ paired)
=============================================================================
