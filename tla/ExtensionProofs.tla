-------------------------- MODULE ExtensionProofs ---------------------------
(***************************************************************************)
(* Type correctness of the extension's worker, and that what its early     *)
(* return believes is true (RulesAreAsBelieved), for any set of policies   *)
(* and stretches of the week, any compilation of rules, any number of      *)
(* overlapping synchronisations and of faults.                             *)
(*                                                                         *)
(* The property alone is not inductive: a signature is copied by every     *)
(* handler that reads the state to write it back later.  CalmInv follows   *)
(* the copies: since Chrome started, as long as no two handlers overlapped *)
(* but bootstrap's synchronisation and the recomputation, every signature  *)
(* that may still be written is absent or that of the rules in force.      *)
(***************************************************************************)
EXTENDS Extension, TLAPS

Signatures == Rulesets \union NoSignature

LEMMA CompiledType ==
    ASSUME NEW s \in Snapshots, NEW p \in Phases
    PROVE  Compiled[s][p] \in Rulesets
BY DEF Rulesets

LEMMA InitTypes ==
    ASSUME Init
    PROVE  TypeOK
<1>1. storage \in Stored /\ rules \in Rulesets
  BY DEF Init, Stored, Rulesets, NoSignature
<1>2. recompute \in Recomputes /\ sync \in [Syncs -> SyncStates]
  BY DEF Init, Recomputes, SyncStates
<1>3. boot \in Boots /\ faults \in 0 .. MaxFaults
  BY BoundsAssumption DEF Init, Boots
<1> QED BY <1>1, <1>2, <1>3 DEF Init, TypeOK

(* What the program counters say of the types of what is waiting.           *)
LEMMA RecomputeFields ==
    ASSUME TypeOK
    PROVE  /\ recompute.pc \in {"remove", "forget", "write"} => recompute.state \in Stored
           /\ recompute.pc \in {"install", "reread"} =>
                 recompute.target \in Rulesets /\ recompute.snapshot \in Snapshots
           /\ recompute.pc \in {"idle", "remove", "forget", "write", "install", "reread"}
           /\ recompute.pc = "idle" <=> recompute = Idle
BY DEF TypeOK, Recomputes, Idle

LEMMA SyncFields ==
    ASSUME TypeOK, NEW s \in Syncs
    PROVE  /\ sync[s].pc \in {"idle", "fetch", "settle", "error", "apply", "store"}
           /\ sync[s].pc = "idle" <=> sync[s] = Idle
           /\ sync[s].pc # "idle" => sync[s].mine \in Stored
           /\ sync[s].pc = "apply" => sync[s].got \in Snapshots
           /\ sync[s].pc = "store" => sync[s].state \in Stored
<1>1. sync[s] \in SyncStates
  BY DEF TypeOK
<1> QED BY <1>1 DEF SyncStates, Idle

LEMMA BootFields ==
    ASSUME TypeOK
    PROVE  /\ boot.pc \in {"idle", "read", "sync", "write"}
           /\ boot.pc = "idle" <=> boot = Idle
           /\ boot.pc = "write" => boot.state \in Stored
BY DEF TypeOK, Boots, Idle

LEMMA Types ==
    ASSUME TypeOK, [Next]_vars
    PROVE  TypeOK'
<1> USE BoundsAssumption
<1>1. ASSUME RecomputeReads PROVE TypeOK'
  <2>1. CASE ~ paired
    BY <1>1, <2>1 DEF RecomputeReads, TypeOK, browser, Recomputes
  <2>2. CASE paired
    <3>1. storage.snapshot \in Snapshots
      BY <2>2 DEF paired, TypeOK, Stored
    <3>2. recompute' = Idle \/
          recompute' = [pc |-> "install", target |-> Compiled[storage.snapshot][phase],
                        snapshot |-> storage.snapshot]
      BY <1>1, <2>2 DEF RecomputeReads
    <3>3. recompute' \in Recomputes
      BY <3>1, <3>2, CompiledType DEF TypeOK, Recomputes
    <3> QED BY <1>1, <3>3 DEF RecomputeReads, TypeOK, browser
  <2> QED BY <2>1, <2>2
<1>2. ASSUME RecomputeRemoves PROVE TypeOK'
  <2>1. recompute \in [pc : {"remove", "forget", "write"}, state : Stored]
    BY <1>2 DEF RecomputeRemoves, TypeOK, Recomputes, Idle
  <2>2. recompute' \in Recomputes
    BY <1>2, <2>1 DEF RecomputeRemoves, Recomputes
  <2> QED BY <1>2, <2>2 DEF RecomputeRemoves, TypeOK, Rulesets
<1>3. ASSUME RecomputeForgets PROVE TypeOK'
  <2>1. [recompute.state EXCEPT !.rulesSig = Null] \in Stored
    BY <1>3, RecomputeFields DEF RecomputeForgets, Stored, NoSignature
  <2> QED BY <1>3, <2>1 DEF RecomputeForgets, setState, TypeOK, Recomputes
<1>4. ASSUME RecomputeInstalls PROVE TypeOK'
  <2>1. recompute \in [pc : {"install", "reread"}, target : Rulesets, snapshot : Snapshots]
    BY <1>4 DEF RecomputeInstalls, TypeOK, Recomputes, Idle
  <2>2. recompute' \in Recomputes
    BY <1>4, <2>1 DEF RecomputeInstalls, Recomputes
  <2> QED BY <1>4, <2>1, <2>2 DEF RecomputeInstalls, TypeOK
<1>5. ASSUME RecomputeRereads PROVE TypeOK'
  <2>1. [storage EXCEPT !.rulesSig = recompute.target] \in Stored
    BY <1>5, RecomputeFields DEF RecomputeRereads, TypeOK, Stored
  <2>2. recompute' \in Recomputes
    BY <1>5, <2>1 DEF RecomputeRereads, Recomputes
  <2> QED BY <1>5, <2>2 DEF RecomputeRereads, TypeOK, browser
<1>6. ASSUME RecomputeWrites PROVE TypeOK'
  BY <1>6, RecomputeFields DEF RecomputeWrites, setState, TypeOK, Recomputes
<1>7. ASSUME BootReads PROVE TypeOK'
  <2>1. [storage EXCEPT !.rulesSig = Null] \in Stored
    BY DEF TypeOK, Stored, NoSignature
  <2>2. boot' \in Boots /\ waiting' \in BOOLEAN
    <3>1. boot' \in {[pc |-> "write", state |-> [storage EXCEPT !.rulesSig = Null]],
                     [pc |-> "sync"], Idle}
      BY <1>7 DEF BootReads
    <3>2. boot' \in Boots
      BY <2>1, <3>1 DEF Boots
    <3>3. waiting' \in BOOLEAN
      BY <1>7 DEF BootReads, TypeOK, paired
    <3> QED BY <3>2, <3>3
  <2> QED BY <1>7, <2>2 DEF BootReads, TypeOK, browser
<1>8. ASSUME BootWrites PROVE TypeOK'
  BY <1>8, BootFields DEF BootWrites, setState, TypeOK, Boots
<1>9. ASSUME NEW s \in Syncs, SyncReads(s, FALSE) \/ SyncReads(s, TRUE)
      PROVE  sync' \in [Syncs -> SyncStates]
  BY <1>9 DEF SyncReads, TypeOK, SyncStates
<1>10. ASSUME NEW s \in Syncs, BootSyncs(s) PROVE TypeOK'
  BY <1>9, <1>10 DEF BootSyncs, TypeOK, browser, Boots
<1>11. ASSUME NEW s \in Syncs, Refresh(s) PROVE TypeOK'
  BY <1>9, <1>11 DEF Refresh, TypeOK, browser, Settled, Rests, Quiet
<1>12. ASSUME NEW s \in Syncs, PopupSync(s) PROVE TypeOK'
  BY <1>9, <1>12 DEF PopupSync, TypeOK, browser, Settled, Rests, Quiet
<1>13. ASSUME NEW s \in Syncs, NEW state \in SyncStates, sync' = [sync EXCEPT ![s] = state]
       PROVE  sync' \in [Syncs -> SyncStates]
  BY <1>13 DEF TypeOK
<1>14. ASSUME NEW s \in Syncs, FetchSucceeds(s) PROVE TypeOK'
  <2>1. [pc |-> "apply", mine |-> sync[s].mine, got |-> policy] \in SyncStates
    BY <1>14, SyncFields DEF FetchSucceeds, SyncStates, TypeOK
  <2> QED BY <1>13, <1>14, <2>1 DEF FetchSucceeds, TypeOK, browser
<1>15. ASSUME NEW s \in Syncs, FetchFails(s) PROVE TypeOK'
  <2>1. [pc |-> "error", mine |-> sync[s].mine] \in SyncStates
    BY <1>15, SyncFields DEF FetchFails, SyncStates
  <2> QED BY <1>13, <1>15, <2>1 DEF FetchFails, TypeOK, browser
<1>16. ASSUME NEW s \in Syncs, ApplyReads(s) PROVE TypeOK'
  <2>1. [storage EXCEPT !.snapshot = sync[s].got] \in Stored
    BY <1>16, SyncFields DEF ApplyReads, TypeOK, Stored
  <2>2. [pc |-> "store", mine |-> sync[s].mine,
         state |-> [storage EXCEPT !.snapshot = sync[s].got]] \in SyncStates
    BY <1>16, <2>1, SyncFields DEF ApplyReads, SyncStates
  <2> QED BY <1>13, <1>16, <2>2 DEF ApplyReads, TypeOK, browser
<1>17. ASSUME NEW s \in Syncs, ApplyStores(s) PROVE TypeOK'
  <2>1. [pc |-> "settle", mine |-> sync[s].mine] \in SyncStates /\ sync[s].state \in Stored
    BY <1>17, SyncFields DEF ApplyStores, SyncStates
  <2> QED BY <1>13, <1>17, <2>1 DEF ApplyStores, setState, TypeOK
<1>18. ASSUME NEW s \in Syncs, SyncEnds(s) PROVE TypeOK'
  BY <1>13, <1>18 DEF SyncEnds, TypeOK, browser, SyncStates
<1>19. ASSUME NEW s \in Syncs, TabFails(s) PROVE TypeOK'
  <2>1. [pc |-> "error", mine |-> sync[s].mine] \in SyncStates
    BY <1>19, SyncFields DEF TabFails, SyncStates
  <2>2. faults' \in 0 .. MaxFaults
    BY <1>19 DEF TabFails, TypeOK
  <2> QED BY <1>13, <1>19, <2>1, <2>2 DEF TabFails, TypeOK, browser
<1>20. ASSUME NEW s \in Syncs, SyncCatches(s) PROVE TypeOK'
  <2>1. sync[s].mine \in Stored /\ Idle \in SyncStates
    BY <1>20, SyncFields DEF SyncCatches, SyncStates
  <2> QED BY <1>13, <1>20, <2>1 DEF SyncCatches, setState, TypeOK
<1>21. ASSUME Unpair PROVE TypeOK'
  <2>1. [snapshot |-> None, rulesSig |-> Null] \in Stored
    BY DEF Stored, NoSignature
  <2> QED BY <1>21, <2>1 DEF Unpair, setState, TypeOK, Settled, Rests, Quiet, Carrying
<1>22. ASSUME Tick \/ EditPolicy \/ Boundary PROVE TypeOK'
  BY <1>22 DEF Tick, EditPolicy, Boundary, TypeOK, browser, worker, Settled, Rests, Quiet
<1>23. ASSUME Kill \/ Restart PROVE TypeOK'
  <2>1. faults' \in 0 .. MaxFaults /\ sync' \in [Syncs -> SyncStates]
    BY <1>23 DEF Kill, Restart, Ended, TypeOK, SyncStates
  <2>2. boot' \in Boots /\ recompute' \in Recomputes /\ waiting' \in BOOLEAN /\ calm' \in BOOLEAN
    BY <1>23 DEF Kill, Restart, Ended, Boots, Recomputes
  <2>3. rules' \in Rulesets
    BY <1>23 DEF Kill, Restart, browser, TypeOK, Rulesets
  <2> QED BY <1>23, <2>1, <2>2, <2>3 DEF Kill, Restart, browser, TypeOK
<1>24. ASSUME RecomputeFails PROVE TypeOK'
  <2>1. PICK failed \in SUBSET {s \in Syncs : sync[s].pc = "settle"} :
           /\ sync' = [s \in Syncs |-> IF s \in failed THEN [pc |-> "error", mine |-> sync[s].mine]
                                      ELSE sync[s]]
           /\ calm' = (calm /\ failed = {})
    BY <1>24 DEF RecomputeFails
  <2>2. ASSUME NEW s \in failed PROVE [pc |-> "error", mine |-> sync[s].mine] \in SyncStates
    BY SyncFields DEF SyncStates
  <2>3. sync' \in [Syncs -> SyncStates]
    BY <2>1, <2>2 DEF TypeOK
  <2>4. calm' \in BOOLEAN
    BY <2>1 DEF TypeOK
  <2> QED BY <1>24, <2>3, <2>4 DEF RecomputeFails, TypeOK, browser, Recomputes
<1>25. ASSUME UNCHANGED vars PROVE TypeOK'
  BY <1>25 DEF vars, browser, worker, TypeOK
<1> QED
  BY <1>1, <1>2, <1>3, <1>4, <1>5, <1>6, <1>7, <1>8, <1>10, <1>11, <1>12, <1>14, <1>15, <1>16,
     <1>17, <1>18, <1>19, <1>20, <1>21, <1>22, <1>23, <1>24, <1>25
     DEF Next, recomputeRulesNow, BootStep, SyncStep

(* Type correctness of the extension. *)
THEOREM TypeCorrect == Spec => []TypeOK
<1>1. Init => TypeOK
  BY InitTypes
<1>2. TypeOK /\ [Next]_vars => TypeOK'
  BY Types
<1> QED BY <1>1, <1>2, PTL DEF Spec
-----------------------------------------------------------------------------
(* The rules that the stored snapshot compiles to now.                      *)
Target == Compiled[storage.snapshot][phase]

(* A signature that may be believed. *)
Believable(sig) == sig \in NoSignature \union {rules}

(* A recomputation of what is stored, and nothing else, may be under way.   *)
Recomputing ==
    /\ paired
    /\ storage.rulesSig \in NoSignature \union {Target}
    /\ Believable(storage.rulesSig)
    /\ recompute.pc \in {"idle", "install", "reread", "write"}
    /\ recompute.pc \in {"install", "reread"} => recompute.target = Target
    /\ recompute.pc = "write" => recompute.state = [storage EXCEPT !.rulesSig = Target]

(* What a synchronisation that has not stored its answer read is what is    *)
(* stored, but for the signature that a recomputation may add.              *)
MineOK(s) ==
    \/ /\ recompute = Idle /\ ~ waiting
       /\ Believable(storage.rulesSig)
       /\ sync[s].mine = storage
       /\ sync[s].pc = "store" => sync[s].state.rulesSig = storage.rulesSig
    \/ /\ Recomputing
       /\ sync[s].mine.snapshot = storage.snapshot
       /\ sync[s].mine.rulesSig \in NoSignature \union {Target} /\ Believable(sync[s].mine.rulesSig)
       /\ sync[s].pc = "store" =>
             sync[s].state.rulesSig \in NoSignature \union {Target} /\ Believable(sync[s].state.rulesSig)

RecomputeOK ==
    /\ recompute.pc \in {"remove", "forget"} =>
          /\ ~ paired /\ Quiet /\ boot.pc = "idle"
          /\ recompute.state.snapshot = None /\ recompute.state.rulesSig \in NoSignature
    /\ recompute.pc \in {"install", "reread", "write"} => paired
    /\ recompute.pc = "reread" => rules = recompute.target
    /\ recompute.pc = "write" => rules = recompute.state.rulesSig /\ recompute.state.snapshot # None

BootOK ==
    /\ boot.pc # "idle" => Quiet
    /\ boot.pc \in {"read", "write"} => recompute = Idle /\ ~ waiting /\ rules = NoRules
    /\ boot.pc = "write" => boot.state.rulesSig = Null
    /\ boot.pc = "sync" => Recomputing

StorageOK ==
    boot.pc \in {"idle", "sync"} =>
        /\ Believable(storage.rulesSig) \/ recompute.pc \in {"reread", "write"}
        /\ ~ paired => storage.rulesSig \in NoSignature

SyncOK(s) ==
    /\ \A t \in Syncs : sync[s] # Idle /\ sync[t] # Idle => s = t
    /\ sync[s].pc \in {"fetch", "error", "apply", "store"} => MineOK(s)
    /\ sync[s].pc = "store" => sync[s].state.snapshot # None
    /\ sync[s].pc = "settle" => paired

CalmInv == calm => RecomputeOK /\ BootOK /\ StorageOK /\ \A s \in Syncs : SyncOK(s)

(* What is stored, and what the program counters say of what is idle.       *)
LEMMA Fields ==
    ASSUME TypeOK
    PROVE  /\ storage.snapshot \in Snapshots \union {None} /\ storage.rulesSig \in Signatures
           /\ paired => Target \in Rulesets
           /\ recompute.pc = "idle" <=> recompute = Idle
           /\ boot.pc = "idle" <=> boot = Idle
           /\ \A s \in Syncs : sync[s].pc = "idle" <=> sync[s] = Idle
BY RecomputeFields, BootFields, SyncFields, CompiledType
   DEF TypeOK, Stored, Signatures, Target, paired

LEMMA ReadsKeeps ==
    ASSUME TypeOK, CalmInv, calm, RecomputeReads
    PROVE  CalmInv'
<1> USE DEF CalmInv, RecomputeOK, BootOK, StorageOK, SyncOK, MineOK, Recomputing, Target, Believable,
            paired, Quiet
<1>1. /\ recompute = Idle /\ recompute.pc = "idle" /\ waiting
      /\ waiting' = FALSE
      /\ UNCHANGED <<policy, phase, storage, rules, sync, boot, calm>>
  BY Fields DEF RecomputeReads, browser
<1>2. boot.pc \in {"idle", "sync"}
  BY <1>1, BootFields
<1>3. CASE ~ paired
  <2>1. recompute' = [pc |-> "remove", state |-> storage]
    BY <1>3 DEF RecomputeReads
  <2>2. boot.pc = "idle" /\ storage.rulesSig \in NoSignature
    BY <1>2, <1>3
  <2>3. \A s \in Syncs : sync[s] = Idle
    BY <1>1, <1>3, SyncFields
  <2>4. \A s \in Syncs : sync[s].pc = "idle"
    BY <2>3, Fields
  <2>5. /\ recompute'.pc = "remove"
        /\ recompute'.state.snapshot = None /\ recompute'.state.rulesSig \in NoSignature
    BY <1>3, <2>1, <2>2
  <2> QED BY <1>1, <1>3, <2>2, <2>3, <2>4, <2>5
<1>4. CASE paired /\ storage.rulesSig = Target
  <2>1. recompute' = Idle
    BY <1>4 DEF RecomputeReads
  <2> QED BY <1>1, <1>2, <1>4, <2>1
<1>5. CASE paired /\ storage.rulesSig # Target
  <2>1. recompute' = [pc |-> "install", target |-> Target, snapshot |-> storage.snapshot]
    BY <1>5 DEF RecomputeReads
  <2>2. recompute'.pc = "install" /\ recompute'.target = Target
    BY <2>1
  <2> QED BY <1>1, <1>2, <1>5, <2>2
<1> QED BY <1>3, <1>4, <1>5

LEMMA RemovesKeeps ==
    ASSUME TypeOK, TypeOK', CalmInv, calm, RecomputeRemoves
    PROVE  CalmInv'
<1> USE DEF CalmInv, RecomputeOK, BootOK, StorageOK, SyncOK, MineOK, Recomputing, Target, Believable,
            paired, Quiet
<1>1. /\ ~ paired /\ Quiet /\ boot.pc = "idle" /\ storage.rulesSig \in NoSignature
      /\ recompute.pc = "remove"
      /\ recompute.state.snapshot = None /\ recompute.state.rulesSig \in NoSignature
  BY DEF RecomputeRemoves
<1>2. UNCHANGED <<policy, phase, storage, waiting, sync, boot, calm>>
  BY DEF RecomputeRemoves
<1>3. \A s \in Syncs : sync[s] = Idle /\ sync[s].pc = "idle"
  BY <1>1, Fields
<1>4. \/ recompute'.pc = "idle"
      \/ recompute'.pc = "forget" /\ recompute'.state = recompute.state
  <2>1. recompute \in [pc : {"remove", "forget", "write"}, state : Stored]
    BY <1>1 DEF TypeOK, Recomputes, Idle
  <2> QED BY <2>1 DEF RecomputeRemoves, Idle
<1> QED BY <1>1, <1>2, <1>3, <1>4

LEMMA ForgetsKeeps ==
    ASSUME TypeOK, TypeOK', CalmInv, calm, RecomputeForgets
    PROVE  CalmInv'
<1> USE DEF CalmInv, RecomputeOK, BootOK, StorageOK, SyncOK, MineOK, Recomputing, Target, Believable,
            paired, Quiet
<1>1. /\ ~ paired /\ Quiet /\ boot.pc = "idle"
      /\ recompute.pc = "forget" /\ recompute.state.snapshot = None
  BY DEF RecomputeForgets
<1>2. /\ recompute' = Idle /\ recompute'.pc = "idle"
      /\ UNCHANGED <<policy, phase, rules, sync, boot, calm>>
  BY DEF RecomputeForgets, Idle
<1>3. storage'.snapshot = None /\ storage'.rulesSig = Null
  BY <1>1, RecomputeFields DEF RecomputeForgets, setState, Stored
<1>4. \A s \in Syncs : sync[s] = Idle /\ sync[s].pc = "idle"
  BY <1>1, Fields
<1> QED BY <1>1, <1>2, <1>3, <1>4 DEF NoSignature

LEMMA FailsKeeps ==
    ASSUME TypeOK, TypeOK', CalmInv, calm, RecomputeFails
    PROVE  CalmInv'
<1> USE DEF CalmInv, RecomputeOK, BootOK, StorageOK, SyncOK, MineOK, Recomputing, Target, Believable,
            paired, Quiet
<1>1. CASE ~ calm'
  BY <1>1
<1>2. CASE calm'
  <2>1. /\ recompute.pc = "install" /\ recompute'.pc = "idle"
        /\ UNCHANGED <<policy, phase, storage, rules, waiting, boot, calm>>
    BY <1>2 DEF RecomputeFails, browser, Idle
  <2>2. sync' = sync
    BY <1>2 DEF RecomputeFails, TypeOK
  <2>3. recompute # Idle /\ boot.pc \in {"idle", "sync"}
    BY <2>1, BootFields DEF Idle
  <2>4. ASSUME NEW s \in Syncs, sync[s].pc \in {"fetch", "error", "apply", "store"}
        PROVE  MineOK(s)'
    <3>1. /\ Recomputing
          /\ sync[s].mine.snapshot = storage.snapshot
          /\ sync[s].mine.rulesSig \in NoSignature \union {Target}
          /\ Believable(sync[s].mine.rulesSig)
          /\ sync[s].pc = "store" =>
                /\ sync[s].state.rulesSig \in NoSignature \union {Target}
                /\ Believable(sync[s].state.rulesSig)
      BY <2>3, <2>4
    <3> QED BY <2>1, <2>2, <3>1
  <2>5. boot.pc = "sync" => Recomputing'
    BY <2>1
  <2>6. RecomputeOK' /\ BootOK' /\ StorageOK'
    BY <2>1, <2>2, <2>3, <2>5
  <2>7. \A s \in Syncs : SyncOK(s)'
    <3> HIDE DEF MineOK
    <3> QED BY <2>1, <2>2, <2>4
  <2> QED BY <2>6, <2>7
<1> QED BY <1>1, <1>2

LEMMA InstallsKeeps ==
    ASSUME TypeOK, TypeOK', CalmInv, calm, RecomputeInstalls
    PROVE  CalmInv'
<1> USE DEF CalmInv, RecomputeOK, BootOK, StorageOK, SyncOK, MineOK, Recomputing, Target, Believable,
            paired, Quiet
<1>1. /\ recompute.pc = "install" /\ rules' = recompute.target
      /\ recompute'.pc = "reread" /\ recompute'.target = recompute.target
      /\ UNCHANGED <<policy, phase, storage, waiting, sync, boot, calm>>
  <2>1. recompute \in [pc : {"install", "reread"}, target : Rulesets, snapshot : Snapshots]
    BY DEF RecomputeInstalls, TypeOK, Recomputes, Idle
  <2> QED BY <2>1 DEF RecomputeInstalls
<1>2. recompute # Idle /\ boot.pc \in {"idle", "sync"}
  BY <1>1, BootFields DEF Idle
<1>3. boot'.pc = boot.pc /\ paired' /\ Target' = Target
  BY <1>1, <1>2
<1>4. ASSUME NEW s \in Syncs, sync[s].pc \in {"fetch", "error", "apply", "store"}
      PROVE  MineOK(s)'
  <2>1. /\ Recomputing
        /\ sync[s].mine.snapshot = storage.snapshot
        /\ sync[s].mine.rulesSig \in NoSignature \union {Target}
        /\ sync[s].pc = "store" => sync[s].state.rulesSig \in NoSignature \union {Target}
    BY <1>2, <1>4
  <2> QED BY <1>1, <1>3, <2>1
<1>5. boot.pc = "sync" => Recomputing'
  BY <1>1, <1>3
<1> QED BY <1>1, <1>2, <1>3, <1>4, <1>5

LEMMA RereadsKeeps ==
    ASSUME TypeOK, TypeOK', CalmInv, calm, RecomputeRereads
    PROVE  CalmInv'
<1> USE DEF CalmInv, RecomputeOK, BootOK, StorageOK, SyncOK, MineOK, Recomputing, Target, Believable,
            paired, Quiet
<1>1. /\ recompute.pc = "reread" /\ rules = recompute.target
      /\ recompute' = [pc |-> "write", state |-> [storage EXCEPT !.rulesSig = recompute.target]]
      /\ recompute'.pc = "write"
      /\ recompute'.state = [storage EXCEPT !.rulesSig = recompute.target]
      /\ UNCHANGED <<policy, phase, storage, rules, waiting, sync, boot, calm>>
  BY DEF RecomputeRereads, browser
<1>2. /\ recompute'.state.rulesSig = rules /\ recompute'.state.snapshot = storage.snapshot
      /\ storage.snapshot # None
  BY <1>1 DEF TypeOK, Stored
<1>3. recompute # Idle /\ boot.pc \in {"idle", "sync"}
  BY <1>1, BootFields DEF Idle
<1>4. ASSUME NEW s \in Syncs, sync[s].pc \in {"fetch", "error", "apply", "store"}
      PROVE  MineOK(s)'
  <2>1. /\ Recomputing
        /\ sync[s].mine.snapshot = storage.snapshot
        /\ sync[s].mine.rulesSig \in NoSignature \union {Target} /\ Believable(sync[s].mine.rulesSig)
        /\ sync[s].pc = "store" =>
              sync[s].state.rulesSig \in NoSignature \union {Target} /\ Believable(sync[s].state.rulesSig)
    BY <1>3, <1>4
  <2> QED BY <1>1, <2>1
<1>5. boot.pc = "sync" => Recomputing'
  BY <1>1
<1> QED BY <1>1, <1>2, <1>3, <1>4, <1>5

LEMMA WritesKeeps ==
    ASSUME TypeOK, TypeOK', CalmInv, calm, RecomputeWrites
    PROVE  CalmInv'
<1> USE DEF CalmInv, RecomputeOK, BootOK, StorageOK, SyncOK, MineOK, Recomputing, Target, Believable,
            paired, Quiet
<1>1. /\ recompute.pc = "write" /\ storage' = recompute.state
      /\ recompute.state.rulesSig = rules /\ recompute.state.snapshot # None
      /\ recompute' = Idle /\ recompute'.pc = "idle" /\ waiting'
      /\ UNCHANGED <<policy, phase, rules, sync, boot, calm>>
  BY DEF RecomputeWrites, setState, Idle
<1>2. recompute # Idle /\ boot.pc \in {"idle", "sync"}
  BY <1>1, BootFields DEF Idle
<1>3. ASSUME Recomputing
      PROVE  /\ Recomputing' /\ storage'.snapshot = storage.snapshot /\ Target' = Target
             /\ storage'.rulesSig = Target
  <2>1. storage' = [storage EXCEPT !.rulesSig = Target]
    BY <1>1, <1>3
  <2>2. storage'.snapshot = storage.snapshot /\ storage'.rulesSig = Target
    <3> HIDE DEF Target
    <3> QED BY <2>1 DEF TypeOK, Stored
  <2> QED BY <1>1, <1>3, <2>2
<1>4. ASSUME NEW s \in Syncs, sync[s].pc \in {"fetch", "error", "apply", "store"}
      PROVE  MineOK(s)'
  <2>1. /\ Recomputing
        /\ sync[s].mine.snapshot = storage.snapshot
        /\ sync[s].mine.rulesSig \in NoSignature \union {Target} /\ Believable(sync[s].mine.rulesSig)
        /\ sync[s].pc = "store" =>
              sync[s].state.rulesSig \in NoSignature \union {Target} /\ Believable(sync[s].state.rulesSig)
    BY <1>2, <1>4
  <2> HIDE DEF Recomputing, Target
  <2> QED BY <1>1, <1>3, <2>1
<1>5. boot.pc = "sync" => Recomputing'
  BY <1>1, <1>3
<1> QED BY <1>1, <1>2, <1>4, <1>5

LEMMA BootReadsKeeps ==
    ASSUME TypeOK, TypeOK', CalmInv, calm, BootReads
    PROVE  CalmInv'
<1> USE DEF CalmInv, RecomputeOK, BootOK, StorageOK, SyncOK, MineOK, Recomputing, Target, Believable,
            paired, Quiet
<1>1. /\ boot.pc = "read" /\ recompute = Idle /\ recompute.pc = "idle" /\ ~ waiting
      /\ rules = NoRules
      /\ UNCHANGED <<policy, phase, storage, rules, recompute, sync, calm>>
  BY Fields DEF BootReads, browser
<1>2. \A s \in Syncs : sync[s] = Idle /\ sync[s].pc = "idle"
  BY <1>1, Fields
<1>3. CASE storage.rulesSig \notin NoSignature
  <2>1. /\ boot'.pc = "write" /\ boot'.state = [storage EXCEPT !.rulesSig = Null] /\ ~ waiting'
    BY <1>1, <1>3 DEF BootReads
  <2>2. boot'.state.rulesSig = Null
    BY <2>1 DEF TypeOK, Stored
  <2> QED BY <1>1, <1>2, <2>1, <2>2
<1>4. CASE storage.rulesSig \in NoSignature /\ paired
  <2>1. boot'.pc = "sync"
    BY <1>4 DEF BootReads
  <2> QED BY <1>1, <1>2, <1>4, <2>1
<1>5. CASE storage.rulesSig \in NoSignature /\ ~ paired
  <2>1. boot'.pc = "idle"
    BY <1>5 DEF BootReads, Idle
  <2> QED BY <1>1, <1>2, <1>5, <2>1
<1> QED BY <1>3, <1>4, <1>5

LEMMA BootWritesKeeps ==
    ASSUME TypeOK, TypeOK', CalmInv, calm, BootWrites
    PROVE  CalmInv'
<1> USE DEF CalmInv, RecomputeOK, BootOK, StorageOK, SyncOK, MineOK, Recomputing, Target, Believable,
            paired, Quiet
<1>1. /\ boot.pc = "write" /\ recompute = Idle /\ recompute.pc = "idle"
      /\ storage' = boot.state /\ storage'.rulesSig = Null
      /\ UNCHANGED <<policy, phase, rules, recompute, sync, calm>>
  BY Fields DEF BootWrites, setState
<1>2. \A s \in Syncs : sync[s] = Idle /\ sync[s].pc = "idle"
  BY <1>1, Fields
<1>3. \/ boot'.pc = "sync" /\ paired'
      \/ boot'.pc = "idle"
  BY <1>1 DEF BootWrites, Idle
<1>4. Null \in NoSignature
  BY DEF NoSignature
<1> QED BY <1>1, <1>2, <1>3, <1>4

(* A synchronisation that begins. *)
LEMMA BegunSync ==
    ASSUME TypeOK, NEW s \in Syncs, SyncReads(s, FALSE) \/ SyncReads(s, TRUE)
    PROVE  /\ sync[s] = Idle
           /\ sync'[s] # Idle /\ sync'[s].pc = "fetch" /\ sync'[s].mine = storage
           /\ \A t \in Syncs : t # s => sync'[t] = sync[t]
BY DEF SyncReads, TypeOK, Idle

LEMMA BootSyncsKeeps ==
    ASSUME TypeOK, TypeOK', CalmInv, calm, NEW s \in Syncs, BootSyncs(s)
    PROVE  CalmInv'
<1> USE DEF CalmInv, RecomputeOK, BootOK, StorageOK, SyncOK, MineOK, Recomputing, Target, Believable,
            paired, Quiet
<1>1. /\ boot.pc = "sync" /\ boot' = Idle /\ boot'.pc = "idle" /\ Recomputing /\ paired
      /\ UNCHANGED <<policy, phase, storage, rules, recompute, waiting, calm>>
  BY DEF BootSyncs, browser, Idle
<1>2. \A t \in Syncs : sync[t] = Idle /\ sync[t].pc = "idle"
  BY <1>1, Fields
<1>3. SyncReads(s, FALSE)
  BY <1>1 DEF BootSyncs
<1>4. /\ sync'[s].pc = "fetch" /\ sync'[s].mine = storage
      /\ \A t \in Syncs : t # s => sync'[t] = Idle /\ sync'[t].pc = "idle"
  BY <1>2, <1>3, BegunSync
<1>5. StorageOK
  BY <1>1
<1>6. MineOK(s)'
  <2> HIDE DEF Target
  <2>1. Target' = Target
    BY <1>1 DEF Target
  <2> QED BY <1>1, <1>4, <2>1
<1>7. StorageOK'
  BY <1>1, <1>5
<1>8. \A t \in Syncs : SyncOK(t)'
  <2> HIDE DEF MineOK
  <2> QED BY <1>4, <1>6
<1>9. RecomputeOK' /\ BootOK'
  BY <1>1
<1> QED BY <1>7, <1>8, <1>9

LEMMA BeginsKeeps ==
    ASSUME TypeOK, TypeOK', CalmInv, NEW s \in Syncs, Refresh(s) \/ PopupSync(s)
    PROVE  CalmInv'
<1> USE DEF CalmInv, RecomputeOK, BootOK, StorageOK, SyncOK, MineOK, Recomputing, Target, Believable,
            paired, Quiet
<1>1. CASE ~ calm'
  BY <1>1
<1>2. CASE calm'
  <2>1. /\ calm /\ Settled
        /\ SyncReads(s, FALSE) \/ SyncReads(s, TRUE)
        /\ UNCHANGED <<policy, phase, storage, rules, recompute, waiting, boot>>
    BY <1>2 DEF Refresh, PopupSync, browser
  <2>2. /\ recompute = Idle /\ recompute.pc = "idle" /\ boot.pc = "idle" /\ ~ waiting
        /\ \A t \in Syncs : sync[t] = Idle /\ sync[t].pc = "idle"
    BY <2>1, Fields DEF Settled, Rests
  <2>3. /\ sync'[s].pc = "fetch" /\ sync'[s].mine = storage
        /\ \A t \in Syncs : t # s => sync'[t] = Idle /\ sync'[t].pc = "idle"
    BY <2>1, <2>2, BegunSync
  <2>4. Believable(storage.rulesSig)
    BY <2>1, <2>2
  <2>5. MineOK(s)'
    BY <2>1, <2>2, <2>3, <2>4
  <2>6. \A t \in Syncs : SyncOK(t)'
    <3> HIDE DEF MineOK
    <3> QED BY <2>3, <2>5
  <2>7. RecomputeOK' /\ BootOK' /\ StorageOK'
    BY <2>1, <2>2
  <2> QED BY <2>6, <2>7
<1> QED BY <1>1, <1>2

(* One synchronisation is under way. *)
LEMMA OneSync ==
    ASSUME TypeOK, CalmInv, calm, NEW s \in Syncs, sync[s].pc # "idle"
    PROVE  /\ \A t \in Syncs : t # s => sync[t] = Idle /\ sync[t].pc = "idle"
           /\ boot.pc = "idle"
           /\ recompute.pc \notin {"remove", "forget"}
BY Fields DEF CalmInv, SyncOK, BootOK, RecomputeOK, Quiet

(* A step that only moves one synchronisation on. *)
LEMMA OnlySync ==
    ASSUME TypeOK, CalmInv, calm, NEW s \in Syncs, sync[s].pc # "idle",
           UNCHANGED <<policy, phase, storage, rules, recompute, waiting, boot, calm>>,
           \A t \in Syncs : t # s => sync'[t] = sync[t],
           sync'[s].pc \in {"fetch", "error", "apply", "store"} => MineOK(s)',
           sync'[s].pc = "store" => sync'[s].state.snapshot # None,
           sync'[s].pc = "settle" => paired
    PROVE  CalmInv'
<1>1. /\ \A t \in Syncs : t # s => sync[t] = Idle /\ sync[t].pc = "idle"
      /\ boot.pc = "idle" /\ recompute.pc \notin {"remove", "forget"}
  BY OneSync
<1>2. \A t \in Syncs : SyncOK(t)'
  BY <1>1 DEF SyncOK, paired
<1>3. RecomputeOK' /\ BootOK' /\ StorageOK'
  BY <1>1 DEF CalmInv, RecomputeOK, BootOK, StorageOK, Believable, paired
<1> QED BY <1>2, <1>3 DEF CalmInv

LEMMA FetchSucceedsKeeps ==
    ASSUME TypeOK, TypeOK', CalmInv, calm, NEW s \in Syncs, FetchSucceeds(s)
    PROVE  CalmInv'
<1> USE DEF CalmInv, RecomputeOK, BootOK, StorageOK, SyncOK, MineOK, Recomputing, Target, Believable,
            paired, Quiet
<1>1. /\ sync[s].pc = "fetch"
      /\ sync'[s] = [pc |-> "apply", mine |-> sync[s].mine, got |-> policy]
      /\ \A t \in Syncs : t # s => sync'[t] = sync[t]
      /\ UNCHANGED <<policy, phase, storage, rules, recompute, waiting, boot, calm>>
  BY DEF FetchSucceeds, browser, TypeOK
<1>2. MineOK(s)
  BY <1>1
<1>3. MineOK(s)'
  <2> HIDE DEF Target
  <2>1. Target' = Target
    BY <1>1 DEF Target
  <2> QED BY <1>1, <1>2, <2>1
<1>4. sync'[s].pc \notin {"store", "settle"}
  BY <1>1
<1> HIDE DEF CalmInv, MineOK
<1> QED BY <1>1, <1>3, <1>4, OnlySync

LEMMA FetchFailsKeeps ==
    ASSUME TypeOK, TypeOK', CalmInv, calm, NEW s \in Syncs, FetchFails(s)
    PROVE  CalmInv'
<1> USE DEF CalmInv, RecomputeOK, BootOK, StorageOK, SyncOK, MineOK, Recomputing, Target, Believable,
            paired, Quiet
<1>1. /\ sync[s].pc = "fetch"
      /\ sync'[s] = [pc |-> "error", mine |-> sync[s].mine]
      /\ \A t \in Syncs : t # s => sync'[t] = sync[t]
      /\ UNCHANGED <<policy, phase, storage, rules, recompute, waiting, boot, calm>>
  BY DEF FetchFails, browser, TypeOK
<1>2. MineOK(s)
  BY <1>1
<1>3. MineOK(s)'
  <2> HIDE DEF Target
  <2>1. Target' = Target
    BY <1>1 DEF Target
  <2> QED BY <1>1, <1>2, <2>1
<1>4. sync'[s].pc \notin {"store", "settle"}
  BY <1>1
<1> HIDE DEF CalmInv, MineOK
<1> QED BY <1>1, <1>3, <1>4, OnlySync

LEMMA ApplyReadsKeeps ==
    ASSUME TypeOK, TypeOK', CalmInv, calm, NEW s \in Syncs, ApplyReads(s)
    PROVE  CalmInv'
<1> USE DEF CalmInv, RecomputeOK, BootOK, StorageOK, SyncOK, MineOK, Recomputing, Target, Believable,
            paired, Quiet
<1> DEFINE state == [storage EXCEPT !.snapshot = sync[s].got]
<1>1. /\ sync[s].pc = "apply"
      /\ sync'[s] = [pc |-> "store", mine |-> sync[s].mine, state |-> state]
      /\ \A t \in Syncs : t # s => sync'[t] = sync[t]
      /\ UNCHANGED <<policy, phase, storage, rules, recompute, waiting, boot, calm>>
  BY DEF ApplyReads, browser, TypeOK
<1>2. MineOK(s)
  BY <1>1
<1>3. sync[s].got \in Snapshots
  BY <1>1, SyncFields
<1>4. state.rulesSig = storage.rulesSig /\ state.snapshot # None
  BY <1>3, NoneAssumption DEF TypeOK, Stored
<1> HIDE DEF state
<1>5. MineOK(s)'
  <2> HIDE DEF Target
  <2>1. Target' = Target
    BY <1>1 DEF Target
  <2> QED BY <1>1, <1>2, <1>4, <2>1
<1>6. sync'[s].pc = "store" /\ sync'[s].state.snapshot # None
  BY <1>1, <1>4
<1> HIDE DEF CalmInv, MineOK
<1> QED BY <1>1, <1>5, <1>6, OnlySync

LEMMA SyncEndsKeeps ==
    ASSUME TypeOK, TypeOK', CalmInv, calm, NEW s \in Syncs, SyncEnds(s)
    PROVE  CalmInv'
<1> USE DEF CalmInv, RecomputeOK, BootOK, StorageOK, SyncOK, MineOK, Recomputing, Target, Believable,
            paired, Quiet
<1>1. /\ sync[s].pc = "settle"
      /\ sync'[s].pc = "idle"
      /\ \A t \in Syncs : t # s => sync'[t] = sync[t]
      /\ UNCHANGED <<policy, phase, storage, rules, recompute, waiting, boot, calm>>
  BY DEF SyncEnds, browser, TypeOK, Idle
<1> HIDE DEF CalmInv, MineOK
<1> QED BY <1>1, OnlySync

LEMMA ApplyStoresKeeps ==
    ASSUME TypeOK, TypeOK', CalmInv, calm, NEW s \in Syncs, ApplyStores(s)
    PROVE  CalmInv'
<1> USE DEF CalmInv, RecomputeOK, BootOK, StorageOK, SyncOK, MineOK, Recomputing, Target, Believable,
            paired, Quiet
<1>1. /\ sync[s].pc = "store" /\ storage' = sync[s].state /\ waiting'
      /\ sync'[s].pc = "settle"
      /\ \A t \in Syncs : t # s => sync'[t] = sync[t]
      /\ UNCHANGED <<policy, phase, rules, recompute, boot, calm>>
  BY DEF ApplyStores, setState, TypeOK
<1>2. /\ \A t \in Syncs : t # s => sync[t] = Idle /\ sync[t].pc = "idle"
      /\ boot.pc = "idle" /\ recompute.pc \notin {"remove", "forget"}
  BY <1>1, OneSync
<1>3. MineOK(s) /\ sync[s].state.snapshot # None
  BY <1>1
<1>4. paired' /\ Believable(storage'.rulesSig)
  BY <1>1, <1>3
<1>5. \A t \in Syncs : SyncOK(t)'
  BY <1>1, <1>2, <1>4
<1>6. RecomputeOK' /\ BootOK' /\ StorageOK'
  BY <1>1, <1>2, <1>4
<1> QED BY <1>5, <1>6

LEMMA SyncCatchesKeeps ==
    ASSUME TypeOK, TypeOK', CalmInv, calm, NEW s \in Syncs, SyncCatches(s)
    PROVE  CalmInv'
<1> USE DEF CalmInv, RecomputeOK, BootOK, StorageOK, SyncOK, MineOK, Recomputing, Target, Believable,
            paired, Quiet
<1>1. /\ sync[s].pc = "error" /\ storage' = sync[s].mine /\ waiting'
      /\ sync'[s] = Idle /\ sync'[s].pc = "idle"
      /\ \A t \in Syncs : t # s => sync'[t] = sync[t]
      /\ UNCHANGED <<policy, phase, rules, recompute, boot, calm>>
  BY DEF SyncCatches, setState, TypeOK, Idle
<1>2. /\ \A t \in Syncs : t # s => sync[t] = Idle /\ sync[t].pc = "idle"
      /\ boot.pc = "idle" /\ recompute.pc \notin {"remove", "forget"}
  BY <1>1, OneSync
<1>3. MineOK(s) /\ StorageOK
  BY <1>1
<1>4. /\ Believable(storage'.rulesSig)
      /\ storage'.snapshot = storage.snapshot
      /\ ~ paired => storage'.rulesSig \in NoSignature
  BY <1>1, <1>2, <1>3
<1>5. \A t \in Syncs : SyncOK(t)'
  BY <1>1, <1>2
<1>6. RecomputeOK' /\ BootOK' /\ StorageOK'
  BY <1>1, <1>2, <1>4
<1> QED BY <1>5, <1>6

LEMMA OutsideKeeps ==
    ASSUME TypeOK, TypeOK', CalmInv, Unpair \/ Tick \/ Boundary
    PROVE  CalmInv'
<1> USE DEF CalmInv, RecomputeOK, BootOK, StorageOK, SyncOK, MineOK, Recomputing, Target, Believable,
            paired, Quiet
<1>1. CASE ~ calm'
  BY <1>1
<1>2. CASE calm'
  <2>1. calm /\ Settled
    BY <1>2 DEF Unpair, Tick, Boundary
  <2>2. /\ recompute = Idle /\ recompute.pc = "idle" /\ boot.pc = "idle"
        /\ \A t \in Syncs : sync[t] = Idle /\ sync[t].pc = "idle"
        /\ Believable(storage.rulesSig) /\ (~ paired => storage.rulesSig \in NoSignature)
    BY <2>1, Fields DEF Settled, Rests
  <2>3. /\ UNCHANGED <<rules, recompute, sync, boot>>
        /\ UNCHANGED storage \/ storage' = [snapshot |-> None, rulesSig |-> Null]
    BY DEF Unpair, Tick, Boundary, setState, browser, worker
  <2>4. Believable(storage'.rulesSig) /\ (~ paired' => storage'.rulesSig \in NoSignature)
    BY <2>2, <2>3 DEF NoSignature
  <2> QED BY <2>2, <2>3, <2>4
<1> QED BY <1>1, <1>2

LEMMA RestartKeeps ==
    ASSUME TypeOK, TypeOK', CalmInv, Restart
    PROVE  CalmInv'
<1> USE DEF CalmInv, RecomputeOK, BootOK, StorageOK, SyncOK, MineOK, Recomputing, Target, Believable,
            paired, Quiet
<1>1. /\ recompute' = Idle /\ recompute'.pc = "idle" /\ ~ waiting' /\ rules' = NoRules
      /\ boot'.pc = "read"
      /\ \A s \in Syncs : sync'[s] = Idle /\ sync'[s].pc = "idle"
  BY DEF Restart, Ended, Idle
<1> QED BY <1>1

LEMMA CalmKept ==
    ASSUME TypeOK, TypeOK', CalmInv, [Next]_vars
    PROVE  CalmInv'
<1>1. ASSUME UNCHANGED <<phase, storage, rules, recompute, waiting, sync, boot, calm>>
      PROVE  CalmInv'
  BY <1>1 DEF CalmInv, RecomputeOK, BootOK, StorageOK, SyncOK, MineOK, Recomputing, Target,
              Believable, paired, Quiet
<1>2. CASE UNCHANGED vars \/ EditPolicy
  BY <1>1, <1>2 DEF vars, browser, worker, EditPolicy
<1>3. CASE Kill \/ \E s \in Syncs : TabFails(s)
  BY <1>3 DEF Kill, TabFails, CalmInv
<1>4. CASE Restart \/ Unpair \/ Tick \/ Boundary \/ \E s \in Syncs : Refresh(s) \/ PopupSync(s)
  BY <1>4, RestartKeeps, OutsideKeeps, BeginsKeeps
<1>5. CASE recomputeRulesNow
  <2>1. CASE calm
    BY <1>5, <2>1, ReadsKeeps, RemovesKeeps, ForgetsKeeps, FailsKeeps, InstallsKeeps,
       RereadsKeeps, WritesKeeps DEF recomputeRulesNow
  <2>2. CASE ~ calm
    BY <1>5, <2>2
       DEF recomputeRulesNow, RecomputeReads, RecomputeRemoves, RecomputeForgets, RecomputeFails,
           RecomputeInstalls, RecomputeRereads, RecomputeWrites, CalmInv
  <2> QED BY <2>1, <2>2
<1>6. CASE BootStep
  <2>1. CASE calm
    BY <1>6, <2>1, BootReadsKeeps, BootWritesKeeps, BootSyncsKeeps DEF BootStep
  <2>2. CASE ~ calm
    BY <1>6, <2>2 DEF BootStep, BootReads, BootWrites, BootSyncs, CalmInv
  <2> QED BY <2>1, <2>2
<1>7. CASE \E s \in Syncs : FetchSucceeds(s) \/ FetchFails(s) \/ ApplyReads(s) \/ ApplyStores(s)
                             \/ SyncEnds(s) \/ SyncCatches(s)
  <2>1. CASE calm
    BY <1>7, <2>1, FetchSucceedsKeeps, FetchFailsKeeps, ApplyReadsKeeps, ApplyStoresKeeps,
       SyncEndsKeeps, SyncCatchesKeeps
  <2>2. CASE ~ calm
    BY <1>7, <2>2
       DEF FetchSucceeds, FetchFails, ApplyReads, ApplyStores, SyncEnds, SyncCatches, CalmInv
  <2> QED BY <2>1, <2>2
<1> QED
  BY <1>2, <1>3, <1>4, <1>5, <1>6, <1>7 DEF Next, SyncStep

(* What the early return of recomputeRulesNow believes is true.             *)
THEOREM BeliefIsTrue == Spec => []RulesAreAsBelieved
<1>1. Init => TypeOK /\ CalmInv
  <2> SUFFICES ASSUME Init PROVE TypeOK /\ CalmInv
    OBVIOUS
  <2>1. /\ recompute = Idle /\ recompute.pc = "idle" /\ ~ waiting /\ rules = NoRules
        /\ boot.pc = "read"
        /\ \A s \in Syncs : sync[s] = Idle /\ sync[s].pc = "idle"
    BY DEF Init, Idle
  <2>2. CalmInv
    BY <2>1 DEF CalmInv, RecomputeOK, BootOK, StorageOK, SyncOK, Quiet
  <2> QED BY <2>2, InitTypes
<1>2. TypeOK /\ CalmInv /\ [Next]_vars => (TypeOK /\ CalmInv)'
  BY Types, CalmKept
<1>3. TypeOK /\ CalmInv => RulesAreAsBelieved
  <2> SUFFICES ASSUME TypeOK, CalmInv, calm, Settled, UpToDate
               PROVE  rules = storage.rulesSig
    BY DEF RulesAreAsBelieved
  <2>1. recompute.pc = "idle" /\ boot.pc = "idle"
    BY Fields DEF Settled, Rests
  <2>2. storage.rulesSig = Target /\ Target \in Rulesets
    BY Fields DEF UpToDate, Target
  <2> QED BY <2>1, <2>2, NoneAssumption DEF CalmInv, StorageOK, Believable
<1> QED BY <1>1, <1>2, <1>3, PTL DEF Spec
-----------------------------------------------------------------------------
(* After an unpairing that nothing carried around, no copy of the stored    *)
(* state that a handler holds has a snapshot, and none is being fetched.    *)
FreedInv ==
    freed =>
        /\ ~ paired
        /\ Quiet
        /\ recompute.pc = "write" => recompute.state.snapshot = None
        /\ boot.pc = "write" => boot.state.snapshot = None

(* The state that goes with the removal of the rules has no snapshot.       *)
ForgetsInv == recompute.pc \in {"remove", "forget"} => recompute.state.snapshot = None

LEMMA ForgetsKept ==
    ASSUME TypeOK, ForgetsInv, [Next]_vars
    PROVE  ForgetsInv'
<1> USE DEF ForgetsInv
<1>1. CASE UNCHANGED recompute
  BY <1>1
<1>2. CASE RecomputeReads
  BY <1>2 DEF RecomputeReads, paired, Idle
<1>3. CASE RecomputeRemoves
  <2>1. recompute \in [pc : {"remove", "forget", "write"}, state : Stored]
    BY <1>3 DEF RecomputeRemoves, TypeOK, Recomputes, Idle
  <2> QED BY <1>3, <2>1 DEF RecomputeRemoves, Idle
<1>4. CASE RecomputeInstalls
  <2>1. recompute \in [pc : {"install", "reread"}, target : Rulesets, snapshot : Snapshots]
    BY <1>4 DEF RecomputeInstalls, TypeOK, Recomputes, Idle
  <2> QED BY <1>4, <2>1 DEF RecomputeInstalls
<1>5. CASE RecomputeForgets \/ RecomputeFails \/ RecomputeRereads \/ RecomputeWrites \/ Kill \/ Restart
  BY <1>5 DEF RecomputeForgets, RecomputeFails, RecomputeRereads, RecomputeWrites, Kill, Restart,
              Ended, Idle
<1>6. CASE BootStep \/ Unpair \/ Tick \/ EditPolicy \/ Boundary \/ UNCHANGED vars
  BY <1>1, <1>6 DEF BootStep, BootReads, BootWrites, BootSyncs, Unpair, Tick, EditPolicy, Boundary,
                    vars, worker
<1>7. CASE \E s \in Syncs : Refresh(s) \/ PopupSync(s) \/ SyncStep(s)
  BY <1>1, <1>7 DEF Refresh, PopupSync, SyncStep, FetchSucceeds, FetchFails, ApplyReads, ApplyStores,
                    SyncEnds, TabFails, SyncCatches
<1> QED
  BY <1>2, <1>3, <1>4, <1>5, <1>6, <1>7 DEF Next, recomputeRulesNow

LEMMA FreedKept ==
    ASSUME TypeOK, TypeOK', FreedInv, ForgetsInv, [Next]_vars
    PROVE  FreedInv'
<1> USE DEF FreedInv, paired, Quiet
<1>1. ASSUME NEW s \in Syncs, SyncStep(s) PROVE FreedInv'
  <2>1. sync[s] # Idle
    BY <1>1, SyncFields DEF SyncStep, FetchSucceeds, FetchFails, ApplyReads, ApplyStores, SyncEnds,
                        TabFails, SyncCatches
  <2>2. ~ freed /\ ~ freed'
    BY <1>1, <2>1 DEF SyncStep, FetchSucceeds, FetchFails, ApplyReads, ApplyStores, SyncEnds, TabFails,
                  SyncCatches
  <2> QED BY <2>2
<1>2. ASSUME NEW s \in Syncs, Refresh(s) \/ PopupSync(s) \/ BootSyncs(s) PROVE FreedInv'
  <2>1. CASE freed'
    <3>1. freed /\ ~ PopupSync(s)
      BY <1>2, <2>1 DEF Refresh, PopupSync, BootSyncs
    <3>2. ~ Refresh(s)
      BY <3>1 DEF Refresh, SyncReads
    <3>3. BootSyncs(s)
      BY <1>2, <3>1, <3>2
    <3>4. UNCHANGED <<storage, recompute, sync>> /\ boot'.pc = "idle"
      BY <3>1, <3>3 DEF BootSyncs, browser, Idle
    <3> QED BY <3>1, <3>4
  <2> QED BY <2>1
<1>3. CASE RecomputeReads
  <2>1. ASSUME freed PROVE recompute' = [pc |-> "remove", state |-> storage]
    BY <1>3, <2>1 DEF RecomputeReads
  <2> QED BY <1>3, <2>1 DEF RecomputeReads, browser
<1>4. CASE RecomputeRemoves \/ RecomputeInstalls
  <2>1. recompute'.pc # "write"
    <3>1. recompute \in [pc : {"remove", "forget", "write"}, state : Stored]
             \/ recompute \in [pc : {"install", "reread"}, target : Rulesets, snapshot : Snapshots]
      BY <1>4 DEF RecomputeRemoves, RecomputeInstalls, TypeOK, Recomputes, Idle
    <3> QED BY <1>4, <3>1 DEF RecomputeRemoves, RecomputeInstalls, Idle
  <2> QED BY <1>4, <2>1 DEF RecomputeRemoves, RecomputeInstalls
<1>5. CASE RecomputeForgets \/ RecomputeWrites
  <2>1. /\ recompute.state \in Stored
        /\ recompute'.pc = "idle" /\ UNCHANGED <<sync, boot, freed>>
        /\ freed => recompute.state.snapshot = None
    BY <1>5, RecomputeFields DEF ForgetsInv, RecomputeForgets, RecomputeWrites, Idle
  <2>2. storage'.snapshot = recompute.state.snapshot
    BY <1>5, <2>1 DEF RecomputeForgets, RecomputeWrites, setState, Stored
  <2> QED BY <2>1, <2>2
<1>6. CASE RecomputeRereads
  <2>1. recompute'.state.snapshot = storage.snapshot
    BY <1>6 DEF RecomputeRereads, TypeOK, Stored
  <2> QED BY <1>6, <2>1 DEF RecomputeRereads, browser
<1>7. CASE RecomputeFails
  <2>1. freed => sync' = sync
    <3> SUFFICES ASSUME freed PROVE sync' = sync
      OBVIOUS
    <3>1. {s \in Syncs : sync[s].pc = "settle"} = {}
      BY DEF Idle
    <3> QED BY <1>7, <3>1 DEF RecomputeFails, TypeOK
  <2> QED BY <1>7, <2>1 DEF RecomputeFails, browser, Idle
<1>8. CASE BootReads
  <2>1. boot'.pc = "write" => boot'.state.snapshot = storage.snapshot
    BY <1>8 DEF BootReads, TypeOK, Stored, Idle
  <2> QED BY <1>8, <2>1 DEF BootReads, browser
<1>9. CASE BootWrites
  BY <1>9 DEF BootWrites, setState, Idle
<1>10. CASE Unpair
  <2>1. storage'.snapshot = None /\ UNCHANGED <<sync, boot, recompute>>
    BY <1>10 DEF Unpair, setState
  <2>2. CASE freed
    BY <2>1, <2>2
  <2>3. CASE ~ freed /\ freed'
    <3>1. ~ Carrying
      BY <1>10, <2>3 DEF Unpair
    <3>2. recompute.pc # "write" /\ boot.pc # "write" /\ Quiet
      BY <3>1 DEF Carrying
    <3> QED BY <2>1, <3>2
  <2> QED BY <2>2, <2>3
<1>11. CASE Tick \/ EditPolicy \/ Boundary \/ UNCHANGED vars
  <2>1. UNCHANGED <<storage, recompute, sync, boot, freed>>
    BY <1>11 DEF Tick, EditPolicy, Boundary, vars, browser, worker
  <2> QED BY <2>1
<1>12. CASE Kill \/ Restart
  <2>1. /\ UNCHANGED <<storage, freed>>
        /\ recompute'.pc = "idle" /\ boot'.pc # "write"
        /\ \A s \in Syncs : sync'[s] = Idle
    BY <1>12 DEF Kill, Restart, Ended, browser, Idle
  <2> QED BY <2>1
<1> QED
  BY <1>1, <1>2, <1>3, <1>4, <1>5, <1>6, <1>7, <1>8, <1>9, <1>10, <1>11, <1>12
     DEF Next, recomputeRulesNow, BootStep

(* An unpairing is undone only by a handler that held a state when it was   *)
(* asked for, or by the popup.                                              *)
THEOREM UnpairingHolds == Spec => []UnpairingIsKept
<1>1. Init => TypeOK /\ ForgetsInv /\ FreedInv
  <2>1. Init => ForgetsInv
    BY DEF Init, ForgetsInv, Idle
  <2>2. Init => FreedInv
    BY DEF Init, FreedInv
  <2> QED BY <2>1, <2>2, InitTypes
<1>2. TypeOK /\ ForgetsInv /\ FreedInv /\ [Next]_vars => (TypeOK /\ ForgetsInv /\ FreedInv)'
  BY Types, ForgetsKept, FreedKept
<1>3. FreedInv => UnpairingIsKept
  BY DEF FreedInv, UnpairingIsKept
<1> QED BY <1>1, <1>2, <1>3, PTL DEF Spec
=============================================================================
