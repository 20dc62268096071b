------------------------- MODULE ControlPlaneProofs -------------------------
(***************************************************************************)
(* Proofs about ControlPlane, for any number of admin requests.            *)
(*                                                                         *)
(* The properties of the admin API rest on one inductive invariant,        *)
(* AdminInv: Server.mu is exclusive, and the phase of the request that     *)
(* holds it says how far the file, the store and the administrative copy   *)
(* are apart.                                                              *)
(***************************************************************************)
EXTENDS ControlPlane, TLAPS

(* What an accepted configuration becomes when it is normalised: a          *)
(* configuration with the same changes in it.                               *)
LEMMA NormalizedKeepsChanges ==
    ASSUME NEW c \in Configs, accepted(c)
    PROVE  /\ normalized(c) \in Configs
           /\ changes(normalized(c)) = changes(c)
BY ListsAssumption, NormalizeAssumption
   DEF Configs, accepted, normalized, changes

(* A configuration with one more change in it.                              *)
LEMMA AskedAddsOne ==
    ASSUME NEW c \in Configs, NEW r \in Changes
    PROVE  /\ asked(c, r) \in Configs
           /\ changes(asked(c, r)) = changes(c) \union {r}
BY ListsAssumption, AsksAssumption DEF Configs, asked, changes

(* What normalising leaves alone, it accepts.                               *)
LEMMA SettledIsAccepted ==
    ASSUME NEW c \in Configs, settled(c)
    PROVE  accepted(c)
BY ListsAssumption DEF Configs, settled, accepted, normalized

(* No change is in the installed configuration.                             *)
LEMMA InstalledIsEmpty ==
    /\ Installed \in Configs
    /\ changes(Installed) = {}
BY DEF Installed, Configs, changes

(* The mutex is exclusive and only a running process holds it. *)
Exclusion ==
    /\ \A r, s \in Requests :
          phase[r] \in Critical /\ phase[s] \in Critical => r = s
    /\ \A r \in Requests : phase[r] \in Critical => Up

(* The two copies in memory agree, and the file says the same as far as its *)
(* lists are settled.                                                       *)
Agreement == store = config /\ (settled(disk) => disk = config)

(* Where the three copies are while request r holds the mutex. *)
Progress(r) ==
    /\ phase[r] = "validated" =>
          Agreement /\ changes(next[r]) = changes(config) \union {r}
    /\ phase[r] = "written" =>
          disk = next[r] /\ store = config
    /\ phase[r] = "published" =>
          /\ accepted(disk)
          /\ next[r] = normalized(disk) /\ store = next[r]
    /\ phase[r] \in {"written", "published"} =>
          changes(disk) = changes(config) \union {r}

(* A change is in the file only if its request got as far as the rename,    *)
(* and if Replace failed after it the file is one that NewStore refuses.    *)
Traced ==
    \A r \in Requests :
        r \in changes(disk) =>
            \/ phase[r] \in {"written", "published", "acked", "lost"}
            \/ phase[r] = "rejected" /\ ~accepted(disk)

(* A change is in the administrative copy only after its request ended      *)
(* without an error.                                                        *)
ConfigTraced ==
    Up => \A r \in Requests :
              r \in changes(config) => phase[r] \in {"acked", "lost"}

(* The administrative copy and the served policy hold nothing else than the *)
(* file, as sets of changes.                                                *)
Covered ==
    Up => /\ changes(config) \subseteq changes(disk)
          /\ changes(store) \subseteq changes(disk)

(* What the file has and the administrative copy has not is the change under *)
(* way, or one that a failed Replace left behind.                           *)
LeftBehind ==
    Up => \A x \in changes(disk) \ changes(config) :
              /\ x \in Requests
              /\ phase[x] \in {"written", "published", "rejected"}

(* What was answered with success is in the administrative copy too.        *)
AckedEverywhere ==
    \A r \in Requests :
        phase[r] = "acked" =>
            /\ r \in changes(disk)
            /\ Up => r \in changes(config) /\ r \in changes(store)

AdminInv ==
    /\ TypeOK
    /\ disk \in Configs
    /\ config = NoConfig <=> store = NoConfig
    /\ Up /\ MutexFree => Agreement
    /\ Exclusion
    /\ \A r \in Requests : Progress(r)
    /\ Covered
    /\ LeftBehind
    /\ AckedEverywhere
    /\ Traced
    /\ ConfigTraced

USE BrokenAssumption, NoConfigAssumption

(* The process starts with its three copies equal and no request under way. *)
LEMMA AdminInvInit == Init => AdminInv
BY InstalledIsEmpty
   DEF Init, AdminInv, TypeOK, Up, Critical, Phases, Exclusion, Agreement,
       Progress, Covered, LeftBehind, AckedEverywhere, Traced, ConfigTraced

(* Every step of the admin API, a crash and a restart keep AdminInv.        *)
LEMMA AdminInvStep == AdminInv /\ [AdminNext]_vars => AdminInv'
<1> SUFFICES ASSUME AdminInv, [AdminNext]_vars PROVE AdminInv'
  OBVIOUS
<1> USE DEF AdminInv, TypeOK, Up, Critical, Phases, Exclusion, Progress,
        Covered, LeftBehind, AckedEverywhere, Traced, ConfigTraced, MutexFree
<1>1. ASSUME NEW r \in Requests, Validate(r) PROVE AdminInv'
  <2> USE <1>1 DEF Validate, At, reloadVars
  <2>1. Agreement /\ config \in Configs
    OBVIOUS
  <2>2. /\ next'[r] \in Configs
        /\ changes(next'[r]) = changes(config) \union {r}
    BY <2>1, AskedAddsOne, NormalizedKeepsChanges DEF Changes
  <2>3. next' \in [Requests -> Configs]
    BY <2>2
  <2>4. \A s \in Requests : s # r => phase'[s] \notin Critical
    OBVIOUS
  <2>5. Agreement'
    BY <2>1 DEF Agreement
  <2>6. \A s \in Requests : Progress(s)'
    BY <2>2, <2>4, <2>5
  <2> QED
    BY <2>3, <2>4, <2>6
<1>2. ASSUME NEW r \in Requests, Refuse(r) PROVE AdminInv'
  BY <1>2 DEF Refuse, At, reloadVars, Agreement
<1>3. ASSUME NEW r \in Requests, WriteAtomic(r) PROVE AdminInv'
  <2> USE <1>3 DEF WriteAtomic, At, reloadVars
  <2>1. /\ disk' = next[r] /\ disk' \in Configs
        /\ changes(disk') = changes(config) \union {r}
        /\ store = config
    BY DEF Agreement
  <2>2. \A s \in Requests : s # r => phase[s] \notin Critical
    OBVIOUS
  <2>3. \A s \in Requests : Progress(s)'
    BY <2>1, <2>2
  <2>4. Covered' /\ AckedEverywhere'
    BY <2>1
  <2>5. Traced' /\ ConfigTraced'
    BY <2>1
  <2> QED
    BY <2>1, <2>2, <2>3, <2>4, <2>5
<1>4. ASSUME NEW r \in Requests, WriteFails(r) PROVE AdminInv'
  <2> USE <1>4 DEF WriteFails, At, reloadVars
  <2>1. Agreement'
    BY DEF Agreement
  <2>2. r \notin changes(disk)
    OBVIOUS
  <2> QED
    BY <2>1, <2>2
<1>5. ASSUME NEW r \in Requests, Replace(r) PROVE AdminInv'
  <2> USE <1>5 DEF Replace, At, reloadVars
  <2>1. /\ disk = next[r] /\ accepted(disk)
        /\ store' = normalized(disk) /\ next'[r] = normalized(disk)
        /\ store' \in Configs /\ changes(store') = changes(disk)
    BY NormalizedKeepsChanges
  <2>2. \A s \in Requests : s # r => phase[s] \notin Critical
    OBVIOUS
  <2>3. \A s \in Requests : Progress(s)'
    BY <2>1, <2>2
  <2>4. TypeOK'
    BY <2>1
  <2>5. AckedEverywhere' /\ Covered'
    BY <2>1
  <2> QED
    BY <2>1, <2>2, <2>3, <2>4, <2>5
<1>6. ASSUME NEW r \in Requests, ReplaceFails(r) PROVE AdminInv'
  <2> USE <1>6 DEF ReplaceFails, At, reloadVars
  <2>1. disk = next[r] /\ ~accepted(disk) /\ store = config
    OBVIOUS
  <2>2. Agreement'
    BY <2>1, SettledIsAccepted DEF Agreement
  <2>3. r \notin changes(config)
    OBVIOUS
  <2> QED
    BY <2>1, <2>2, <2>3
<1>7. ASSUME NEW r \in Requests, Finish(r) PROVE AdminInv'
  <2> USE <1>7 DEF Finish, At, reloadVars
  <2>1. /\ config' = normalized(disk) /\ store = config'
        /\ config' \in Configs /\ changes(config') = changes(disk)
        /\ r \in changes(disk) /\ accepted(disk)
    BY NormalizedKeepsChanges
  <2>2. Agreement'
    BY <2>1 DEF Agreement, settled
  <2>3. \A s \in Requests : phase'[s] \notin Critical
    OBVIOUS
  <2>4. ConfigTraced'
    BY <2>1
  <2> QED
    BY <2>1, <2>2, <2>3, <2>4
<1>8. CASE Crash
  BY <1>8 DEF Crash
<1>9. CASE Restart
  <2> USE <1>9 DEF Restart, reloadVars
  <2>1. accepted(disk) /\ accepted(normalized(disk))
    BY DEF starts, loads
  <2>2. /\ config' = normalized(normalized(disk)) /\ store' = config'
        /\ config' \in Configs /\ changes(config') = changes(disk)
    BY <2>1, NormalizedKeepsChanges
  <2>3. \A r \in Requests : phase[r] \notin Critical
    OBVIOUS
  <2>4. Agreement'
    BY <2>2 DEF Agreement, settled
  <2> QED
    BY <2>1, <2>2, <2>3, <2>4
<1>10. CASE UNCHANGED vars \/ RestartFails
  BY <1>10 DEF vars, RestartFails, Agreement
<1> QED
  BY <1>1, <1>2, <1>3, <1>4, <1>5, <1>6, <1>7, <1>8, <1>9, <1>10
     DEF AdminNext, UpdateNext

(* The strengthened invariant of the admin API holds in every state.        *)
THEOREM AdminInvariant == AdminSpec => []AdminInv
BY AdminInvInit, AdminInvStep, PTL DEF AdminSpec

(* Whenever no update holds Server.mu, Server.config and the policy store   *)
(* agree, and the file with them unless it holds a list that normalising    *)
(* changes; for any number of concurrent requests and crashes, and whatever *)
(* normalising does to a list.                                              *)
THEOREM CopiesAgree == AdminSpec => []QuiescentAgreement
<1>1. AdminInv => QuiescentAgreement
  BY DEF AdminInv, QuiescentAgreement, Agreement
<1> QED
  BY <1>1, AdminInvariant, PTL

(* The DNS side never enforces a change that is not in the file.            *)
THEOREM NothingServedBeforeDurable == AdminSpec => []ServedIsDurable
<1>1. AdminInv => ServedIsDurable
  BY DEF AdminInv, Covered, ServedIsDurable
<1> QED
  BY <1>1, AdminInvariant, PTL

(* A change answered with success is never lost.                            *)
THEOREM AckedSurvives == AdminSpec => []AckedIsKept
<1>1. AdminInv => AckedIsKept
  BY DEF AdminInv, AckedEverywhere, AckedIsKept
<1> QED
  BY <1>1, AdminInvariant, PTL

(* A change answered with an error never takes effect, on any error path of *)
(* update: it reaches neither copy in memory, and the file does not load as *)
(* long as it is left there.                                                *)
THEOREM RefusedIsPowerless == AdminSpec => []RefusedNeverTakesEffect
<1>1. AdminInv => RefusedNeverTakesEffect
  <2> SUFFICES ASSUME AdminInv, NEW r \in Requests, phase[r] = "rejected"
               PROVE  /\ Up => r \notin changes(config) \union changes(store)
                      /\ r \in changes(disk) => ~loads(disk)
    BY DEF RefusedNeverTakesEffect
  <2>1. r \in changes(disk) => ~loads(disk)
    BY DEF AdminInv, Traced, loads
  <2>2. ASSUME Up PROVE r \notin changes(config)
    BY <2>2 DEF AdminInv, ConfigTraced
  <2>3. ASSUME Up, r \in changes(store) PROVE FALSE
    <3>1. CASE MutexFree
      BY <2>2, <2>3, <3>1 DEF AdminInv, Agreement
    <3>2. CASE ~MutexFree
      <4>1. PICK s \in Requests : phase[s] \in Critical
        BY <3>2 DEF MutexFree
      <4>2. phase[s] = "published"
        BY <2>2, <2>3, <4>1 DEF AdminInv, Progress, Agreement, Critical
      <4>3. accepted(disk) /\ r \in changes(disk)
        BY <2>3, <4>2 DEF AdminInv, Progress, Covered
      <4> QED
        BY <4>3 DEF AdminInv, Traced
    <3> QED
      BY <3>1, <3>2
  <2> QED
    BY <2>1, <2>2, <2>3
<1> QED
  BY <1>1, AdminInvariant, PTL

-----------------------------------------------------------------------------
(* The admin API implements DurablePolicy: the rename is its commit point,  *)
(* Replace makes the commit visible, Finish reports it, and the three error *)
(* returns of update refuse.                                                *)

(* The installed configuration is the initial one of DurablePolicy.         *)
LEMMA RefinementInit == Init => Durable!Init
BY InstalledIsEmpty DEF Init, Durable!Init, Up

(* Each step of the admin API is a step of DurablePolicy or leaves its      *)
(* variables alone.                                                         *)
LEMMA RefinementStep ==
    AdminInv /\ [AdminNext]_vars => [Durable!Next]_(Durable!vars)
<1> SUFFICES ASSUME AdminInv, [AdminNext]_vars
             PROVE  [Durable!Next]_(Durable!vars)
  OBVIOUS
<1> DEFINE Answered == {r \in Requests : phase[r] = "acked"}
           Rejected == {r \in Requests : phase[r] = "rejected"}
<1> USE DEF AdminInv, TypeOK, At, Up, Durable!vars, Durable!Running
<1>0. changes(store) # NoConfig /\ changes(config) # NoConfig
  BY DEF changes
<1>1. ASSUME NEW r \in Requests, Validate(r) PROVE UNCHANGED Durable!vars
  <2>1. Answered' = Answered /\ Rejected' = Rejected
    BY <1>1 DEF Validate
  <2> QED
    BY <1>1, <2>1 DEF Validate
<1>2. ASSUME NEW r \in Requests, Refuse(r) PROVE Durable!Refuse(r)
  <2>1. Answered' = Answered /\ Rejected' = Rejected \union {r}
    BY <1>2 DEF Refuse
  <2>2. r \notin changes(store) \union Answered
    BY <1>2 DEF Refuse, Agreement, ConfigTraced
  <2> QED
    BY <1>0, <1>2, <2>1, <2>2 DEF Refuse, Durable!Refuse
<1>3. ASSUME NEW r \in Requests, WriteAtomic(r) PROVE Durable!Commit(r)
  <2>1. Answered' = Answered /\ Rejected' = Rejected
    BY <1>3 DEF WriteAtomic
  <2>2. config # NoConfig /\ store = config
    BY <1>3 DEF WriteAtomic, Progress, Agreement, Exclusion, Critical
  <2>3. changes(disk)' = changes(store) \union {r}
    BY <1>3, <2>2 DEF WriteAtomic, Progress
  <2>4. r \notin changes(disk) \union Rejected
    BY <1>3 DEF WriteAtomic, Traced
  <2>5. changes(disk) \ changes(store) \subseteq Rejected
    BY <1>3, <2>2 DEF WriteAtomic, LeftBehind, Exclusion, Critical
  <2> QED
    BY <1>0, <1>3, <2>1, <2>2, <2>3, <2>4, <2>5 DEF WriteAtomic, Durable!Commit
<1>4. ASSUME NEW r \in Requests, WriteFails(r) PROVE Durable!Refuse(r)
  <2>1. Answered' = Answered /\ Rejected' = Rejected \union {r}
    BY <1>4 DEF WriteFails
  <2>2. config # NoConfig /\ store = config
    BY <1>4 DEF WriteFails, Progress, Agreement, Exclusion, Critical
  <2>3. r \notin changes(store) \union Answered
    BY <1>4, <2>2 DEF WriteFails, ConfigTraced
  <2> QED
    BY <1>0, <1>4, <2>1, <2>2, <2>3 DEF WriteFails, Durable!Refuse
<1>5. ASSUME NEW r \in Requests, Replace(r) PROVE Durable!Serve
  <2>1. Answered' = Answered /\ Rejected' = Rejected
    BY <1>5 DEF Replace
  <2>2. /\ store # NoConfig /\ store' = normalized(disk)
        /\ disk \in Configs /\ accepted(disk)
    BY <1>5 DEF Replace, Progress, Exclusion, Critical
  <2>3. changes(store)' = changes(disk)
    BY <2>2, NormalizedKeepsChanges
  <2>4. changes(disk) \intersect Rejected = {}
    BY <2>2 DEF Traced
  <2> QED
    BY <1>0, <1>5, <2>1, <2>2, <2>3, <2>4 DEF Replace, Durable!Serve
<1>6. ASSUME NEW r \in Requests, ReplaceFails(r) PROVE Durable!Refuse(r)
  <2>1. Answered' = Answered /\ Rejected' = Rejected \union {r}
    BY <1>6 DEF ReplaceFails
  <2>2. config # NoConfig /\ store = config
    BY <1>6 DEF ReplaceFails, Progress, Exclusion, Critical
  <2>3. r \notin changes(store) \union Answered
    BY <1>6, <2>2 DEF ReplaceFails, ConfigTraced
  <2> QED
    BY <1>0, <1>6, <2>1, <2>2, <2>3 DEF ReplaceFails, Durable!Refuse
<1>7. ASSUME NEW r \in Requests, Finish(r) PROVE Durable!Answer(r)
  <2>1. Answered' = Answered \union {r} /\ Rejected' = Rejected
    BY <1>7 DEF Finish
  <2>2. /\ disk \in Configs /\ accepted(disk)
        /\ store = normalized(disk) /\ store # NoConfig
        /\ r \in changes(disk) /\ next[r] = store /\ next[r] # NoConfig
    BY <1>7 DEF Finish, Progress, Exclusion, Critical
  <2>3. changes(store) = changes(disk)
    BY <2>2, NormalizedKeepsChanges
  <2>4. r \notin Rejected
    BY <1>7 DEF Finish
  <2>5. config # NoConfig
    BY <2>2
  <2> QED
    BY <1>7, <2>1, <2>2, <2>3, <2>4, <2>5 DEF Finish, Durable!Answer
<1>8. ASSUME Crash PROVE Durable!Stop
  <2>1. Answered' = Answered /\ Rejected' = Rejected
    BY <1>8 DEF Crash, Critical
  <2> QED
    BY <1>8, <2>1 DEF Crash, Durable!Stop
<1>9. ASSUME Restart PROVE Durable!Start
  <2>1. Answered' = Answered /\ Rejected' = Rejected
    BY <1>9 DEF Restart
  <2>2. /\ accepted(disk) /\ accepted(normalized(disk))
        /\ store' = normalized(normalized(disk))
        /\ config' = normalized(normalized(disk))
    BY <1>9 DEF Restart, starts, loads
  <2>3. changes(store)' = changes(disk) /\ config' \in Configs
    BY <2>2, NormalizedKeepsChanges
  <2>4. changes(disk) \intersect Rejected = {}
    BY <2>2 DEF Traced
  <2> QED
    BY <1>9, <2>1, <2>2, <2>3, <2>4 DEF Restart, Durable!Start
<1>10. ASSUME UNCHANGED vars \/ RestartFails PROVE UNCHANGED Durable!vars
  BY <1>10 DEF vars, RestartFails
<1> QED
  BY <1>1, <1>2, <1>3, <1>4, <1>5, <1>6, <1>7, <1>8, <1>9, <1>10
     DEF AdminNext, UpdateNext, Durable!Next

(* The admin API, with its file, mutex, copies, failures and crashes,       *)
(* behaves for its callers and for DNS as one durable set of changes.       *)
THEOREM AdminRefinesDurablePolicy == AdminSpec => ImplementsDurablePolicy
<1>1. AdminSpec => []AdminInv
  BY AdminInvariant
<1> QED
  BY <1>1, RefinementInit, RefinementStep, PTL
     DEF AdminSpec, ImplementsDurablePolicy, Durable!Spec

-----------------------------------------------------------------------------
(* The whole process, with the SIGHUP path and the operator.  Much less     *)
(* holds of it; what does is that Server.mu protects the administrative     *)
(* copy, and that only files that load reach memory.                        *)

ProcessInv ==
    /\ TypeOK
    /\ config = NoConfig <=> store = NoConfig
    /\ Exclusion
    /\ CriticalSectionIsolated

(* Nothing holds the mutex and nothing is loaded when the process starts.   *)
LEMMA ProcessInvInit == Init => ProcessInv
BY InstalledIsEmpty
   DEF Init, ProcessInv, TypeOK, Phases, Exclusion, Critical,
       CriticalSectionIsolated, Up

(* Requests, signals, edits of the file, crashes and restarts keep the      *)
(* invariant of the whole process.                                          *)
LEMMA ProcessInvStep == ProcessInv /\ [Next]_vars => ProcessInv'
<1> SUFFICES ASSUME ProcessInv, [Next]_vars PROVE ProcessInv'
  OBVIOUS
<1> USE DEF ProcessInv, TypeOK, Phases, Exclusion, Critical,
        CriticalSectionIsolated, Up, At, adminVars, reloadVars
<1>1. ASSUME NEW r \in Requests, Validate(r) PROVE ProcessInv'
  <2>1. normalized(asked(config, r)) \in Configs
    BY <1>1, AskedAddsOne, NormalizedKeepsChanges DEF Validate, Changes
  <2> QED
    BY <1>1, <2>1 DEF Validate, MutexFree
<1>2. ASSUME NEW r \in Requests, Refuse(r) PROVE ProcessInv'
  BY <1>2 DEF Refuse
<1>3. ASSUME NEW r \in Requests, WriteAtomic(r) PROVE ProcessInv'
  BY <1>3 DEF WriteAtomic
<1>4. ASSUME NEW r \in Requests, WriteFails(r) PROVE ProcessInv'
  BY <1>4 DEF WriteFails
<1>5. ASSUME NEW r \in Requests, Replace(r) PROVE ProcessInv'
  <2>1. normalized(next[r]) \in Configs
    BY <1>5, NormalizedKeepsChanges DEF Replace
  <2> QED
    BY <1>5, <2>1 DEF Replace
<1>6. ASSUME NEW r \in Requests, ReplaceFails(r) PROVE ProcessInv'
  BY <1>6 DEF ReplaceFails
<1>7. ASSUME NEW r \in Requests, Finish(r) PROVE ProcessInv'
  BY <1>7 DEF Finish
<1>8. CASE Crash
  BY <1>8 DEF Crash
<1>9. CASE Restart
  <2>1. normalized(normalized(disk)) \in Configs
    BY <1>9, NormalizedKeepsChanges DEF Restart, starts, loads
  <2> QED
    BY <1>9, <2>1 DEF Restart
<1>10. CASE ReloadNext
  <2>1. CASE Sighup
    BY <2>1 DEF Sighup
  <2>2. CASE ReloadLoad
    <3>1. normalized(disk) \in Configs
      BY <2>2, NormalizedKeepsChanges DEF ReloadLoad, loads
    <3> QED
      BY <2>2, <3>1 DEF ReloadLoad
  <2>3. CASE ReloadRefused
    BY <2>3 DEF ReloadRefused
  <2>4. CASE ReloadReplace
    <3>1. normalized(loaded) \in Configs
      BY <2>4, NormalizedKeepsChanges DEF ReloadReplace
    <3> QED
      BY <2>4, <3>1 DEF ReloadReplace
  <2>5. CASE ReloadReplaceFails
    BY <2>5 DEF ReloadReplaceFails
  <2>6. CASE ReloadAdopt
    BY <2>6 DEF ReloadAdopt, MutexFree
  <2> QED
    BY <1>10, <2>1, <2>2, <2>3, <2>4, <2>5, <2>6 DEF ReloadNext
<1>11. CASE OperatorNext
  <2>1. CASE OperatorOpens
    <3>1. normalized(disk) \in Configs
      BY <2>1, NormalizedKeepsChanges DEF OperatorOpens, loads
    <3> QED
      BY <2>1, <3>1 DEF OperatorOpens
  <2>2. ASSUME NEW e \in Edits, OperatorSaves(e) PROVE ProcessInv'
    <3>1. normalized(asked(opened, e)) \in Configs
      BY <2>2, AskedAddsOne, NormalizedKeepsChanges
         DEF OperatorSaves, Changes
    <3> QED
      BY <2>2, <3>1 DEF OperatorSaves
  <2>3. CASE OperatorBreaks
    BY <2>3 DEF OperatorBreaks
  <2> QED
    BY <1>11, <2>1, <2>2, <2>3 DEF OperatorNext
<1>12. CASE UNCHANGED vars \/ RestartFails
  BY <1>12 DEF vars, RestartFails
<1> QED
  BY <1>1, <1>2, <1>3, <1>4, <1>5, <1>6, <1>7, <1>8, <1>9, <1>10, <1>11, <1>12
     DEF Next, AdminNext, UpdateNext

(* The strengthened invariant of the whole process holds in every state.    *)
THEOREM ProcessInvariant == Spec => []ProcessInv
BY ProcessInvInit, ProcessInvStep, PTL DEF Spec

(* Type correctness of the whole process.                                   *)
THEOREM TypeCorrect == Spec => []TypeOK
<1>1. ProcessInv => TypeOK
  BY DEF ProcessInv
<1> QED
  BY <1>1, ProcessInvariant, PTL

(* No reload, signal or edit of the file changes Server.config between the  *)
(* clone and the assignment of an update.                                   *)
THEOREM UpdateIsIsolated == Spec => []CriticalSectionIsolated
<1>1. ProcessInv => CriticalSectionIsolated
  BY DEF ProcessInv
<1> QED
  BY <1>1, ProcessInvariant, PTL

(* A file that config.Load or Replace refuses never becomes the             *)
(* configuration or the policy.                                             *)
THEOREM BrokenFileIsHarmless == Spec => []BrokenFileNeverTakesEffect
<1>1. ProcessInv => BrokenFileNeverTakesEffect
  <2> SUFFICES ASSUME ProcessInv PROVE BrokenFileNeverTakesEffect
    OBVIOUS
  <2>1. Broken \notin {config, store}
    BY DEF ProcessInv, TypeOK
  <2>2. ASSUME Up, NEW x \in Changes
        PROVE  Refused \notin {config[x], store[x]}
    <3>1. config \in Configs /\ store \in Configs
      BY <2>2 DEF ProcessInv, TypeOK, Up
    <3> QED
      BY <2>2, <3>1, ListsAssumption DEF Configs
  <2> QED
    BY <2>1, <2>2 DEF BrokenFileNeverTakesEffect
<1> QED
  BY <1>1, ProcessInvariant, PTL
=============================================================================
