---------------------------- MODULE DigestProofs ----------------------------
(***************************************************************************)
(* Type correctness and the safety of the weekly digest, for any number of *)
(* houses and profiles, any interval and any number of crashes.            *)
(***************************************************************************)
EXTENDS Digest, TLAPS

USE DEF Counters, SendTimes, storeVars, schedulerVars, houseVars, historyVars

LEMMA WithoutType ==
    ASSUME NEW counters \in Counters, NEW h \in Houses
    PROVE  /\ Without(counters, h) \in Counters
           /\ \A p \in Profiles : HouseOf[p] = h => Without(counters, h)[p] = 0
           /\ \A p \in Profiles : HouseOf[p] # h => Without(counters, h)[p] = counters[p]
BY DEF Without, ProfilesOf

LEMMA SaveType ==
    ASSUME TypeOK, NEW h \in Houses, Save(h), entries' \in Counters, lastSentAt' \in SendTimes
    PROVE  /\ file' \in [entries : Counters, lastSentAt : SendTimes]
           /\ excused' \in SUBSET Houses
BY DEF TypeOK, Save

LEMMA SaveSaves ==
    ASSUME NEW h, Save(h)
    PROVE  \/ /\ file'.entries = entries' /\ file'.lastSentAt = lastSentAt'
              /\ excused' = excused
           \/ file' = file /\ excused' = excused \union {h}
BY DEF Save

LEMMA Types ==
    ASSUME TypeOK, [Next]_vars
    PROVE  TypeOK'
<1> USE HouseAssumption, TimeAssumption, CountAssumption
<1>1. ASSUME NEW p \in Profiles, Lookup(p) PROVE TypeOK'
  BY <1>1 DEF TypeOK, Lookup
<1>2. ASSUME NEW p \in Profiles, Write(p) PROVE TypeOK'
  <2>1. entries' \in Counters /\ written' \in Counters
    BY <1>2 DEF TypeOK, Write
  <2> QED BY <1>2, <2>1 DEF TypeOK, Write
<1>3. ASSUME Scan PROVE TypeOK'
  BY <1>3 DEF TypeOK, Scan
<1>4. ASSUME NEW h \in Houses, SkipHouse(h) PROVE TypeOK'
  BY <1>4 DEF TypeOK, SkipHouse
<1>5. ASSUME NEW h \in Houses, MakeReport(h) PROVE TypeOK'
  <2>1. report' \in Counters
    BY <1>5 DEF TypeOK, MakeReport
  <2> QED BY <1>5, <2>1 DEF TypeOK, MakeReport
<1>6. ASSUME Send PROVE TypeOK'
  <2>1. mailed' \in Counters /\ delivered' \in SendTimes
    BY <1>6 DEF TypeOK, Send
  <2> QED BY <1>6, <2>1 DEF TypeOK, Send
<1>7. ASSUME SendFails PROVE TypeOK'
  <2>1. excused' \in SUBSET Houses /\ report' \in Counters
    BY <1>7 DEF TypeOK, SendFails, NoCounters
  <2> QED BY <1>7, <2>1 DEF TypeOK, SendFails
<1>8. ASSUME CompleteDigest PROVE TypeOK'
  <2>1. entries' \in Counters /\ lastSentAt' \in SendTimes /\ report' \in Counters
    BY <1>8, WithoutType DEF TypeOK, CompleteDigest, NoCounters
  <2>2. file' \in [entries : Counters, lastSentAt : SendTimes] /\ excused' \in SUBSET Houses
    BY <1>8, <2>1, SaveType DEF CompleteDigest, TypeOK
  <2> QED BY <1>8, <2>1, <2>2 DEF TypeOK, CompleteDigest
<1>9. ASSUME EndScan PROVE TypeOK'
  BY <1>9 DEF TypeOK, EndScan, Instants
<1>10. ASSUME NEW h \in Houses, DeleteHouse(h) PROVE TypeOK'
  BY <1>10 DEF TypeOK, DeleteHouse
<1>11. ASSUME NEW h \in Houses, Forget(h) PROVE TypeOK'
  <2>1. entries' \in Counters /\ lastSentAt' \in SendTimes
    BY <1>11, WithoutType DEF TypeOK, Forget
  <2>2. file' \in [entries : Counters, lastSentAt : SendTimes] /\ excused' \in SUBSET Houses
    BY <1>11, <2>1, SaveType DEF Forget
  <2> QED BY <1>11, <2>1, <2>2 DEF TypeOK, Forget
<1>12. ASSUME Tick PROVE TypeOK'
  BY <1>12 DEF TypeOK, Tick, Instants
<1>13. ASSUME Crash PROVE TypeOK'
  <2>1. /\ entries' \in Counters /\ lastSentAt' \in SendTimes /\ report' \in Counters
        /\ crashes' \in 0 .. MaxCrashes /\ scanTime' \in Instants
    BY <1>13 DEF TypeOK, Crash, NoCounters, Instants
  <2>2. /\ deletion' \in [Houses -> {"none", "updated", "forgotten", "interrupted"}]
        /\ excused' \in SUBSET Houses
    BY <1>13 DEF TypeOK, Crash
  <2> QED BY <1>13, <2>1, <2>2 DEF TypeOK, Crash
<1>14. ASSUME UNCHANGED vars PROVE TypeOK'
  BY <1>14 DEF TypeOK, vars
<1> QED
  BY <1>1, <1>2, <1>3, <1>4, <1>5, <1>6, <1>7, <1>8, <1>9, <1>10, <1>11, <1>12, <1>13, <1>14
     DEF Next, Scheduler

LEMMA InitTypes ==
    ASSUME Init
    PROVE  TypeOK
BY HouseAssumption, TimeAssumption, CountAssumption
   DEF Init, TypeOK, NoCounters, NeverSent, Instants

(* Type correctness of the digest. *)
THEOREM TypeCorrect == Spec => []TypeOK
<1>1. Init => TypeOK
  BY InitTypes
<1>2. TypeOK /\ [Next]_vars => TypeOK'
  BY Types
<1> QED BY <1>1, <1>2, PTL DEF Spec

-----------------------------------------------------------------------------
(* The digest of p's house has been sent and is not on record yet.          *)
Unrecorded(h) == stage = "sent" /\ house = h

(* What is told once.  Between the delivery of a digest and its record the  *)
(* counters still hold what it told; until it is delivered, what the report *)
(* holds is part of them.                                                   *)
ToldOnce ==
    \A p \in Profiles :
        HouseOf[p] \notin excused =>
            /\ mailed[p] <= written[p]
            /\ ~ Unrecorded(HouseOf[p]) =>
                  /\ mailed[p] + entries[p] <= written[p]
                  /\ mailed[p] + file.entries[p] <= written[p]
            /\ stage = "reported" /\ house = HouseOf[p] => mailed[p] + report[p] <= written[p]

(* A report is about one house. *)
OneHouse ==
    stage = "reported" => \A p \in Profiles : HouseOf[p] # house => report[p] = 0

(* The record of the last digest is right, in memory and in the file, but   *)
(* between its delivery and its record; what is reported is due.            *)
RecordsAreRight ==
    /\ \A h \in registered \ excused :
          /\ delivered[h] # Never /\ ~ Unrecorded(h) =>
                lastSentAt[h] = delivered[h] /\ file.lastSentAt[h] = delivered[h]
          /\ stage = "reported" /\ house = h => IsDue(h, scanTime)
    /\ stage = "sent" => delivered[house] = scanTime

(* A house that is being deleted has left the configuration, so nothing     *)
(* more is looked up for it.                                                *)
DeletedAreGone == \A h \in Houses : deletion[h] # "none" => h \notin registered

InFlight(p) == IF p \in inFlight THEN 1 ELSE 0

FewSurvive ==
    \A p \in Profiles :
        HouseOf[p] \notin excused /\ deletion[HouseOf[p]] = "forgotten" =>
            /\ entries[p] + InFlight(p) <= 1
            /\ file.entries[p] + InFlight(p) <= 1

IInv == TypeOK /\ ToldOnce /\ OneHouse /\ RecordsAreRight /\ DeletedAreGone /\ FewSurvive

(* What the types say of one profile. *)
LEMMA CountTypes ==
    ASSUME TypeOK, NEW p \in Profiles
    PROVE  /\ entries[p] \in Nat /\ file.entries[p] \in Nat /\ report[p] \in Nat
           /\ written[p] \in Nat /\ mailed[p] \in Nat /\ HouseOf[p] \in Houses
BY HouseAssumption DEF TypeOK

LEMMA ToldOnceKept ==
    ASSUME IInv, TypeOK', [Next]_vars
    PROVE  ToldOnce' /\ OneHouse'
<1> USE DEF IInv
<1> SUFFICES ASSUME NEW p \in Profiles
             PROVE  /\ HouseOf[p] \notin excused' =>
                         /\ mailed'[p] <= written'[p]
                         /\ ~ (stage' = "sent" /\ house' = HouseOf[p]) =>
                               /\ mailed'[p] + entries'[p] <= written'[p]
                               /\ mailed'[p] + file'.entries[p] <= written'[p]
                         /\ stage' = "reported" /\ house' = HouseOf[p] =>
                               mailed'[p] + report'[p] <= written'[p]
                    /\ stage' = "reported" /\ HouseOf[p] # house' => report'[p] = 0
  BY DEF ToldOnce, OneHouse, Unrecorded
<1>0. /\ entries[p] \in Nat /\ file.entries[p] \in Nat /\ report[p] \in Nat
      /\ written[p] \in Nat /\ mailed[p] \in Nat /\ HouseOf[p] \in Houses
  BY CountTypes
<1>a. /\ HouseOf[p] \notin excused =>
           /\ mailed[p] <= written[p]
           /\ ~ (stage = "sent" /\ house = HouseOf[p]) =>
                 /\ mailed[p] + entries[p] <= written[p]
                 /\ mailed[p] + file.entries[p] <= written[p]
           /\ stage = "reported" /\ house = HouseOf[p] => mailed[p] + report[p] <= written[p]
      /\ stage = "reported" /\ HouseOf[p] # house => report[p] = 0
  BY DEF ToldOnce, OneHouse, Unrecorded
<1>1. CASE \E q \in Profiles : Lookup(q)
  BY <1>1, <1>a DEF Lookup
<1>2. CASE \E q \in Profiles : Write(q)
  <2>1. PICK q \in Profiles : Write(q)
    BY <1>2
  <2>2. /\ entries'[p] = entries[p] + (IF p = q THEN 1 ELSE 0)
        /\ written'[p] = written[p] + (IF p = q THEN 1 ELSE 0)
    BY <1>0, <2>1 DEF Write, TypeOK
  <2>3. UNCHANGED <<file, mailed, excused, stage, house, report>>
    BY <2>1 DEF Write
  <2> QED BY <1>0, <1>a, <2>2, <2>3
<1>3. CASE Scan \/ EndScan \/ \E h \in Houses : SkipHouse(h) \/ DeleteHouse(h)
  BY <1>0, <1>3, <1>a DEF Scan, EndScan, SkipHouse, DeleteHouse
<1>4. CASE \E h \in Houses : MakeReport(h)
  <2>1. PICK h \in Houses : MakeReport(h)
    BY <1>4
  <2>2. report'[p] = IF HouseOf[p] = h THEN entries[p] ELSE 0
    BY <2>1 DEF MakeReport, ProfilesOf
  <2>3. /\ UNCHANGED <<entries, file, written, mailed, excused>>
        /\ stage = "scanning" /\ stage' = "reported" /\ house' = h
    BY <2>1 DEF MakeReport
  <2> QED BY <1>0, <1>a, <2>2, <2>3
<1>5. CASE Send
  <2>1. mailed'[p] = IF house \in excused THEN mailed[p] ELSE mailed[p] + report[p]
    BY <1>5 DEF Send, TypeOK
  <2>2. /\ UNCHANGED <<entries, file, written, excused, house, report>>
        /\ stage = "reported" /\ stage' = "sent"
    BY <1>5 DEF Send
  <2> QED BY <1>0, <1>a, <2>1, <2>2
<1>6. CASE SendFails
  BY <1>0, <1>6, <1>a DEF SendFails
<1>7. CASE CompleteDigest
  <2>1. /\ HouseOf[p] = house => entries'[p] = 0
        /\ HouseOf[p] # house => entries'[p] = entries[p]
    BY <1>7 DEF CompleteDigest, Without, ProfilesOf
  <2>2. \/ file'.entries = entries' /\ excused' = excused
        \/ file' = file /\ excused' = excused \union {house}
    BY <1>7, SaveSaves DEF CompleteDigest
  <2>3. UNCHANGED <<written, mailed>> /\ stage = "sent" /\ stage' = "scanning"
    BY <1>7 DEF CompleteDigest
  <2> QED BY <1>0, <1>a, <2>1, <2>2, <2>3
<1>8. CASE \E h \in Houses : Forget(h)
  <2>0. PICK h \in Houses : Forget(h)
    BY <1>8
  <2>1. /\ HouseOf[p] = h => entries'[p] = 0
        /\ HouseOf[p] # h => entries'[p] = entries[p]
    BY <2>0 DEF Forget, Without, ProfilesOf
  <2>2. \/ file'.entries = entries' /\ excused' = excused
        \/ file' = file /\ excused' = excused \union {h}
    BY <2>0, SaveSaves DEF Forget
  <2>3. UNCHANGED <<written, mailed, stage, house, report>>
    BY <2>0 DEF Forget
  <2> QED BY <1>0, <1>a, <2>1, <2>2, <2>3
<1>9. CASE Tick
  BY <1>9, <1>a DEF Tick
<1>10. CASE Crash
  BY <1>0, <1>10, <1>a DEF Crash
<1>11. CASE UNCHANGED vars
  BY <1>11, <1>a DEF vars
<1> QED
  BY <1>1, <1>2, <1>3, <1>4, <1>5, <1>6, <1>7, <1>8, <1>9, <1>10, <1>11 DEF Next, Scheduler

LEMMA RecordsKept ==
    ASSUME IInv, TypeOK', [Next]_vars
    PROVE  RecordsAreRight' /\ DeletedAreGone'
<1> USE DEF IInv
<1>1. CASE Scan
  BY <1>1 DEF Scan, RecordsAreRight, DeletedAreGone, Unrecorded, IsDue
<1>2. CASE EndScan
  BY <1>2 DEF EndScan, RecordsAreRight, DeletedAreGone, Unrecorded, IsDue
<1>3. CASE \E h \in Houses : SkipHouse(h)
  BY <1>3 DEF SkipHouse, RecordsAreRight, DeletedAreGone, Unrecorded, IsDue
<1>4. CASE \E h \in Houses : MakeReport(h)
  BY <1>4 DEF MakeReport, RecordsAreRight, DeletedAreGone, Unrecorded, IsDue
<1>5. CASE Send
  <2>1. /\ delivered'[house] = scanTime
        /\ \A h \in Houses : h # house => delivered'[h] = delivered[h]
    BY <1>5 DEF Send, TypeOK
  <2>2. /\ UNCHANGED <<lastSentAt, file, excused, house, registered, deletion, scanTime>>
        /\ stage = "reported" /\ stage' = "sent"
    BY <1>5 DEF Send
  <2> QED BY <2>1, <2>2 DEF RecordsAreRight, DeletedAreGone, Unrecorded, TypeOK
<1>6. CASE SendFails
  BY <1>6 DEF SendFails, RecordsAreRight, DeletedAreGone, Unrecorded, IsDue
<1>7. CASE CompleteDigest
  <2>1. /\ lastSentAt'[house] = scanTime
        /\ \A h \in Houses : h # house => lastSentAt'[h] = lastSentAt[h]
    BY <1>7 DEF CompleteDigest, TypeOK
  <2>2. \/ file'.lastSentAt = lastSentAt' /\ excused' = excused
        \/ file' = file /\ excused' = excused \union {house}
    BY <1>7, SaveSaves DEF CompleteDigest
  <2>3. /\ UNCHANGED <<delivered, house, registered, deletion, scanTime>>
        /\ stage = "sent" /\ stage' = "scanning"
    BY <1>7 DEF CompleteDigest
  <2>4. ASSUME NEW h \in registered' \ excused', delivered'[h] # Never
        PROVE  lastSentAt'[h] = delivered'[h] /\ file'.lastSentAt[h] = delivered'[h]
    <3>1. h \in Houses /\ h \in registered \ excused
      BY <2>2, <2>3, <2>4 DEF TypeOK
    <3>2. CASE h = house
      BY <2>1, <2>2, <2>3, <2>4, <3>2 DEF RecordsAreRight
    <3>3. CASE h # house
      BY <2>1, <2>2, <2>3, <2>4, <3>1, <3>3 DEF RecordsAreRight, Unrecorded
    <3> QED BY <3>2, <3>3
  <2> QED BY <2>3, <2>4 DEF RecordsAreRight, DeletedAreGone
<1>8. CASE \E h \in Houses : Forget(h)
  <2>0. PICK h \in Houses : Forget(h)
    BY <1>8
  <2>1. \A g \in Houses : g # h => lastSentAt'[g] = lastSentAt[g]
    BY <2>0 DEF Forget, TypeOK
  <2>2. \/ file'.lastSentAt = lastSentAt' /\ excused' = excused
        \/ file' = file /\ excused' = excused \union {h}
    BY <2>0, SaveSaves DEF Forget
  <2>3. UNCHANGED <<delivered, house, registered, scanTime, stage>>
    BY <2>0 DEF Forget
  <2>4. h \notin registered
    BY <2>0 DEF Forget, DeletedAreGone
  <2>5. DeletedAreGone'
    BY <2>0, <2>3, <2>4 DEF Forget, DeletedAreGone, TypeOK
  <2>6. ASSUME NEW g \in registered' \ excused'
        PROVE  /\ delivered'[g] # Never /\ ~ (Unrecorded(g))' =>
                      lastSentAt'[g] = delivered'[g] /\ file'.lastSentAt[g] = delivered'[g]
               /\ stage' = "reported" /\ house' = g => IsDue(g, scanTime)'
    <3>1. g \in Houses /\ g \in registered \ excused /\ g # h
      BY <2>2, <2>3, <2>4, <2>6 DEF TypeOK
    <3>2. /\ delivered[g] # Never /\ ~ Unrecorded(g) =>
                lastSentAt[g] = delivered[g] /\ file.lastSentAt[g] = delivered[g]
          /\ stage = "reported" /\ house = g => IsDue(g, scanTime)
      BY <3>1 DEF RecordsAreRight
    <3> QED BY <2>1, <2>2, <2>3, <3>1, <3>2 DEF Unrecorded, IsDue
  <2>7. stage' = "sent" => delivered'[house'] = scanTime'
    BY <2>3 DEF RecordsAreRight
  <2> QED BY <2>5, <2>6, <2>7 DEF RecordsAreRight
<1>9. CASE Crash
  <2>1. /\ lastSentAt' = file.lastSentAt /\ file' = file /\ stage' = "waiting"
        /\ registered' = registered /\ delivered' = delivered
        /\ excused' = IF stage = "sent" THEN excused \union {house} ELSE excused
        /\ deletion' = [h \in Houses |->
                           IF deletion[h] = "updated" THEN "interrupted" ELSE deletion[h]]
    BY <1>9 DEF Crash
  <2>2. DeletedAreGone'
    BY <2>1 DEF DeletedAreGone
  <2>3. ASSUME NEW h \in registered \ excused', delivered[h] # Never
        PROVE  file.lastSentAt[h] = delivered[h]
    <3>1. h \in registered \ excused /\ ~ Unrecorded(h)
      BY <2>1, <2>3 DEF Unrecorded
    <3> QED BY <2>3, <3>1 DEF RecordsAreRight
  <2> QED BY <2>1, <2>2, <2>3 DEF RecordsAreRight
<1>10. CASE \E h \in Houses : DeleteHouse(h)
  <2>1. PICK h \in Houses : DeleteHouse(h)
    BY <1>10
  <2>2. UNCHANGED <<lastSentAt, file, delivered, excused, stage, house, scanTime>>
    BY <2>1 DEF DeleteHouse
  <2>3. registered' = registered \ {h} /\ \A g \in Houses : g # h => deletion'[g] = deletion[g]
    BY <2>1 DEF DeleteHouse, TypeOK
  <2> QED BY <2>2, <2>3 DEF RecordsAreRight, DeletedAreGone, Unrecorded, IsDue
<1>11. CASE Tick \/ \E p \in Profiles : Lookup(p) \/ Write(p)
  BY <1>11 DEF Tick, Lookup, Write, RecordsAreRight, DeletedAreGone, Unrecorded, IsDue
<1>12. CASE UNCHANGED vars
  BY <1>12 DEF vars, RecordsAreRight, DeletedAreGone, Unrecorded, IsDue
<1> QED
  BY <1>1, <1>2, <1>3, <1>4, <1>5, <1>6, <1>7, <1>8, <1>9, <1>10, <1>11, <1>12
     DEF Next, Scheduler

LEMMA FewSurviveKept ==
    ASSUME IInv, TypeOK', [Next]_vars
    PROVE  FewSurvive'
<1> USE DEF IInv
<1> SUFFICES ASSUME NEW p \in Profiles,
                    HouseOf[p] \notin excused', deletion'[HouseOf[p]] = "forgotten"
             PROVE  /\ entries'[p] + (IF p \in inFlight' THEN 1 ELSE 0) <= 1
                    /\ file'.entries[p] + (IF p \in inFlight' THEN 1 ELSE 0) <= 1
  BY DEF FewSurvive, InFlight
<1>0. entries[p] \in Nat /\ file.entries[p] \in Nat /\ HouseOf[p] \in Houses
  BY CountTypes
<1>a. HouseOf[p] \notin excused /\ deletion[HouseOf[p]] = "forgotten" =>
          /\ entries[p] + (IF p \in inFlight THEN 1 ELSE 0) <= 1
          /\ file.entries[p] + (IF p \in inFlight THEN 1 ELSE 0) <= 1
          /\ HouseOf[p] \notin registered
  BY <1>0 DEF FewSurvive, InFlight, DeletedAreGone
<1>1. CASE \E q \in Profiles : Lookup(q)
  BY <1>0, <1>1, <1>a DEF Lookup
<1>2. CASE \E q \in Profiles : Write(q)
  <2>1. PICK q \in Profiles : Write(q)
    BY <1>2
  <2>2. /\ q \in inFlight /\ inFlight' = inFlight \ {q}
        /\ entries'[p] = entries[p] + (IF p = q THEN 1 ELSE 0)
        /\ UNCHANGED <<file, excused, deletion>>
    BY <1>0, <2>1 DEF Write, TypeOK
  <2> QED BY <1>0, <1>a, <2>2
<1>3. CASE CompleteDigest
  <2>1. /\ HouseOf[p] = house => entries'[p] = 0
        /\ HouseOf[p] # house => entries'[p] = entries[p]
    BY <1>3 DEF CompleteDigest, Without, ProfilesOf
  <2>2. \/ file'.entries = entries' /\ excused' = excused
        \/ file' = file /\ excused' = excused \union {house}
    BY <1>3, SaveSaves DEF CompleteDigest
  <2>3. UNCHANGED <<inFlight, deletion>>
    BY <1>3 DEF CompleteDigest
  <2> QED BY <1>0, <1>a, <2>1, <2>2, <2>3
<1>4. CASE \E h \in Houses : Forget(h)
  <2>0. PICK h \in Houses : Forget(h)
    BY <1>4
  <2>1. /\ HouseOf[p] = h => entries'[p] = 0
        /\ HouseOf[p] # h => entries'[p] = entries[p]
    BY <2>0 DEF Forget, Without, ProfilesOf
  <2>2. \/ file'.entries = entries' /\ excused' = excused
        \/ file' = file /\ excused' = excused \union {h}
    BY <2>0, SaveSaves DEF Forget
  <2>3. UNCHANGED inFlight
    BY <2>0 DEF Forget
  <2>4. HouseOf[p] # h => deletion'[HouseOf[p]] = deletion[HouseOf[p]]
    BY <1>0, <2>0 DEF Forget, TypeOK
  <2> QED BY <1>0, <1>a, <2>1, <2>2, <2>3, <2>4
<1>5. CASE Crash
  <2>1. /\ entries' = file.entries /\ file' = file /\ inFlight' = {}
        /\ HouseOf[p] \notin excused /\ deletion[HouseOf[p]] = "forgotten"
    BY <1>0, <1>5 DEF Crash
  <2> QED BY <1>0, <1>a, <2>1
<1>6. CASE \E h \in Houses : DeleteHouse(h)
  <2>1. deletion[HouseOf[p]] = "forgotten" /\ UNCHANGED <<entries, file, inFlight, excused>>
    BY <1>0, <1>6 DEF DeleteHouse, TypeOK
  <2> QED BY <1>a, <2>1
<1>7. CASE Tick \/ Scan \/ EndScan \/ \E h \in Houses : SkipHouse(h) \/ MakeReport(h)
  BY <1>7, <1>a DEF Tick, Scan, EndScan, SkipHouse, MakeReport
<1>8. CASE Send \/ SendFails
  BY <1>8, <1>a DEF Send, SendFails
<1>9. CASE UNCHANGED vars
  BY <1>9, <1>a DEF vars
<1> QED
  BY <1>1, <1>2, <1>3, <1>4, <1>5, <1>6, <1>7, <1>8, <1>9 DEF Next, Scheduler

LEMMA Invariant == Spec => []IInv
<1>1. Init => IInv
  <2> SUFFICES ASSUME Init PROVE IInv
    OBVIOUS
  <2>1. TypeOK
    BY InitTypes
  <2> QED
    BY <2>1 DEF IInv, Init, ToldOnce, OneHouse, RecordsAreRight, DeletedAreGone, FewSurvive,
                NoCounters, NeverSent, InFlight
<1>2. IInv /\ [Next]_vars => IInv'
  <2> SUFFICES ASSUME IInv, [Next]_vars PROVE IInv'
    OBVIOUS
  <2>1. TypeOK'
    BY Types DEF IInv
  <2> QED BY <2>1, ToldOnceKept, RecordsKept, FewSurviveKept DEF IInv
<1> QED BY <1>1, <1>2, PTL DEF Spec

(* No observation is told twice, but for the named exceptions.              *)
THEOREM NothingIsToldTwice == Spec => []NoObservationToldTwice
<1>1. IInv => NoObservationToldTwice
  BY DEF IInv, ToldOnce, NoObservationToldTwice, Unrecorded
<1> QED BY <1>1, Invariant, PTL

(* Of a deleted house only the queries in flight survive in memory.         *)
THEOREM OnlyTheInFlightSurvive == Spec => []SurvivorsWereInFlight
<1>1. IInv => SurvivorsWereInFlight
  BY HouseAssumption DEF IInv, FewSurvive, InFlight, SurvivorsWereInFlight, ProfilesOf
<1> QED BY <1>1, Invariant, PTL

(* No two digests within an interval, across restarts.                      *)
THEOREM CadenceIsKept == Spec => CadenceKept
<1>1. IInv => [\A h \in registered \ excused :
                  /\ delivered[h] # Never
                  /\ Send /\ house = h
                  => scanTime - delivered[h] >= Interval]_vars
  <2> SUFFICES ASSUME IInv, NEW h \in registered \ excused, delivered[h] # Never,
                      Send, house = h
               PROVE  scanTime - delivered[h] >= Interval
    OBVIOUS
  <2>1. stage = "reported"
    BY DEF Send
  <2>2. IsDue(h, scanTime) /\ lastSentAt[h] = delivered[h]
    BY <2>1 DEF IInv, RecordsAreRight, Unrecorded
  <2> QED BY <2>2 DEF IsDue
<1> QED BY <1>1, Invariant, PTL DEF CadenceKept, Spec
=============================================================================
