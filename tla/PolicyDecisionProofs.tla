------------------------ MODULE PolicyDecisionProofs ------------------------
(***************************************************************************)
(* What MCPolicyDecision checks of the policy decision, for profiles of    *)
(* any size: any rules, groups, domains, schedules and pauses that NewStore*)
(* accepts, for every length of the day and all the labels there may be.   *)
(*                                                                         *)
(* In this order: windows, of which the code asks whether they are active  *)
(* (windowActive) and which minutes of the week they occupy (occupyWindow);*)
(* the loops of DecideAt, whose result is the first of the longest entries *)
(* that cover the name; what an edit, and what a tick of the clock, may    *)
(* change of it; the specification's invariant and its theorems; and the   *)
(* rules that the browser compiles from the same profile.                  *)
(*                                                                         *)
(* Loops and FlattenSeq are functions defined by recursion.  What they     *)
(* compute is proved by induction over sets (module LoopLemmas).           *)
(***************************************************************************)
EXTENDS MCPolicyDecision, LoopLemmas

-----------------------------------------------------------------------------
(* Windows of the week. ActiveIffOccupied: the two questions that the code  *)
(* asks of a window have one answer. That is why the schedules that NewStore*)
(* accepts for one group are never active together, and why their order does*)
(* not matter.                                                              *)

USE DayLengthAssumption

(* Reducing modulo n a number below 2 * n. *)
LEMMA Wrap ==
    ASSUME NEW n \in Nat, n > 0, NEW x \in Nat, x < 2 * n
    PROVE  x % n = IF x < n THEN x ELSE x - n
  <1>1. CASE x < n
    BY <1>1
  <1>2. CASE x >= n
    <2>1. x \div n = 1
      BY <1>2
    <2> QED
      BY <1>2, <2>1
  <1> QED
    BY <1>1, <1>2

(* A minute of the week has one day and one minute of that day. *)
LEMMA SplitIsUnique ==
    ASSUME NEW d \in Int, NEW e \in Int, NEW a \in Minutes, NEW b \in Minutes,
           d * DayLength + a = e * DayLength + b
    PROVE  d = e /\ a = b
  <1>1. /\ a \in Int /\ b \in Int /\ DayLength \in Int
        /\ b - a < DayLength /\ a - b < DayLength
    BY DEF Minutes
  <1> DEFINE q == d - e
  <1>2. q \in Int /\ q * DayLength = b - a
    BY <1>1
  <1>3. q = 0
    <2> HIDE DEF q
    <2>1. q >= 1 => q * DayLength >= DayLength
      BY <1>2
    <2>2. q <= -1 => q * DayLength <= -DayLength
      BY <1>2
    <2> QED
      BY <1>1, <1>2, <2>1, <2>2
  <1> QED
    BY <1>1, <1>2, <1>3

(* The day after a weekday, Saturday being followed by Sunday. *)
nextDay(day) == IF day = 6 THEN 0 ELSE day + 1

(* The minute of the week reached after "passed" minutes from the start of  *)
(* a day, when fewer than two days have passed.                             *)
LEMMA ReachedMinute ==
    ASSUME NEW day \in Days, NEW passed \in Nat, passed < 2 * DayLength
    PROVE  (day * DayLength + passed) % WeekLength =
              IF passed < DayLength
              THEN day * DayLength + passed
              ELSE nextDay(day) * DayLength + (passed - DayLength)
  <1>1. day * DayLength <= 6 * DayLength /\ day * DayLength >= 0
    BY DEF Days
  <1>2. day < 6 => day * DayLength <= 5 * DayLength
    BY DEF Days
  <1> DEFINE x == day * DayLength + passed
  <1>3. x \in Nat /\ x < 2 * WeekLength /\ WeekLength \in Nat /\ WeekLength > 0
    BY <1>1 DEF WeekLength, Days
  <1>4. x % WeekLength = IF x < WeekLength THEN x ELSE x - WeekLength
    <2> HIDE DEF x
    <2> QED
      BY <1>3, Wrap
  <1>5. CASE passed < DayLength
    <2>1. x < WeekLength
      BY <1>1, <1>5 DEF WeekLength, Days
    <2> QED
      BY <1>4, <1>5, <2>1
  <1>6. CASE passed >= DayLength /\ day = 6
    BY <1>4, <1>6 DEF WeekLength, nextDay
  <1>7. CASE passed >= DayLength /\ day # 6
    <2>1. (day + 1) * DayLength = day * DayLength + DayLength
      BY DEF Days
    <2> QED
      BY <1>2, <1>4, <1>7, <2>1 DEF WeekLength, nextDay, Days
  <1> QED
    BY <1>5, <1>6, <1>7

(* One day of a window occupies a minute of the week exactly when           *)
(* windowActive accepts that day for it.                                    *)
LEMMA DayCovers ==
    ASSUME NEW w, isWindow(w), validateWindow(w),
           NEW day \in Days, NEW at \in Days, NEW time \in Minutes
    PROVE  (at * DayLength + time \in occupiedFrom(w, day)) <=>
              \/ /\ day = at
                 /\ w.start < w.end
                 /\ time >= w.start /\ time < w.end
              \/ /\ day = at
                 /\ w.end < w.start
                 /\ time >= w.start
              \/ /\ day = (at + 6) % 7
                 /\ w.end < w.start
                 /\ time < w.end
  <1> DEFINE slot == at * DayLength + time
             span == w.start + duration(w)
  <1>1. /\ w.start \in Minutes /\ w.end \in Minutes /\ w.start # w.end
        /\ span = IF w.start < w.end THEN w.end ELSE w.end + DayLength
        /\ duration(w) \in Nat
    BY DEF isWindow, validateWindow, duration, Minutes
  <1>2. nextDay(day) = at <=> day = (at + 6) % 7
    BY DEF Days, nextDay
  <1>3. slot \in occupiedFrom(w, day) <=>
           \E passed \in w.start .. (span - 1) :
              slot = (day * DayLength + passed) % WeekLength
    <2>1. ASSUME NEW offset \in 0 .. (duration(w) - 1)
          PROVE  /\ w.start + offset \in w.start .. (span - 1)
                 /\ day * DayLength + w.start + offset
                       = day * DayLength + (w.start + offset)
      BY <1>1 DEF Minutes, Days
    <2>2. ASSUME NEW passed \in w.start .. (span - 1)
          PROVE  /\ passed - w.start \in 0 .. (duration(w) - 1)
                 /\ day * DayLength + w.start + (passed - w.start)
                       = day * DayLength + passed
      BY <1>1 DEF Minutes, Days
    <2> HIDE DEF slot
    <2>3. ASSUME slot \in occupiedFrom(w, day)
          PROVE  \E passed \in w.start .. (span - 1) :
                    slot = (day * DayLength + passed) % WeekLength
      <3>1. PICK offset \in 0 .. (duration(w) - 1) :
               slot = (day * DayLength + w.start + offset) % WeekLength
        BY <2>3 DEF occupiedFrom
      <3> QED
        BY <2>1, <3>1
    <2>4. ASSUME NEW passed \in w.start .. (span - 1),
                 slot = (day * DayLength + passed) % WeekLength
          PROVE  slot \in occupiedFrom(w, day)
      BY <2>2, <2>4 DEF occupiedFrom
    <2> QED
      BY <2>3, <2>4
  <1>4. ASSUME NEW passed \in Nat, passed < 2 * DayLength
        PROVE  slot = (day * DayLength + passed) % WeekLength <=>
                  \/ day = at /\ time = passed
                  \/ nextDay(day) = at /\ time = passed - DayLength
    <2>1. day \in Int /\ at \in Int /\ nextDay(day) \in Int
      BY DEF Days, nextDay
    <2>2. CASE passed < DayLength
      <3>1. passed \in Minutes
        BY <2>2 DEF Minutes
      <3>2. slot = day * DayLength + passed <=> at = day /\ time = passed
        BY <2>1, <3>1, SplitIsUnique
      <3> QED
        BY <1>4, <2>2, <3>2, ReachedMinute DEF Minutes
    <2>3. CASE passed >= DayLength
      <3> DEFINE rest == passed - DayLength
      <3>1. rest \in Minutes
        BY <1>4, <2>3 DEF Minutes
      <3>2. slot = nextDay(day) * DayLength + rest
               <=> at = nextDay(day) /\ time = rest
        <4> HIDE DEF rest
        <4> QED
          BY <2>1, <3>1, SplitIsUnique
      <3> QED
        BY <1>4, <2>3, <3>2, ReachedMinute DEF Minutes
    <2> QED
      BY <2>2, <2>3
  <1>5. slot \in occupiedFrom(w, day) <=>
           \/ day = at /\ time \in w.start .. (span - 1)
           \/ nextDay(day) = at /\ time + DayLength \in w.start .. (span - 1)
    <2>1. \A passed \in w.start .. (span - 1) :
              /\ passed \in Nat /\ passed < 2 * DayLength
              /\ time = passed - DayLength <=> passed = time + DayLength
      BY <1>1 DEF Minutes
    <2> HIDE DEF slot, span
    <2> QED
      BY <1>3, <1>4, <2>1
  <1> QED
    BY <1>1, <1>2, <1>5 DEF Minutes

(* windowActive and occupyWindow agree on every minute of the week, also    *)
(* over midnight and from Saturday into Sunday.                             *)
THEOREM ActiveIffOccupied ==
    ASSUME NEW w, isWindow(w), validateWindow(w),
           NEW at \in Days, NEW time \in Minutes
    PROVE  windowActive(w, at, time) <=>
              at * DayLength + time \in occupiedBy(w)
  <1>1. \A day \in w.days : day \in Days
    BY DEF isWindow
  <1> QED
    BY <1>1, DayCovers DEF windowActive, occupiedBy

(* NewStore refuses overlaps, so two schedules of one accepted group are    *)
(* never active at the same minute.                                         *)
THEOREM AcceptedNeverOverlap ==
    ASSUME NEW schedules, Len(schedules) \in Nat, acceptedSchedules(schedules),
           \A k \in 1 .. Len(schedules) : isWindow(schedules[k]),
           NEW at \in Days, NEW time \in Minutes,
           NEW i \in 1 .. Len(schedules), NEW j \in 1 .. Len(schedules),
           windowActive(schedules[i], at, time),
           windowActive(schedules[j], at, time)
    PROVE  i = j
  <1> DEFINE slot == at * DayLength + time
  <1>1. ASSUME NEW k \in 1 .. Len(schedules), windowActive(schedules[k], at, time)
        PROVE  slot \in occupiedBy(schedules[k])
    <2>1. isWindow(schedules[k])
      OBVIOUS
    <2>2. validateWindow(schedules[k])
      BY DEF acceptedSchedules
    <2> QED
      BY <1>1, <2>1, <2>2, ActiveIffOccupied
  <1>2. ASSUME NEW k \in 1 .. Len(schedules), NEW m \in 1 .. (k - 1),
               slot \in occupiedBy(schedules[k])
        PROVE  slot \notin occupiedBy(schedules[m])
    BY <1>2 DEF acceptedSchedules, occupyWindow
  <1>3. slot \in occupiedBy(schedules[i]) /\ slot \in occupiedBy(schedules[j])
    BY <1>1
  <1>4. ~ (i < j) /\ ~ (j < i)
    BY <1>2, <1>3
  <1> QED
    BY <1>4

(* The order in which the panel lists the schedules of a group has no       *)
(* effect: whichever schedule is active is the one the code picks.          *)
THEOREM OrderIrrelevant ==
    ASSUME NEW schedules, Len(schedules) \in Nat, acceptedSchedules(schedules),
           \A k \in 1 .. Len(schedules) : isWindow(schedules[k]),
           NEW at \in Days, NEW time \in Minutes
    PROVE  activeScheduledAction(schedules, at, time) =
              {i \in 1 .. Len(schedules) :
                  windowActive(schedules[i], at, time)}
  <1>1. ASSUME NEW i \in 1 .. Len(schedules),
               windowActive(schedules[i], at, time),
               NEW j \in 1 .. (i - 1)
        PROVE  ~ windowActive(schedules[j], at, time)
    BY <1>1, AcceptedNeverOverlap
  <1> QED
    BY <1>1 DEF activeScheduledAction

HIDE DayLengthAssumption

-----------------------------------------------------------------------------
(* The loops of DecideAt.                                                   *)

(* What the body of the loops makes of entry.                               *)
decided(entry, at, time) ==
    [action |-> scheduledAction(entry, at, time),
     source |-> entry.source,
     length |-> Len(entry.domain)]

(* The decision before any entry is considered: the default.                *)
undecided(p) == [action |-> p.default_action, source |-> <<"default">>, length |-> -1]

(* The entry at i decides name among the first n: the first of the longest. *)
Decides(list, n, name, i) ==
    /\ i \in 1 .. n
    /\ matches(list[i], name)
    /\ \A j \in 1 .. n :
          matches(list[j], name) =>
             \/ Len(list[j].domain) < Len(list[i].domain)
             \/ Len(list[j].domain) = Len(list[i].domain) /\ i <= j

(* What the loop needs to know of a list of entries.                        *)
IsList(list) ==
    /\ Len(list) \in Nat
    /\ \A i \in 1 .. Len(list) : Len(list[i].domain) \in Nat

(* d is the decision after n entries. *)
DecidesFirst(p, name, at, time, n, d) ==
    \/ /\ d = undecided(p)
       /\ \A i \in 1 .. n : ~ matches(entries(p)[i], name)
    \/ \E i \in 1 .. n : Decides(entries(p), n, name, i) /\ d = decided(entries(p)[i], at, time)

(* One round of the loop: an entry replaces the decision only when its      *)
(* domain is longer.                                                        *)
LEMMA LoopStep ==
  ASSUME NEW p, NEW name, NEW at, NEW time, IsList(entries(p)),
         NEW n \in 1 .. Len(entries(p)),
         NEW before, DecidesFirst(p, name, at, time, n - 1, before)
  PROVE  DecidesFirst(p, name, at, time, n,
                      consider(before, entries(p)[n], name, at, time))
  <1> DEFINE list == entries(p)
             d == consider(before, list[n], name, at, time)
  <1>0. /\ n \in Nat /\ n - 1 \in Nat /\ 1 .. n = (1 .. n - 1) \union {n}
        /\ \A i \in 1 .. n : Len(list[i].domain) \in Nat
    BY DEF IsList
  <1>9. \/ before = undecided(p) /\ \A i \in 1 .. n - 1 : ~ matches(list[i], name)
        \/ \E i \in 1 .. n - 1 : Decides(list, n - 1, name, i) /\ before = decided(list[i], at, time)
    BY DEF DecidesFirst
  <1> HIDE DEF list
  <1>1. CASE ~ matches(list[n], name)
    <2>1. d = before
      BY <1>1 DEF consider
    <2>2. \A i \in 1 .. n - 1 : Decides(list, n - 1, name, i) => Decides(list, n, name, i)
      BY <1>0, <1>1 DEF Decides
    <2> QED BY <1>0, <1>9, <1>1, <2>1, <2>2 DEF list, DecidesFirst
  <1>2. CASE matches(list[n], name)
    <2>1. CASE before = undecided(p) /\ \A i \in 1 .. n - 1 : ~ matches(list[i], name)
      <3>1. d = decided(list[n], at, time)
        BY <1>0, <1>2, <2>1 DEF consider, undecided, decided
      <3>2. Decides(list, n, name, n)
        BY <1>0, <1>2, <2>1 DEF Decides
      <3> QED BY <3>1, <3>2 DEF list, DecidesFirst
    <2>2. ASSUME NEW i \in 1 .. n - 1, Decides(list, n - 1, name, i), before = decided(list[i], at, time)
          PROVE  DecidesFirst(p, name, at, time, n, d)
      <3>0. before.length = Len(list[i].domain) /\ i \in 1 .. n - 1
        BY <2>2 DEF decided, Decides
      <3>1. CASE Len(list[n].domain) > Len(list[i].domain)
        <4>1. d = decided(list[n], at, time)
          BY <1>2, <3>0, <3>1 DEF consider, decided
        <4>2. ASSUME NEW j \in 1 .. n - 1, matches(list[j], name)
              PROVE  Len(list[j].domain) < Len(list[n].domain)
          <5> DEFINE a == Len(list[j].domain)
                     b == Len(list[i].domain)
                     c == Len(list[n].domain)
          <5>1. a <= b
            BY <1>0, <2>2, <3>0, <4>2 DEF Decides
          <5>2. a \in Nat /\ b \in Nat /\ c \in Nat
            BY <1>0, <3>0
          <5>3. b < c
            BY <3>1
          <5> HIDE DEF a, b, c
          <5>4. a < c
            BY <5>1, <5>2, <5>3
          <5> QED BY <5>4 DEF a, c
        <4>3. Decides(list, n, name, n)
          BY <1>0, <1>2, <4>2 DEF Decides
        <4> QED BY <4>1, <4>3 DEF list, DecidesFirst
      <3>2. CASE ~ (Len(list[n].domain) > Len(list[i].domain))
        <4>1. d = decided(list[i], at, time)
          BY <1>2, <2>2, <3>0, <3>2 DEF consider
        <4>2. Decides(list, n, name, i)
          BY <1>0, <1>2, <2>2, <3>2 DEF Decides
        <4> QED BY <4>1, <4>2 DEF list, DecidesFirst
      <3> QED BY <3>1, <3>2
    <2> QED BY <1>9, <2>1, <2>2 DEF list, DecidesFirst
  <1> QED BY <1>1, <1>2

(* After all the rounds, the first of the longest decides.                  *)
LEMMA LoopDecides ==
  ASSUME NEW p, NEW name, NEW at, NEW time, IsList(entries(p))
  PROVE  DecidesFirst(p, name, at, time, Len(entries(p)),
                      decideByEntries(p, name, at, time))
  <1> DEFINE list == entries(p)
             m == Len(list)
             S == {undecided(p)} \union {decided(list[i], at, time) : i \in 1 .. m}
             After(f) == f = [n \in 0 .. m |->
                                 IF n = 0 THEN undecided(p)
                                 ELSE consider(f[n - 1], list[n], name, at, time)]
             step == [n \in 1 .. m |-> [d \in S |-> consider(d, list[n], name, at, time)]]
  <1>1. m \in Nat
    BY DEF IsList
  <1>2. /\ undecided(p) \in S
        /\ \A n \in 1 .. m, d \in S : consider(d, list[n], name, at, time) \in S
    BY DEF consider, decided
  <1> HIDE DEF S, m, list
  <1>3. \E f : After(f)
    <2>1. step \in [1 .. m -> [S -> S]]
      BY <1>2
    <2>2. PICK f : Repeats(f, m, S, undecided(p), step)
      <3> HIDE DEF step
      <3> QED BY <1>1, <1>2, <2>1, Recursion
    <2>3. f \in [0 .. m -> S] /\ f[0] = undecided(p)
      BY <2>2 DEF Repeats
    <2>4. ASSUME NEW n \in 1 .. m
          PROVE  f[n] = consider(f[n - 1], list[n], name, at, time)
      <3>1. f[n - 1] \in S
        BY <1>1, <2>3
      <3>2. f[n] = step[n][f[n - 1]]
        BY <2>2 DEF Repeats
      <3> QED BY <3>1, <3>2
    <2>5. After(f)
      BY <1>1, <2>3, <2>4
    <2> QED BY <2>5
  <1> DEFINE f == CHOOSE g : After(g)
  <1>4. After(f)
    <2> HIDE DEF After
    <2> QED BY <1>3
  <1>5. decideByEntries(p, name, at, time) = f[m]
    BY DEF decideByEntries, undecided, list, m
  <1> DEFINE Right(n) == DecidesFirst(p, name, at, time, n, f[n])
             T == {n \in Nat : n <= m => Right(n)}
  <1> HIDE DEF f
  <1>6. 0 \in T
    BY <1>1, <1>4 DEF DecidesFirst
  <1>7. ASSUME NEW n \in T PROVE n + 1 \in T
    <2> SUFFICES ASSUME n + 1 <= m PROVE Right(n + 1)
      <3> HIDE DEF Right
      <3> QED BY <1>7
    <2>1. n \in Nat /\ n + 1 \in 1 .. m /\ (n + 1) - 1 = n
      BY <1>1
    <2>2. f[n + 1] = consider(f[n], list[n + 1], name, at, time)
      BY <1>1, <1>4, <2>1
    <2>3. Right(n)
      <3> HIDE DEF Right
      <3> QED BY <1>1, <1>7, <2>1
    <2> QED BY <2>1, <2>2, <2>3, LoopStep DEF list, m
  <1>8. m \in T
    <2> HIDE DEF T
    <2>1. T \in SUBSET Nat
      BY DEF T
    <2> QED BY <1>1, <1>6, <1>7, <2>1, Induction
  <1>9. Right(m)
    <2> HIDE DEF Right
    <2> QED BY <1>1, <1>8
  <1> QED BY <1>5, <1>9 DEF m, list

-----------------------------------------------------------------------------
(* The entries of a profile, and its groups.                                *)

(* What a profile may hold.                                                 *)
Schedules == [action : {"allow", "block"}, days : SUBSET Days, start : Minutes, end : Minutes]

Pauses == [days : SUBSET Days, start : Minutes, end : Minutes]

Rules == [domain : DomainNames, include_subdomains : BOOLEAN, action : Actions]

Groups == [domains : Seq(DomainNames), action : Actions, schedules : Seq(Schedules)]

Profiles == [default_action : Actions, pauses : Seq(Pauses),
             rules : Seq(Rules), groups : Seq(Groups)]

Entries == [domain : DomainNames, subdomains : BOOLEAN, action : Actions,
            schedules : Seq(Schedules), source : {"rule", "group"} \X Nat]

(* The entry of a rule, and of one domain of a group. *)
ruleEntry(rule, i) ==
    [domain |-> rule.domain, subdomains |-> rule.include_subdomains,
     action |-> rule.action, schedules |-> <<>>, source |-> <<"rule", i>>]

domainEntry(domain, group, g) ==
    [domain |-> domain, subdomains |-> TRUE, action |-> group.action,
     schedules |-> group.schedules, source |-> <<"group", g>>]

(* The entries of the rules, in their order.                                *)
LEMMA RuleEntriesAre ==
  ASSUME NEW p \in Profiles
  PROVE  /\ ruleEntries(p) \in Seq(Entries)
         /\ Len(ruleEntries(p)) = Len(p.rules)
         /\ \A i \in 1 .. Len(p.rules) : ruleEntries(p)[i] = ruleEntry(p.rules[i], i)
  <1>1. p.rules \in Seq(Rules)
    BY DEF Profiles
  <1> DEFINE n == Len(p.rules)
  <1>2. n \in Nat /\ \A i \in 1 .. n : p.rules[i] \in Rules
    BY <1>1, LenProperties, ElementOfSeq
  <1>3. ruleEntries(p) = [i \in 1 .. n |-> ruleEntry(p.rules[i], i)]
    BY DEF ruleEntries, ruleEntry
  <1>4. \A i \in 1 .. n : ruleEntry(p.rules[i], i) \in Entries
    <2>1. <<>> \in Seq(Schedules)
      BY EmptySeq
    <2> QED BY <1>2, <2>1 DEF ruleEntry, Entries, Rules
  <1> HIDE DEF n
  <1>5. [i \in 1 .. n |-> ruleEntry(p.rules[i], i)] \in Seq(Entries)
    BY <1>2, <1>4
  <1> QED BY <1>2, <1>3, <1>5 DEF n

(* The entries of a group, one for each domain.                             *)
LEMMA GroupEntriesAre ==
  ASSUME NEW group \in Groups, NEW g \in Nat
  PROVE  /\ groupEntries(group, g) \in Seq(Entries)
         /\ Len(groupEntries(group, g)) = Len(group.domains)
         /\ \A j \in 1 .. Len(group.domains) :
               groupEntries(group, g)[j] = domainEntry(group.domains[j], group, g)
  <1>1. group.domains \in Seq(DomainNames)
    BY DEF Groups
  <1> DEFINE n == Len(group.domains)
  <1>2. n \in Nat /\ \A j \in 1 .. n : group.domains[j] \in DomainNames
    BY <1>1, LenProperties, ElementOfSeq
  <1>3. groupEntries(group, g) = [j \in 1 .. n |-> domainEntry(group.domains[j], group, g)]
    BY DEF groupEntries, domainEntry
  <1>4. \A j \in 1 .. n : domainEntry(group.domains[j], group, g) \in Entries
    BY <1>2 DEF domainEntry, Entries, Groups
  <1> HIDE DEF n
  <1>5. [j \in 1 .. n |-> domainEntry(group.domains[j], group, g)] \in Seq(Entries)
    BY <1>2, <1>4
  <1> QED BY <1>2, <1>3, <1>5 DEF n

(* The entries of every group, before they are put one after the other.     *)
groupLists(groups) == [g \in 1 .. Len(groups) |-> groupEntries(groups[g], g)]

(* They are lists of entries.                                               *)
LEMMA GroupListsAre ==
  ASSUME NEW groups \in Seq(Groups)
  PROVE  groupLists(groups) \in Seq(Seq(Entries))
  <1> DEFINE n == Len(groups)
             Q == Seq(Entries)
  <1>1. n \in Nat /\ \A g \in 1 .. n : groups[g] \in Groups
    BY LenProperties, ElementOfSeq
  <1>2. \A g \in 1 .. n : groupEntries(groups[g], g) \in Q
    BY <1>1, GroupEntriesAre
  <1> HIDE DEF n, Q
  <1>3. [g \in 1 .. n |-> groupEntries(groups[g], g)] \in Seq(Q)
    BY <1>1, <1>2
  <1> QED BY <1>3 DEF groupLists, n, Q

(* And so is what they flatten to.                                          *)
LEMMA GroupsEntriesType ==
  ASSUME NEW groups \in Seq(Groups)
  PROVE  groupsEntries(groups) \in Seq(Entries)
  BY GroupListsAre, FlattenType DEF groupsEntries, groupLists

(* A group more puts its entries at the end.                                *)
LEMMA GroupsEntriesAppend ==
  ASSUME NEW groups \in Seq(Groups), NEW group \in Groups
  PROVE  groupsEntries(Append(groups, group)) =
            groupsEntries(groups) \o groupEntries(group, Len(groups) + 1)
  <1> DEFINE Q == Seq(Entries)
             n == Len(groups)
             longer == Append(groups, group)
             last == groupEntries(group, n + 1)
  <1>1. /\ longer \in Seq(Groups) /\ n \in Nat /\ Len(longer) = n + 1
        /\ \A g \in 1 .. n : longer[g] = groups[g]
        /\ longer[n + 1] = group
    BY AppendProperties, LenProperties
  <1>2. last \in Q
    BY <1>1, GroupEntriesAre
  <1>3. groupLists(groups) \in Seq(Q) /\ groupLists(longer) \in Seq(Q)
    BY <1>1, GroupListsAre
  <1>4. groupLists(longer) = Append(groupLists(groups), last)
    <2> DEFINE a == groupLists(longer)
               b == Append(groupLists(groups), last)
    <2> HIDE DEF longer, last
    <2>1. Len(a) = n + 1 /\ Len(groupLists(groups)) = n
      BY <1>1 DEF groupLists
    <2>2. /\ b \in Seq(Q) /\ Len(b) = n + 1
          /\ \A g \in 1 .. n : b[g] = groupLists(groups)[g]
          /\ b[n + 1] = last
      <3> HIDE DEF Q, n
      <3> QED BY <1>2, <1>3, <2>1, AppendProperties
    <2>3. \A g \in 1 .. n + 1 : a[g] = b[g]
      <3>1. ASSUME NEW g \in 1 .. n PROVE a[g] = b[g]
        <4>1. a[g] = groupEntries(longer[g], g) /\ groupLists(groups)[g] = groupEntries(groups[g], g)
          BY <1>1 DEF groupLists
        <4> QED BY <1>1, <2>2, <4>1
      <3>2. a[n + 1] = b[n + 1]
        <4>1. a[n + 1] = groupEntries(longer[n + 1], n + 1)
          BY <1>1 DEF groupLists
        <4> QED BY <1>1, <2>2, <4>1 DEF last
      <3> HIDE DEF a, b, n
      <3>3. 1 .. n + 1 = (1 .. n) \union {n + 1}
        BY <1>1
      <3> QED BY <3>1, <3>2, <3>3
    <2> HIDE DEF Q, a, b, n
    <2>4. a = b
      <3>1. a \in Seq(Q)
        BY <1>3 DEF a
      <3> QED BY <2>1, <2>2, <2>3, <3>1, SeqEqual DEF a
    <2> QED BY <2>4 DEF a, b
  <1>5. FlattenSeq(Append(groupLists(groups), last)) = FlattenSeq(groupLists(groups)) \o last
    <2> HIDE DEF last
    <2> QED BY <1>2, <1>3, FlattenAppend
  <1>6. groupsEntries(longer) = FlattenSeq(groupLists(longer))
    BY DEF groupsEntries, groupLists
  <1>7. groupsEntries(groups) = FlattenSeq(groupLists(groups))
    BY DEF groupsEntries, groupLists
  <1> QED BY <1>4, <1>5, <1>6, <1>7

(* list holds the entries of groups, one group after the other.             *)
Lists(list, groups) ==
    /\ \A k \in 1 .. Len(list) :
          \E g \in 1 .. Len(groups) : \E j \in 1 .. Len(groups[g].domains) :
              list[k] = domainEntry(groups[g].domains[j], groups[g], g)
    /\ \A g \in 1 .. Len(groups) : \A j \in 1 .. Len(groups[g].domains) :
          \E k \in 1 .. Len(list) :
              list[k] = domainEntry(groups[g].domains[j], groups[g], g)
    /\ \A k, m \in 1 .. Len(list) : k <= m => list[k].source[2] <= list[m].source[2]

(* What Lists says is kept when a group is added.                           *)
LEMMA ListsAppend ==
  ASSUME NEW groups \in Seq(Groups), NEW group \in Groups,
         NEW list \in Seq(Entries), Lists(list, groups)
  PROVE  Lists(list \o groupEntries(group, Len(groups) + 1), Append(groups, group))
  <1> DEFINE n == Len(groups)
             longer == Append(groups, group)
             last == groupEntries(group, n + 1)
             all == list \o last
             a == Len(list)
             b == Len(last)
  <1>1. /\ n \in Nat /\ Len(longer) = n + 1
        /\ \A g \in 1 .. n : longer[g] = groups[g]
        /\ longer[n + 1] = group
    BY AppendProperties, LenProperties
  <1>2. /\ last \in Seq(Entries) /\ b = Len(group.domains)
        /\ \A j \in 1 .. b : last[j] = domainEntry(group.domains[j], group, n + 1)
    BY <1>1, GroupEntriesAre
  <1>3. a \in Nat /\ b \in Nat
    BY <1>2, LenProperties
  <1> HIDE DEF longer, last, n
  <1>4. /\ Len(all) = a + b
        /\ \A k \in 1 .. a : all[k] = list[k]
        /\ \A j \in 1 .. b : a + j \in 1 .. a + b /\ all[a + j] = last[j]
    <2>1. /\ Len(all) = a + b
          /\ \A k \in 1 .. a + b : all[k] = IF k <= a THEN list[k] ELSE last[k - a]
      BY <1>2, ConcatProperties
    <2> HIDE DEF a, b, all
    <2> QED BY <1>3, <2>1
  <1> HIDE DEF a, b, all
  <1>5. \A k \in 1 .. a + b : k \in 1 .. a \/ \E j \in 1 .. b : k = a + j
    <2> SUFFICES ASSUME NEW k \in 1 .. a + b, k \notin 1 .. a
                 PROVE  \E j \in 1 .. b : k = a + j
      OBVIOUS
    <2>1. k - a \in 1 .. b /\ k = a + (k - a)
      BY <1>3
    <2> QED BY <2>1
  <1>6. /\ \A k \in 1 .. a : \E g \in 1 .. n : \E j \in 1 .. Len(groups[g].domains) :
              list[k] = domainEntry(groups[g].domains[j], groups[g], g)
        /\ \A g \in 1 .. n : \A j \in 1 .. Len(groups[g].domains) :
              \E k \in 1 .. a : list[k] = domainEntry(groups[g].domains[j], groups[g], g)
        /\ \A k, m \in 1 .. a : k <= m => list[k].source[2] <= list[m].source[2]
    BY DEF Lists, a, n
  <1>7. ASSUME NEW k \in 1 .. a + b
        PROVE  \E g \in 1 .. n + 1 : \E j \in 1 .. Len(longer[g].domains) :
                  all[k] = domainEntry(longer[g].domains[j], longer[g], g)
    <2>1. CASE k \in 1 .. a
      <3>1. PICK g \in 1 .. n : \E j \in 1 .. Len(groups[g].domains) :
               list[k] = domainEntry(groups[g].domains[j], groups[g], g)
        BY <1>6, <2>1
      <3>2. g \in 1 .. n + 1 /\ longer[g] = groups[g] /\ all[k] = list[k]
        BY <1>1, <1>4, <2>1
      <3> QED BY <3>1, <3>2
    <2>2. ASSUME NEW j \in 1 .. b, k = a + j
          PROVE  \E i \in 1 .. Len(longer[n + 1].domains) :
                    all[k] = domainEntry(longer[n + 1].domains[i], longer[n + 1], n + 1)
      BY <1>1, <1>2, <1>4, <2>2
    <2>3. n + 1 \in 1 .. n + 1
      BY <1>1
    <2> QED BY <1>5, <2>1, <2>2, <2>3
  <1>8. ASSUME NEW g \in 1 .. n + 1, NEW j \in 1 .. Len(longer[g].domains)
        PROVE  \E k \in 1 .. a + b : all[k] = domainEntry(longer[g].domains[j], longer[g], g)
    <2>1. CASE g \in 1 .. n
      <3>1. PICK k \in 1 .. a : list[k] = domainEntry(groups[g].domains[j], groups[g], g)
        BY <1>1, <1>6, <2>1
      <3>2. k \in 1 .. a + b
        BY <1>3
      <3> QED BY <1>1, <1>4, <2>1, <3>1, <3>2
    <2>2. CASE g = n + 1
      BY <1>1, <1>2, <1>4, <2>2
    <2> QED BY <1>1, <2>1, <2>2
  <1>9. ASSUME NEW k \in 1 .. a + b, NEW m \in 1 .. a + b, k <= m
        PROVE  all[k].source[2] <= all[m].source[2]
    <2>1. \A i \in 1 .. a : list[i].source[2] \in 1 .. n
      <3> SUFFICES ASSUME NEW i \in 1 .. a PROVE list[i].source[2] \in 1 .. n
        OBVIOUS
      <3>1. PICK g \in 1 .. n : \E j \in 1 .. Len(groups[g].domains) :
               list[i] = domainEntry(groups[g].domains[j], groups[g], g)
        BY <1>6
      <3>2. list[i].source = <<"group", g>>
        BY <3>1 DEF domainEntry
      <3> QED BY <3>2
    <2>2. \A j \in 1 .. b : last[j].source[2] = n + 1
      <3> SUFFICES ASSUME NEW j \in 1 .. b PROVE last[j].source[2] = n + 1
        OBVIOUS
      <3>1. last[j] = domainEntry(group.domains[j], group, n + 1)
        BY <1>2
      <3>2. last[j].source = <<"group", n + 1>>
        BY <3>1 DEF domainEntry
      <3> QED BY <3>2
    <2>3. CASE m \in 1 .. a
      <3>1. k \in 1 .. a
        BY <1>3, <1>9, <2>3
      <3> QED BY <1>4, <1>6, <1>9, <2>3, <3>1
    <2>4. CASE \E j \in 1 .. b : m = a + j
      <3>1. all[m].source[2] = n + 1
        BY <1>4, <2>2, <2>4
      <3>2. CASE k \in 1 .. a
        BY <1>1, <1>4, <2>1, <3>1, <3>2
      <3>3. CASE \E j \in 1 .. b : k = a + j
        <4>1. all[k].source[2] = n + 1
          BY <1>4, <2>2, <3>3
        <4> QED BY <1>1, <3>1, <4>1
      <3> QED BY <1>5, <3>2, <3>3
    <2> QED BY <1>5, <2>3, <2>4
  <1>10. Lists(all, longer)
    BY <1>1, <1>4, <1>7, <1>8, <1>9 DEF Lists
  <1> QED BY <1>10 DEF all, longer, last, n

(* The entries of the groups are those of their domains, in the groups'     *)
(* order.                                                                   *)
LEMMA GroupsEntriesAre ==
  ASSUME NEW groups \in Seq(Groups)
  PROVE  Lists(groupsEntries(groups), groups)
  <1> DEFINE T == {gs \in Seq(Groups) : Lists(groupsEntries(gs), gs)}
  <1>1. <<>> \in T
    <2>1. groupLists(<<>>) = <<>>
      BY EmptySeq DEF groupLists
    <2>2. groupsEntries(<<>>) = <<>>
      BY <2>1, EmptySeq DEF groupsEntries, groupLists, FlattenSeq
    <2>3. Lists(<<>>, <<>>)
      BY EmptySeq DEF Lists
    <2> QED BY <2>2, <2>3
  <1>2. ASSUME NEW gs \in T, NEW group \in Groups PROVE Append(gs, group) \in T
    <2>1. gs \in Seq(Groups) /\ Lists(groupsEntries(gs), gs)
      OBVIOUS
    <2>2. Append(gs, group) \in Seq(Groups)
      BY <2>1
    <2> QED BY <2>1, <2>2, GroupsEntriesType, GroupsEntriesAppend, ListsAppend
  <1>3. T = Seq(Groups)
    <2> HIDE DEF T
    <2>1. T \in SUBSET Seq(Groups)
      BY DEF T
    <2> QED BY <1>1, <1>2, <2>1, SequenceInduction
  <1> QED BY <1>3

(* The entries that the loops go through: those of the rules, then those of *)
(* the groups.                                                              *)
LEMMA EntriesAre ==
  ASSUME NEW p \in Profiles
  PROVE  /\ entries(p) \in Seq(Entries)
         /\ Len(p.rules) \in Nat
         /\ Len(groupsEntries(p.groups)) \in Nat
         /\ Len(entries(p)) = Len(p.rules) + Len(groupsEntries(p.groups))
         /\ \A i \in 1 .. Len(p.rules) :
               i \in 1 .. Len(entries(p)) /\ entries(p)[i] = ruleEntry(p.rules[i], i)
         /\ \A k \in 1 .. Len(groupsEntries(p.groups)) :
               /\ Len(p.rules) + k \in 1 .. Len(entries(p))
               /\ entries(p)[Len(p.rules) + k] = groupsEntries(p.groups)[k]
         /\ \A i \in 1 .. Len(entries(p)) :
               i \in 1 .. Len(p.rules) \/ i - Len(p.rules) \in 1 .. Len(groupsEntries(p.groups))
  <1>1. p.groups \in Seq(Groups) /\ p.rules \in Seq(Rules)
    BY DEF Profiles
  <1> DEFINE r == ruleEntries(p)
             q == groupsEntries(p.groups)
             n == Len(p.rules)
             m == Len(q)
  <1>2. r \in Seq(Entries) /\ q \in Seq(Entries) /\ Len(r) = n
    BY <1>1, RuleEntriesAre, GroupsEntriesType
  <1>3. n \in Nat /\ m \in Nat
    BY <1>1, <1>2, LenProperties
  <1>4. \A i \in 1 .. n : r[i] = ruleEntry(p.rules[i], i)
    BY RuleEntriesAre
  <1>5. entries(p) = r \o q
    BY DEF entries
  <1> HIDE DEF r, q
  <1>6. /\ r \o q \in Seq(Entries)
        /\ Len(r \o q) = n + m
        /\ \A i \in 1 .. n + m : (r \o q)[i] = IF i <= n THEN r[i] ELSE q[i - n]
    <2>1. /\ r \o q \in Seq(Entries)
          /\ Len(r \o q) = Len(r) + Len(q)
          /\ \A i \in 1 .. Len(r) + Len(q) :
                (r \o q)[i] = IF i <= Len(r) THEN r[i] ELSE q[i - Len(r)]
      BY <1>2, ConcatProperties
    <2> HIDE DEF n
    <2> QED BY <1>2, <2>1, Zenon
  <1> HIDE DEF n, m
  <1>7. \A i \in 1 .. n : i \in 1 .. n + m /\ (r \o q)[i] = r[i]
    BY <1>3, <1>6
  <1>8. \A k \in 1 .. m : n + k \in 1 .. n + m /\ (r \o q)[n + k] = q[k]
    <2> SUFFICES ASSUME NEW k \in 1 .. m
                 PROVE  n + k \in 1 .. n + m /\ (r \o q)[n + k] = q[k]
      OBVIOUS
    <2>1. n + k \in 1 .. n + m /\ ~ (n + k <= n) /\ (n + k) - n = k
      BY <1>3
    <2> QED BY <1>6, <2>1
  <1>9. \A i \in 1 .. n + m : i \in 1 .. n \/ i - n \in 1 .. m
    BY <1>3
  <1> QED BY <1>3, <1>4, <1>5, <1>6, <1>7, <1>8, <1>9 DEF n, m, q

(* They are a list of entries.                                              *)
LEMMA EntriesAreList ==
  ASSUME NEW p \in Profiles
  PROVE  /\ IsList(entries(p))
         /\ DOMAIN entries(p) = 1 .. Len(entries(p))
         /\ \A i \in 1 .. Len(entries(p)) : entries(p)[i] \in Entries
  <1>1. entries(p) \in Seq(Entries)
    BY EntriesAre
  <1>2. /\ Len(entries(p)) \in Nat
        /\ DOMAIN entries(p) = 1 .. Len(entries(p))
        /\ \A i \in 1 .. Len(entries(p)) : entries(p)[i] \in Entries
    BY <1>1, LenProperties, ElementOfSeq
  <1>3. \A entry \in Entries : Len(entry.domain) \in Nat
    <2> SUFFICES ASSUME NEW entry \in Entries PROVE Len(entry.domain) \in Nat
      OBVIOUS
    <2>1. entry.domain \in Seq(Labels)
      BY DEF Entries, DomainNames
    <2> QED BY <2>1, LenProperties
  <1> QED BY <1>2, <1>3 DEF IsList

(* The suffix test of matches.                                              *)
LEMMA CoversIsMatches ==
  ASSUME NEW entry \in Entries, NEW name \in Seq(Labels)
  PROVE  Covers(entry, name) <=> matches(entry, name)
  <1> DEFINE d == entry.domain
             k == Len(d)
  <1>1. d \in Seq(Labels) /\ d # <<>> /\ entry.subdomains \in BOOLEAN
    BY DEF Entries, DomainNames
  <1>2. k \in Nat /\ k # 0 /\ Len(name) \in Nat
    BY <1>1, LenProperties, EmptySeq
  <1>3. SubSeq(d, 1, k) = d /\ SubSeq(name, 1, Len(name)) = name
    BY <1>1, SubSeqFull
  <1>4. ASSUME NEW n \in 1 .. Len(name), SubSeq(name, 1, n) = d
        PROVE  n = k
    <2>1. \A i \in 1 .. n : name[i] \in Labels
      BY ElementOfSeq, <1>2
    <2>2. Len(SubSeq(name, 1, n)) = n
      BY <2>1, <1>2, SubSeqProperties
    <2> QED BY <1>4, <2>2
  <1>5. (\E n \in 1 .. Len(name) : SubSeq(name, 1, n) = d) <=> IsPrefix(d, name)
    <2> HIDE DEF d
    <2>1. ASSUME NEW n \in 1 .. Len(name), SubSeq(name, 1, n) = d PROVE IsPrefix(d, name)
      <3>1. Len(d) <= Len(name)
        BY <1>2, <1>4, <2>1
      <3>2. SubSeq(name, 1, Len(d)) = d
        BY <1>4, <2>1
      <3> QED BY <1>3, <3>1, <3>2, Zenon DEF IsPrefix
    <2>2. ASSUME IsPrefix(d, name) PROVE k \in 1 .. Len(name) /\ SubSeq(name, 1, k) = d
      BY <1>2, <1>3, <2>2 DEF IsPrefix
    <2> QED BY <2>1, <2>2
  <1>6. IsPrefix(d, name) <=> (name = d \/ IsStrictPrefix(d, name))
    <2> HIDE DEF d
    <2>1. name = d => IsPrefix(d, name)
      BY <1>2 DEF IsPrefix
    <2> QED BY <2>1 DEF IsStrictPrefix
  <1> QED BY <1>1, <1>5, <1>6 DEF Covers, matches

-----------------------------------------------------------------------------
(* The decision without loops.                                              *)

(* NewStore has looked at every window of the profile.                      *)
WindowsAccepted(p) ==
    /\ \A i \in DOMAIN p.pauses : validateWindow(p.pauses[i])
    /\ \A g \in DOMAIN p.groups : acceptedSchedules(p.groups[g].schedules)

(* A pause is in force in the minutes that its windows reserve.             *)
LEMMA PausedAsReserved ==
  ASSUME NEW p \in Profiles, WindowsAccepted(p), NEW at \in Days, NEW time \in Minutes
  PROVE  paused(p, at, time) <=> \E i \in DOMAIN p.pauses : InForce(p.pauses[i], at, time)
  <1>1. p.pauses \in Seq(Pauses)
    BY DEF Profiles
  <1>2. DOMAIN p.pauses = 1 .. Len(p.pauses)
    BY <1>1, LenProperties
  <1>3. ASSUME NEW i \in 1 .. Len(p.pauses)
        PROVE  windowActive(p.pauses[i], at, time) <=> InForce(p.pauses[i], at, time)
    <2>1. p.pauses[i] \in Pauses
      BY <1>1, ElementOfSeq
    <2>2. isWindow(p.pauses[i]) /\ validateWindow(p.pauses[i])
      BY <1>2, <2>1 DEF Pauses, isWindow, WindowsAccepted
    <2> QED BY <2>2, ActiveIffOccupied DEF InForce
  <1> QED BY <1>2, <1>3 DEF paused

(* The schedule that the loop finds is the one whose window reserves the    *)
(* minute.                                                                  *)
LEMMA ScheduledAsReserved ==
  ASSUME NEW schedules \in Seq(Schedules), acceptedSchedules(schedules),
         NEW at \in Days, NEW time \in Minutes
  PROVE  activeScheduledAction(schedules, at, time) =
            {i \in DOMAIN schedules : InForce(schedules[i], at, time)}
  <1>1. Len(schedules) \in Nat /\ DOMAIN schedules = 1 .. Len(schedules)
    BY LenProperties
  <1>2. \A i \in 1 .. Len(schedules) : isWindow(schedules[i])
    <2> SUFFICES ASSUME NEW i \in 1 .. Len(schedules) PROVE isWindow(schedules[i])
      OBVIOUS
    <2>1. schedules[i] \in Schedules
      BY ElementOfSeq
    <2> QED BY <2>1 DEF Schedules, isWindow
  <1>3. activeScheduledAction(schedules, at, time) =
           {i \in 1 .. Len(schedules) : windowActive(schedules[i], at, time)}
    BY <1>1, <1>2, OrderIrrelevant
  <1>4. ASSUME NEW i \in 1 .. Len(schedules)
        PROVE  windowActive(schedules[i], at, time) <=> InForce(schedules[i], at, time)
    <2>1. validateWindow(schedules[i])
      BY DEF acceptedSchedules
    <2> QED BY <1>2, <2>1, ActiveIffOccupied DEF InForce
  <1> QED BY <1>1, <1>3, <1>4

(* The action that an entry gives at a minute, as the parents read it.      *)
actionGiven(entry, scheduled) ==
    IF scheduled = {} THEN entry.action
    ELSE entry.schedules[CHOOSE i \in scheduled : TRUE].action

reservedAction(entry, at, time) ==
    actionGiven(entry, {i \in DOMAIN entry.schedules : InForce(entry.schedules[i], at, time)})

(* The schedules of every entry are some that NewStore accepted.            *)
LEMMA EntriesAccepted ==
  ASSUME NEW p \in Profiles, WindowsAccepted(p), NEW i \in 1 .. Len(entries(p))
  PROVE  acceptedSchedules(entries(p)[i].schedules)
  <1>1. CASE i \in 1 .. Len(p.rules)
    <2>1. entries(p)[i].schedules = <<>>
      <3>1. entries(p)[i] = ruleEntry(p.rules[i], i)
        BY <1>1, EntriesAre
      <3> QED BY <3>1 DEF ruleEntry
    <2>2. acceptedSchedules(<<>>)
      BY EmptySeq DEF acceptedSchedules
    <2> QED BY <2>1, <2>2
  <1>2. CASE i - Len(p.rules) \in 1 .. Len(groupsEntries(p.groups))
    <2> DEFINE k == i - Len(p.rules)
    <2>1. p.groups \in Seq(Groups)
      BY DEF Profiles
    <2>2. PICK g \in 1 .. Len(p.groups) : \E j \in 1 .. Len(p.groups[g].domains) :
             groupsEntries(p.groups)[k] = domainEntry(p.groups[g].domains[j], p.groups[g], g)
      BY <1>2, <2>1, GroupsEntriesAre DEF Lists
    <2>3. groupsEntries(p.groups)[k].schedules = p.groups[g].schedules
      BY <2>2 DEF domainEntry
    <2>4. entries(p)[i] = groupsEntries(p.groups)[k]
      <3>1. i \in Int /\ Len(p.rules) \in Nat /\ Len(p.rules) + k = i
        BY EntriesAre
      <3>2. entries(p)[Len(p.rules) + k] = groupsEntries(p.groups)[k]
        BY <1>2, EntriesAre
      <3> QED BY <3>1, <3>2
    <2>5. g \in DOMAIN p.groups
      BY <2>1, LenProperties
    <2> QED BY <2>3, <2>4, <2>5 DEF WindowsAccepted
  <1> QED BY <1>1, <1>2, EntriesAre

(* So an entry acts as the parents read it.                                 *)
LEMMA ActionAsReserved ==
  ASSUME NEW p \in Profiles, WindowsAccepted(p), NEW i \in 1 .. Len(entries(p)),
         NEW at \in Days, NEW time \in Minutes
  PROVE  scheduledAction(entries(p)[i], at, time) = reservedAction(entries(p)[i], at, time)
  <1> DEFINE e == entries(p)[i]
  <1>1. e \in Entries
    BY EntriesAreList
  <1>2. e.schedules \in Seq(Schedules)
    BY <1>1 DEF Entries
  <1>3. acceptedSchedules(e.schedules)
    BY EntriesAccepted
  <1> HIDE DEF e
  <1>4. activeScheduledAction(e.schedules, at, time) =
           {k \in DOMAIN e.schedules : InForce(e.schedules[k], at, time)}
    BY <1>2, <1>3, ScheduledAsReserved
  <1>5. scheduledAction(e, at, time) = reservedAction(e, at, time)
    BY <1>4 DEF scheduledAction, reservedAction, actionGiven
  <1> QED BY <1>5 DEF e

(* The reference's deciding entry is that of the loops.                     *)
LEMMA DecidingIsDecides ==
  ASSUME NEW p \in Profiles, NEW name \in Seq(Labels)
  PROVE  Deciding(p, name) =
            {i \in 1 .. Len(entries(p)) : Decides(entries(p), Len(entries(p)), name, i)}
  <1>1. \A i \in 1 .. Len(entries(p)) :
           Covers(entries(p)[i], name) <=> matches(entries(p)[i], name)
    BY EntriesAreList, CoversIsMatches
  <1>2. DOMAIN entries(p) = 1 .. Len(entries(p))
    BY EntriesAreList
  <1> QED BY <1>1, <1>2 DEF Deciding, Decides

(* There is at most one.                                                    *)
LEMMA DecidingIsUnique ==
  ASSUME NEW p \in Profiles, NEW name \in Seq(Labels),
         NEW i \in Deciding(p, name), NEW k \in Deciding(p, name)
  PROVE  i = k
  <1> DEFINE list == entries(p)
             n == Len(list)
  <1>1. n \in Nat /\ \A j \in 1 .. n : Len(list[j].domain) \in Nat
    BY EntriesAreList DEF IsList
  <1>2. i \in 1 .. n /\ Decides(list, n, name, i) /\ k \in 1 .. n /\ Decides(list, n, name, k)
    BY DecidingIsDecides
  <1> HIDE DEF n, list
  <1> DEFINE a == Len(list[i].domain)
             b == Len(list[k].domain)
  <1>3. a \in Nat /\ b \in Nat
    BY <1>1, <1>2
  <1>4. /\ b < a \/ (b = a /\ i <= k)
        /\ a < b \/ (a = b /\ k <= i)
    BY <1>2 DEF Decides
  <1> HIDE DEF a, b
  <1> QED BY <1>1, <1>2, <1>3, <1>4

(* What the loops say, whatever the clock shows: a pause, the action of the *)
(* entry that decides, or the default.                                      *)
LEMMA LoopsSay ==
  ASSUME NEW p \in Profiles, NEW name \in Seq(Labels), NEW at, NEW time
  PROVE  /\ paused(p, at, time) => DecideAt(p, name, at, time).action = "block"
         /\ ~ paused(p, at, time) =>
               /\ DecideAt(p, name, at, time).action =
                     decideByEntries(p, name, at, time).action
               /\ Deciding(p, name) = {} =>
                     DecideAt(p, name, at, time).action = p.default_action
               /\ \A i \in Deciding(p, name) :
                     DecideAt(p, name, at, time).action =
                        scheduledAction(entries(p)[i], at, time)
  <1> DEFINE list == entries(p)
             n == Len(list)
             d == decideByEntries(p, name, at, time)
  <1>1. DecidesFirst(p, name, at, time, n, d)
    BY EntriesAreList, LoopDecides
  <1>2. ASSUME Deciding(p, name) = {} PROVE d.action = p.default_action
    <2>1. ~ \E i \in 1 .. n : Decides(list, n, name, i)
      BY <1>2, DecidingIsDecides
    <2>2. d = undecided(p)
      BY <1>1, <2>1 DEF DecidesFirst
    <2> QED BY <2>2 DEF undecided
  <1>3. ASSUME NEW i \in Deciding(p, name)
        PROVE  d.action = scheduledAction(list[i], at, time)
    <2>1. i \in 1 .. n /\ Decides(list, n, name, i) /\ matches(list[i], name)
      BY DecidingIsDecides DEF Decides
    <2>2. PICK k \in 1 .. n : Decides(list, n, name, k) /\ d = decided(list[k], at, time)
      BY <1>1, <2>1 DEF DecidesFirst
    <2>3. k = i
      BY <2>2, DecidingIsDecides, DecidingIsUnique
    <2> QED BY <2>2, <2>3 DEF decided
  <1> HIDE DEF d, list
  <1> QED BY <1>2, <1>3 DEF DecideAt, d, list

(* The decision without loops: a pause in force, the entry that decides, or *)
(* the default.                                                             *)
LEMMA DecisionIs ==
  ASSUME NEW p \in Profiles, WindowsAccepted(p), NEW name \in Seq(Labels),
         NEW at \in Days, NEW time \in Minutes
  PROVE  /\ paused(p, at, time) => DecideAt(p, name, at, time).action = "block"
         /\ ~ paused(p, at, time) =>
               /\ DecideAt(p, name, at, time).action =
                     decideByEntries(p, name, at, time).action
               /\ Deciding(p, name) = {} =>
                     DecideAt(p, name, at, time).action = p.default_action
               /\ \A i \in Deciding(p, name) :
                     DecideAt(p, name, at, time).action =
                        reservedAction(entries(p)[i], at, time)
  <1>1. \A i \in Deciding(p, name) : i \in 1 .. Len(entries(p))
    BY DecidingIsDecides
  <1> QED BY <1>1, LoopsSay, ActionAsReserved

(* For every profile, name and minute: the loops decide as the reference    *)
(* says.                                                                    *)
THEOREM DecidesAsRead ==
  ASSUME NEW p \in Profiles, WindowsAccepted(p), NEW name \in Seq(Labels),
         NEW at \in Days, NEW time \in Minutes
  PROVE  DecideAt(p, name, at, time).action = Reference(p, name, at, time)
  <1>1. CASE paused(p, at, time)
    BY <1>1, DecisionIs, PausedAsReserved DEF Reference
  <1>2. CASE ~ paused(p, at, time) /\ Deciding(p, name) = {}
    BY <1>2, DecisionIs, PausedAsReserved DEF Reference
  <1>3. CASE ~ paused(p, at, time) /\ Deciding(p, name) # {}
    <2> DEFINE i == CHOOSE i \in Deciding(p, name) : TRUE
    <2>1. i \in Deciding(p, name)
      BY <1>3
    <2>2. Reference(p, name, at, time) = reservedAction(entries(p)[i], at, time)
      BY <1>3, PausedAsReserved DEF Reference, reservedAction, actionGiven
    <2> HIDE DEF i
    <2> QED BY <1>3, <2>1, <2>2, DecisionIs
  <1> QED BY <1>1, <1>2, <1>3

-----------------------------------------------------------------------------
(* What an edit changes.                                                    *)

(* Where an entry comes from.                                               *)
LEMMA EntryComesFrom ==
  ASSUME NEW p \in Profiles, NEW i \in 1 .. Len(entries(p))
  PROVE  \/ i \in 1 .. Len(p.rules) /\ entries(p)[i] = ruleEntry(p.rules[i], i)
         \/ /\ i \notin 1 .. Len(p.rules)
            /\ \E g \in 1 .. Len(p.groups) : \E j \in 1 .. Len(p.groups[g].domains) :
                  entries(p)[i] = domainEntry(p.groups[g].domains[j], p.groups[g], g)
  <1>1. CASE i \in 1 .. Len(p.rules)
    BY <1>1, EntriesAre
  <1>2. CASE i \notin 1 .. Len(p.rules)
    <2> DEFINE k == i - Len(p.rules)
    <2>1. k \in 1 .. Len(groupsEntries(p.groups)) /\ Len(p.rules) + k = i
      <3> DEFINE n == Len(p.rules)
      <3>1. n \in Nat /\ k \in 1 .. Len(groupsEntries(p.groups))
        BY <1>2, EntriesAre
      <3>4. i \in Int
        OBVIOUS
      <3>2. k = i - n
        OBVIOUS
      <3> HIDE DEF n, k
      <3>3. n + k = i
        BY <3>1, <3>2, <3>4
      <3> QED BY <3>1, <3>3 DEF n
    <2>2. entries(p)[Len(p.rules) + k] = groupsEntries(p.groups)[k]
      BY <2>1, EntriesAre
    <2>3. entries(p)[i] = groupsEntries(p.groups)[k]
      BY <2>1, <2>2
    <2>4. p.groups \in Seq(Groups)
      BY DEF Profiles
    <2> HIDE DEF k
    <2>5. \E g \in 1 .. Len(p.groups) : \E j \in 1 .. Len(p.groups[g].domains) :
             groupsEntries(p.groups)[k] = domainEntry(p.groups[g].domains[j], p.groups[g], g)
      BY <2>1, <2>4, GroupsEntriesAre DEF Lists
    <2> QED BY <1>2, <2>3, <2>5
  <1> QED BY <1>1, <1>2

(* Every entry knows its rule or its group.                                 *)
LEMMA SourceIs ==
    /\ \A rule, i : ruleEntry(rule, i).source = <<"rule", i>>
    /\ \A domain, group, g : domainEntry(domain, group, g).source = <<"group", g>>
  BY DEF ruleEntry, domainEntry

(* Entries that cover the same names.                                       *)
SameReach(entry, other) ==
    entry.domain = other.domain /\ entry.subdomains = other.subdomains

(* The entries of p are among those of q, in the same order.                *)
Embeds(f, p, q) ==
    /\ f \in [1 .. Len(entries(p)) -> 1 .. Len(entries(q))]
    /\ \A k, m \in 1 .. Len(entries(p)) : k < m => f[k] < f[m]
    /\ \A k \in 1 .. Len(entries(p)) : SameReach(entries(p)[k], entries(q)[f[k]])

(* An entry that decides in q would decide in p, if p has it.               *)
LEMMA StillDecides ==
  ASSUME NEW p \in Profiles, NEW q \in Profiles, NEW f, Embeds(f, p, q),
         NEW name \in Seq(Labels), NEW k \in 1 .. Len(entries(p)),
         f[k] \in Deciding(q, name)
  PROVE  k \in Deciding(p, name)
  <1> DEFINE old == entries(p)
             new == entries(q)
             n == Len(old)
             m == Len(new)
  <1>1. /\ n \in Nat /\ m \in Nat
        /\ \A i \in 1 .. n : Len(old[i].domain) \in Nat
    BY EntriesAreList DEF IsList
  <1>2. f[k] \in 1 .. m /\ Decides(new, m, name, f[k])
    BY DecidingIsDecides
  <1>3. \A i \in 1 .. n : /\ f[i] \in 1 .. m
                          /\ new[f[i]].domain = old[i].domain
                          /\ matches(new[f[i]], name) <=> matches(old[i], name)
    BY DEF Embeds, SameReach, matches
  <1>4. \A i, j \in 1 .. n : f[i] <= f[j] => i <= j
    <2>1. \A i, j \in 1 .. n : j < i => f[j] < f[i]
      BY DEF Embeds
    <2> HIDE DEF n, m
    <2> QED BY <1>1, <1>3, <2>1
  <1> HIDE DEF old, new, n, m
  <1>5. Decides(old, n, name, k)
    <2>1. k \in 1 .. n
      BY DEF n, old
    <2>2. matches(old[k], name)
      BY <1>2, <1>3, <2>1 DEF Decides
    <2>3. ASSUME NEW j \in 1 .. n, matches(old[j], name)
          PROVE  \/ Len(old[j].domain) < Len(old[k].domain)
                 \/ Len(old[j].domain) = Len(old[k].domain) /\ k <= j
      <3>1. f[j] \in 1 .. m /\ matches(new[f[j]], name)
        BY <1>3, <2>3
      <3>2. \/ Len(new[f[j]].domain) < Len(new[f[k]].domain)
            \/ Len(new[f[j]].domain) = Len(new[f[k]].domain) /\ f[k] <= f[j]
        BY <1>2, <3>1 DEF Decides
      <3>3. new[f[j]].domain = old[j].domain /\ new[f[k]].domain = old[k].domain
        BY <1>3, <2>1
      <3>4. f[k] <= f[j] => k <= j
        BY <1>4, <2>1
      <3> QED BY <3>2, <3>3, <3>4
    <2> QED BY <2>1, <2>2, <2>3 DEF Decides
  <1>6. k \in 1 .. n
    BY DEF n, old
  <1> QED BY <1>5, <1>6, DecidingIsDecides DEF n, old

(* When the entry that decides in q is one of p, the decision is the same.  *)
LEMMA SameDecision ==
  ASSUME NEW p \in Profiles, NEW q \in Profiles, WindowsAccepted(p), WindowsAccepted(q),
         p.pauses = q.pauses, NEW f, Embeds(f, p, q),
         NEW name \in Seq(Labels), NEW k \in 1 .. Len(entries(p)),
         f[k] \in Deciding(q, name), entries(p)[k] = entries(q)[f[k]],
         NEW at \in Days, NEW time \in Minutes
  PROVE  DecideAt(q, name, at, time).action = DecideAt(p, name, at, time).action
  <1>1. k \in Deciding(p, name)
    BY StillDecides
  <1>2. paused(p, at, time) <=> paused(q, at, time)
    BY DEF paused
  <1>3. CASE paused(p, at, time)
    BY <1>2, <1>3, DecisionIs
  <1>4. CASE ~ paused(p, at, time)
    <2>1. DecideAt(p, name, at, time).action = reservedAction(entries(p)[k], at, time)
      BY <1>1, <1>4, DecisionIs
    <2>2. DecideAt(q, name, at, time).action = reservedAction(entries(q)[f[k]], at, time)
      BY <1>2, <1>4, DecisionIs
    <2> QED BY <2>1, <2>2
  <1> QED BY <1>3, <1>4

(* What EditsAreLocal says of one edit and one name.                        *)
LocalEdit(p, q, name, at, time) ==
    /\ q.pauses = p.pauses
    /\ DecideAt(q, name, at, time).action # DecideAt(p, name, at, time).action
    => \A i \in Deciding(q, name) : entries(q)[i] \notin Range(entries(p))

(* An entry is at some place of the list.                                   *)
LEMMA EntryHasIndex ==
  ASSUME NEW p \in Profiles, NEW e \in Range(entries(p))
  PROVE  \E k \in 1 .. Len(entries(p)) : e = entries(p)[k]
  BY EntriesAreList DEF Range

(* A rule that is added changes the decisions that it takes, and no other.  *)
LEMMA AddedRuleIsLocal ==
  ASSUME NEW p \in Profiles, WindowsAccepted(p), NEW rule \in Rules,
         NEW q \in Profiles, WindowsAccepted(q),
         q = [p EXCEPT !.rules = Append(p.rules, rule)],
         NEW name \in Seq(Labels), NEW at \in Days, NEW time \in Minutes
  PROVE  LocalEdit(p, q, name, at, time)
  <1> SUFFICES ASSUME NEW i \in Deciding(q, name), entries(q)[i] \in Range(entries(p))
               PROVE  DecideAt(q, name, at, time).action = DecideAt(p, name, at, time).action
    BY DEF LocalEdit
  <1> DEFINE n == Len(p.rules)
             m == Len(groupsEntries(p.groups))
             f == [k \in 1 .. n + m |-> IF k <= n THEN k ELSE k + 1]
  <1>1. /\ p.rules \in Seq(Rules) /\ q.rules = Append(p.rules, rule)
        /\ q.groups = p.groups /\ q.pauses = p.pauses
    BY DEF Profiles
  <1>2. n \in Nat /\ m \in Nat /\ Len(entries(p)) = n + m
    BY EntriesAre
  <1>3. Len(q.rules) = n + 1 /\ \A k \in 1 .. n : q.rules[k] = p.rules[k]
    BY <1>1, AppendProperties
  <1>4. Len(entries(q)) = n + 1 + m
    BY <1>1, <1>3, EntriesAre
  <1>5. \A k \in 1 .. n : entries(q)[k] = entries(p)[k]
    <2> SUFFICES ASSUME NEW k \in 1 .. n PROVE entries(q)[k] = entries(p)[k]
      OBVIOUS
    <2>1. k \in 1 .. Len(q.rules)
      BY <1>2, <1>3
    <2>2. entries(q)[k] = ruleEntry(q.rules[k], k) /\ entries(p)[k] = ruleEntry(p.rules[k], k)
      BY <2>1, EntriesAre
    <2> QED BY <1>3, <2>2
  <1>6. \A k \in 1 .. m : entries(q)[n + 1 + k] = entries(p)[n + k]
    <2> SUFFICES ASSUME NEW k \in 1 .. m PROVE entries(q)[n + 1 + k] = entries(p)[n + k]
      OBVIOUS
    <2>1. entries(p)[n + k] = groupsEntries(p.groups)[k]
      BY EntriesAre
    <2>2. entries(q)[Len(q.rules) + k] = groupsEntries(q.groups)[k]
      BY <1>1, EntriesAre
    <2> QED BY <1>1, <1>3, <2>1, <2>2
  <1> HIDE DEF n, m
  <1>7. \A k \in 1 .. n + m : /\ f[k] \in 1 .. n + 1 + m
                              /\ entries(q)[f[k]] = entries(p)[k]
    <2> SUFFICES ASSUME NEW k \in 1 .. n + m
                 PROVE  f[k] \in 1 .. n + 1 + m /\ entries(q)[f[k]] = entries(p)[k]
      OBVIOUS
    <2>1. CASE k <= n
      <3>1. k \in 1 .. n /\ f[k] = k /\ k \in 1 .. n + 1 + m
        BY <1>2, <2>1
      <3> HIDE DEF f
      <3> QED BY <1>5, <3>1
    <2>2. CASE ~ (k <= n)
      <3>1. k - n \in 1 .. m /\ n + 1 + (k - n) = k + 1 /\ n + (k - n) = k /\ f[k] = k + 1
        BY <1>2, <2>2
      <3>2. entries(q)[n + 1 + (k - n)] = entries(p)[n + (k - n)]
        BY <1>6, <3>1
      <3>3. k + 1 \in 1 .. n + 1 + m
        BY <1>2
      <3> HIDE DEF f
      <3> QED BY <3>1, <3>2, <3>3
    <2> QED BY <2>1, <2>2
  <1>8. \A k, j \in 1 .. n + m : k < j => f[k] < f[j]
    BY <1>2
  <1>9. Embeds(f, p, q)
    <2>1. f \in [1 .. n + m -> 1 .. n + 1 + m]
      BY <1>7
    <2> HIDE DEF f
    <2> QED BY <1>2, <1>4, <1>7, <1>8, <2>1 DEF Embeds, SameReach
  <1>10. i \in 1 .. n + 1 + m
    BY <1>4, DecidingIsDecides
  <1>11. i # n + 1
    <2> SUFFICES ASSUME i = n + 1 PROVE FALSE
      OBVIOUS
    <2>1. PICK k \in 1 .. Len(entries(p)) : entries(q)[i] = entries(p)[k]
      BY EntryHasIndex
    <2>2. entries(q)[i].source = <<"rule", n + 1>>
      <3>1. n + 1 \in 1 .. Len(q.rules)
        BY <1>2, <1>3
      <3>2. entries(q)[n + 1] = ruleEntry(q.rules[n + 1], n + 1)
        BY <3>1, EntriesAre
      <3>3. entries(q)[i] = ruleEntry(q.rules[n + 1], n + 1)
        BY <3>2
      <3> QED BY <3>3, SourceIs
    <2>3. CASE k \in 1 .. n /\ entries(p)[k] = ruleEntry(p.rules[k], k)
      <3>1. entries(p)[k].source = <<"rule", k>>
        BY <2>3, SourceIs
      <3> QED BY <1>2, <2>1, <2>2, <2>3, <3>1
    <2>4. ASSUME NEW g \in 1 .. Len(p.groups), NEW j \in 1 .. Len(p.groups[g].domains),
                 entries(p)[k] = domainEntry(p.groups[g].domains[j], p.groups[g], g)
          PROVE  FALSE
      <3>1. entries(p)[k].source = <<"group", g>>
        BY <2>4, SourceIs
      <3> QED BY <2>1, <2>2, <3>1
    <2> QED BY <2>3, <2>4, EntryComesFrom DEF n
  <1>12. PICK k \in 1 .. n + m : f[k] = i
    <2>1. CASE i <= n
      <3>1. i \in 1 .. n + m /\ f[i] = i
        BY <1>2, <1>10, <2>1
      <3> QED BY <3>1
    <2>2. CASE ~ (i <= n)
      <3>1. i - 1 \in 1 .. n + m /\ f[i - 1] = i
        BY <1>2, <1>10, <1>11, <2>2
      <3> QED BY <3>1
    <2> QED BY <2>1, <2>2
  <1> HIDE DEF f
  <1> QED BY <1>1, <1>2, <1>7, <1>9, <1>12, SameDecision

(* Entries at the same places: what decides in q, and is in p as it is in q, *)
(* decides the same in p.                                                    *)
LEMMA SamePlacesDecideAlike ==
  ASSUME NEW p \in Profiles, NEW q \in Profiles, WindowsAccepted(p), WindowsAccepted(q),
         p.pauses = q.pauses, Len(entries(p)) <= Len(entries(q)),
         \A k \in 1 .. Len(entries(p)) : SameReach(entries(p)[k], entries(q)[k]),
         NEW name \in Seq(Labels), NEW i \in Deciding(q, name),
         i <= Len(entries(p)), entries(p)[i] = entries(q)[i],
         NEW at \in Days, NEW time \in Minutes
  PROVE  DecideAt(q, name, at, time).action = DecideAt(p, name, at, time).action
  <1> DEFINE n == Len(entries(p))
             m == Len(entries(q))
             f == [k \in 1 .. n |-> k]
  <1>1. n \in Nat /\ m \in Nat
    BY EntriesAreList DEF IsList
  <1>2. i \in 1 .. m
    BY DecidingIsDecides
  <1>3. n <= m /\ i <= n
    OBVIOUS
  <1>4. \A k \in 1 .. n : SameReach(entries(p)[k], entries(q)[k])
    OBVIOUS
  <1> HIDE DEF n, m
  <1>5. f \in [1 .. n -> 1 .. m] /\ i \in 1 .. n /\ f[i] = i
    BY <1>1, <1>2, <1>3
  <1>6. \A k \in 1 .. n : f[k] = k
    OBVIOUS
  <1> HIDE DEF f
  <1>7. Embeds(f, p, q)
    BY <1>4, <1>5, <1>6 DEF Embeds, n, m
  <1> QED BY <1>5, <1>7, SameDecision DEF n

(* Nor does a group that is added.                                          *)
LEMMA AddedGroupIsLocal ==
  ASSUME NEW p \in Profiles, WindowsAccepted(p), NEW group \in Groups,
         NEW q \in Profiles, WindowsAccepted(q),
         q = [p EXCEPT !.groups = Append(p.groups, group)],
         NEW name \in Seq(Labels), NEW at \in Days, NEW time \in Minutes
  PROVE  LocalEdit(p, q, name, at, time)
  <1> SUFFICES ASSUME NEW i \in Deciding(q, name), entries(q)[i] \in Range(entries(p))
               PROVE  DecideAt(q, name, at, time).action = DecideAt(p, name, at, time).action
    BY DEF LocalEdit
  <1> DEFINE c == Len(p.groups)
             last == groupEntries(group, c + 1)
             old == entries(p)
             n == Len(old)
             m == Len(last)
  <1>1. /\ p.groups \in Seq(Groups) /\ q.groups = Append(p.groups, group)
        /\ q.rules = p.rules /\ q.pauses = p.pauses
    BY DEF Profiles
  <1>2. c \in Nat
    BY <1>1, LenProperties
  <1>3. /\ last \in Seq(Entries) /\ m \in Nat
        /\ \A j \in 1 .. m : last[j].source = <<"group", c + 1>>
    <2>1. /\ last \in Seq(Entries) /\ m = Len(group.domains)
          /\ \A j \in 1 .. Len(group.domains) :
                last[j] = domainEntry(group.domains[j], group, c + 1)
      BY <1>2, GroupEntriesAre
    <2>2. m \in Nat
      BY <2>1, LenProperties
    <2> HIDE DEF last
    <2> QED BY <2>1, <2>2, SourceIs
  <1>4. old \in Seq(Entries) /\ n \in Nat
    BY EntriesAre, LenProperties
  <1>5. entries(q) = old \o last
    <2>1. groupsEntries(q.groups) = groupsEntries(p.groups) \o last
      BY <1>1, GroupsEntriesAppend
    <2>2. ruleEntries(q) = ruleEntries(p)
      BY <1>1 DEF ruleEntries
    <2>3. ruleEntries(p) \in Seq(Entries) /\ groupsEntries(p.groups) \in Seq(Entries)
      BY <1>1, RuleEntriesAre, GroupsEntriesType
    <2>4. entries(q) = ruleEntries(p) \o (groupsEntries(p.groups) \o last)
      BY <2>1, <2>2, Zenon DEF entries
    <2>5. old = ruleEntries(p) \o groupsEntries(p.groups)
      BY DEF entries
    <2> HIDE DEF last, old
    <2>6. ruleEntries(p) \o (groupsEntries(p.groups) \o last) =
             (ruleEntries(p) \o groupsEntries(p.groups)) \o last
      BY <1>3, <2>3, ConcatAssociative
    <2> QED BY <2>4, <2>5, <2>6
  <1> HIDE DEF last, old
  <1>6. /\ Len(old \o last) = n + m
        /\ \A k \in 1 .. n : (old \o last)[k] = old[k]
        /\ \A k \in 1 .. n + m : k \notin 1 .. n => (old \o last)[k] = last[k - n]
    <2>1. /\ Len(old \o last) = n + m
          /\ \A k \in 1 .. n + m : (old \o last)[k] = IF k <= n THEN old[k] ELSE last[k - n]
      BY <1>3, <1>4, ConcatProperties
    <2> HIDE DEF n, m
    <2>2. n \in Nat /\ m \in Nat
      BY <1>3, <1>4
    <2>3. \A k \in 1 .. n : k \in 1 .. n + m /\ k <= n
      BY <2>2
    <2>4. \A k \in 1 .. n + m : k \notin 1 .. n => ~ (k <= n)
      BY <2>2
    <2> QED BY <2>1, <2>3, <2>4
  <1>7. \A k \in 1 .. n : entries(q)[k] = entries(p)[k]
    BY <1>5, <1>6 DEF old
  <1>8. n <= Len(entries(q)) /\ Len(entries(q)) = n + m
    <2> HIDE DEF n, m
    <2> QED BY <1>3, <1>4, <1>5, <1>6
  <1>9. i \in 1 .. n + m
    BY <1>8, DecidingIsDecides
  <1>10. i \in 1 .. n
    <2> SUFFICES ASSUME i \notin 1 .. n PROVE FALSE
      OBVIOUS
    <2>1. entries(q)[i] = last[i - n]
      BY <1>5, <1>6, <1>9
    <2>2. i - n \in 1 .. m
      <3> HIDE DEF n, m
      <3> QED BY <1>3, <1>4, <1>9
    <2>3. entries(q)[i].source = <<"group", c + 1>>
      BY <1>3, <2>1, <2>2
    <2>4. PICK k \in 1 .. Len(entries(p)) : entries(q)[i] = entries(p)[k]
      BY EntryHasIndex
    <2>5. ASSUME entries(p)[k] = ruleEntry(p.rules[k], k) PROVE FALSE
      <3>1. entries(p)[k].source = <<"rule", k>>
        BY <2>5, SourceIs
      <3> QED BY <2>3, <2>4, <3>1
    <2>6. ASSUME NEW g \in 1 .. Len(p.groups), NEW j \in 1 .. Len(p.groups[g].domains),
                 entries(p)[k] = domainEntry(p.groups[g].domains[j], p.groups[g], g)
          PROVE  FALSE
      <3>1. entries(p)[k].source = <<"group", g>>
        BY <2>6, SourceIs
      <3>2. g = c + 1
        BY <2>3, <2>4, <3>1
      <3>3. g \in 1 .. c
        OBVIOUS
      <3> HIDE DEF c
      <3> QED BY <1>2, <3>2, <3>3
    <2> QED BY <2>5, <2>6, EntryComesFrom
  <1>11. i <= Len(entries(p))
    <2>1. i <= n
      <3> HIDE DEF n
      <3> QED BY <1>4, <1>10
    <2> QED BY <2>1 DEF old
  <1> QED BY <1>1, <1>7, <1>8, <1>10, <1>11, SamePlacesDecideAlike DEF SameReach, old

(* Lists of groups that differ in schedules only.                           *)
SameShape(before, after) ==
    /\ Len(before) = Len(after)
    /\ \A g \in 1 .. Len(before) : /\ before[g].domains = after[g].domains
                                   /\ before[g].action = after[g].action

(* Their entries correspond, place by place.                                *)
SamePlaces(list, other, before, after) ==
    /\ Len(list) = Len(other)
    /\ \A k \in 1 .. Len(list) :
          \E g \in 1 .. Len(before) : \E j \in 1 .. Len(before[g].domains) :
             /\ list[k] = domainEntry(before[g].domains[j], before[g], g)
             /\ other[k] = domainEntry(before[g].domains[j], after[g], g)

(* Groups of equal domains, added at the same place, keep the               *)
(* correspondence.                                                          *)
LEMMA SamePlacesAppend ==
  ASSUME NEW before \in Seq(Groups), NEW after \in Seq(Groups), Len(before) = Len(after),
         NEW list \in Seq(Entries), NEW other \in Seq(Entries),
         SamePlaces(list, other, before, after),
         NEW x \in Groups, NEW y \in Groups, x.domains = y.domains
  PROVE  SamePlaces(list \o groupEntries(x, Len(before) + 1),
                    other \o groupEntries(y, Len(after) + 1),
                    Append(before, x), Append(after, y))
  <1> DEFINE n == Len(before)
             a == Len(list)
             u == groupEntries(x, n + 1)
             v == groupEntries(y, n + 1)
             b == Len(u)
             oldgroups == Append(before, x)
             newgroups == Append(after, y)
             all == list \o u
             rest == other \o v
  <1>1. /\ n \in Nat /\ Len(oldgroups) = n + 1
        /\ \A g \in 1 .. n : oldgroups[g] = before[g] /\ newgroups[g] = after[g]
        /\ oldgroups[n + 1] = x /\ newgroups[n + 1] = y
    BY AppendProperties, LenProperties
  <1>2. /\ u \in Seq(Entries) /\ v \in Seq(Entries) /\ Len(v) = b /\ b = Len(x.domains)
        /\ \A j \in 1 .. b : /\ u[j] = domainEntry(x.domains[j], x, n + 1)
                             /\ v[j] = domainEntry(x.domains[j], y, n + 1)
    BY <1>1, GroupEntriesAre
  <1>3. a \in Nat /\ b \in Nat /\ Len(other) = a
    BY <1>2, LenProperties DEF SamePlaces
  <1>4. \A k \in 1 .. a : \E g \in 1 .. n : \E j \in 1 .. Len(before[g].domains) :
             /\ list[k] = domainEntry(before[g].domains[j], before[g], g)
             /\ other[k] = domainEntry(before[g].domains[j], after[g], g)
    BY DEF SamePlaces
  <1>5. n = Len(before) /\ n = Len(after)
    OBVIOUS
  <1> HIDE DEF u, v, oldgroups, newgroups, n
  <1>6. /\ Len(all) = a + b /\ Len(rest) = a + b
        /\ \A k \in 1 .. a + b : /\ all[k] = IF k <= a THEN list[k] ELSE u[k - a]
                                 /\ rest[k] = IF k <= a THEN other[k] ELSE v[k - a]
    <2>1. /\ Len(all) = a + b
          /\ \A k \in 1 .. a + b : all[k] = IF k <= a THEN list[k] ELSE u[k - a]
      BY <1>2, ConcatProperties
    <2>2. /\ Len(rest) = Len(other) + Len(v)
          /\ \A k \in 1 .. Len(other) + Len(v) :
                rest[k] = IF k <= Len(other) THEN other[k] ELSE v[k - Len(other)]
      <3>1. v \in Seq(Entries) /\ other \in Seq(Entries)
        BY <1>2
      <3> QED BY <3>1, ConcatProperties
    <2> HIDE DEF a, b, all, rest
    <2>3. /\ Len(rest) = a + b
          /\ \A k \in 1 .. a + b : rest[k] = IF k <= a THEN other[k] ELSE v[k - a]
      BY <1>2, <1>3, <2>2, Zenon
    <2> QED BY <2>1, <2>3
  <1> HIDE DEF a, b, all, rest
  <1>7. ASSUME NEW k \in 1 .. a + b
        PROVE  \E g \in 1 .. n + 1 : \E j \in 1 .. Len(oldgroups[g].domains) :
                  /\ all[k] = domainEntry(oldgroups[g].domains[j], oldgroups[g], g)
                  /\ rest[k] = domainEntry(oldgroups[g].domains[j], newgroups[g], g)
    <2>1. CASE k <= a
      <3>1. k \in 1 .. a /\ all[k] = list[k] /\ rest[k] = other[k]
        BY <1>3, <1>6, <2>1
      <3>2. PICK g \in 1 .. n : \E j \in 1 .. Len(before[g].domains) :
             /\ list[k] = domainEntry(before[g].domains[j], before[g], g)
             /\ other[k] = domainEntry(before[g].domains[j], after[g], g)
        BY <1>4, <3>1
      <3>3. g \in 1 .. n + 1 /\ oldgroups[g] = before[g] /\ newgroups[g] = after[g]
        BY <1>1
      <3> QED BY <3>1, <3>2, <3>3
    <2>2. CASE ~ (k <= a)
      <3>1. k - a \in 1 .. b /\ n + 1 \in 1 .. n + 1
        BY <1>1, <1>3, <2>2
      <3>2. all[k] = u[k - a] /\ rest[k] = v[k - a]
        BY <1>6, <2>2
      <3>3. /\ all[k] = domainEntry(x.domains[k - a], x, n + 1)
            /\ rest[k] = domainEntry(x.domains[k - a], y, n + 1)
        BY <1>2, <3>1, <3>2
      <3> DEFINE j == k - a
      <3>4. /\ j \in 1 .. Len(oldgroups[n + 1].domains)
            /\ all[k] = domainEntry(oldgroups[n + 1].domains[j], oldgroups[n + 1], n + 1)
            /\ rest[k] = domainEntry(oldgroups[n + 1].domains[j], newgroups[n + 1], n + 1)
        BY <1>1, <1>2, <3>1, <3>3
      <3> HIDE DEF j
      <3> QED BY <3>1, <3>4
    <2> QED BY <2>1, <2>2
  <1>8. SamePlaces(all, rest, oldgroups, newgroups)
    BY <1>1, <1>6, <1>7 DEF SamePlaces
  <1> QED BY <1>5, <1>8 DEF all, rest, oldgroups, newgroups, u, v

(* Groups that differ in schedules only yield entries that do.              *)
LEMMA SameShapeSamePlaces ==
  ASSUME NEW before \in Seq(Groups), NEW after \in Seq(Groups), SameShape(before, after)
  PROVE  SamePlaces(groupsEntries(before), groupsEntries(after), before, after)
  <1> DEFINE Alike(gs) == \A hs \in Seq(Groups) :
                SameShape(gs, hs) => SamePlaces(groupsEntries(gs), groupsEntries(hs), gs, hs)
             T == {gs \in Seq(Groups) : Alike(gs)}
  <1>1. <<>> \in T
    <2> SUFFICES ASSUME NEW hs \in Seq(Groups), SameShape(<<>>, hs)
                 PROVE  SamePlaces(groupsEntries(<<>>), groupsEntries(hs), <<>>, hs)
      OBVIOUS
    <2>1. hs = <<>>
      BY EmptySeq DEF SameShape
    <2>2. groupLists(<<>>) = <<>>
      BY EmptySeq DEF groupLists
    <2>3. groupsEntries(<<>>) = <<>>
      BY <2>2, EmptySeq DEF groupsEntries, groupLists, FlattenSeq
    <2> QED BY <2>1, <2>3, EmptySeq DEF SamePlaces
  <1>2. ASSUME NEW gs \in T, NEW x \in Groups PROVE Append(gs, x) \in T
    <2>1. gs \in Seq(Groups) /\ Append(gs, x) \in Seq(Groups) /\ Alike(gs)
      OBVIOUS
    <2> SUFFICES ASSUME NEW hs \in Seq(Groups), SameShape(Append(gs, x), hs)
                 PROVE  SamePlaces(groupsEntries(Append(gs, x)), groupsEntries(hs), Append(gs, x), hs)
      BY <2>1
    <2> HIDE DEF Alike, T
    <2> DEFINE n == Len(gs)
               longer == Append(gs, x)
    <2>2. /\ n \in Nat /\ Len(longer) = n + 1 /\ longer[n + 1] = x
          /\ \A g \in 1 .. n : longer[g] = gs[g]
      BY <2>1, AppendProperties, LenProperties
    <2>3. Len(hs) = n + 1 /\ hs # <<>>
      <3>1. Len(hs) = n + 1
        BY <2>2 DEF SameShape
      <3>2. Len(hs) # 0
        <4> HIDE DEF n
        <4> QED BY <2>2, <3>1
      <3> QED BY <3>1, <3>2, EmptySeq
    <2>4. PICK front \in Seq(Groups), y \in Groups : hs = Append(front, y)
      BY <2>3, SequenceEmptyOrAppend
    <2>5. /\ Len(hs) = Len(front) + 1 /\ hs[Len(front) + 1] = y /\ Len(front) \in Nat
          /\ \A g \in 1 .. Len(front) : hs[g] = front[g]
      BY <2>4, AppendProperties, LenProperties
    <2>6. Len(front) = n
      <3> HIDE DEF n
      <3> QED BY <2>2, <2>3, <2>5
    <2>7. \A g \in 1 .. n + 1 : longer[g].domains = hs[g].domains /\ longer[g].action = hs[g].action
      BY <2>2 DEF SameShape
    <2>8. x.domains = y.domains
      <3>1. n + 1 \in 1 .. n + 1
        BY <2>2
      <3> HIDE DEF n, longer
      <3> QED BY <2>2, <2>5, <2>6, <2>7, <3>1
    <2>9. SameShape(gs, front)
      <3> SUFFICES ASSUME NEW g \in 1 .. n
                   PROVE  gs[g].domains = front[g].domains /\ gs[g].action = front[g].action
        BY <2>6 DEF SameShape
      <3>1. g \in 1 .. n + 1 /\ longer[g] = gs[g] /\ hs[g] = front[g]
        BY <2>2, <2>5, <2>6
      <3> HIDE DEF longer, n
      <3> QED BY <2>7, <3>1
    <2>10. SamePlaces(groupsEntries(gs), groupsEntries(front), gs, front)
      BY <2>1, <2>9 DEF Alike
    <2>11. /\ groupsEntries(gs) \in Seq(Entries) /\ groupsEntries(front) \in Seq(Entries)
           /\ groupsEntries(longer) = groupsEntries(gs) \o groupEntries(x, n + 1)
           /\ groupsEntries(hs) = groupsEntries(front) \o groupEntries(y, Len(front) + 1)
      BY <2>1, <2>4, GroupsEntriesType, GroupsEntriesAppend
    <2>12. SamePlaces(groupsEntries(gs) \o groupEntries(x, Len(gs) + 1),
                      groupsEntries(front) \o groupEntries(y, Len(front) + 1),
                      Append(gs, x), Append(front, y))
      BY <2>1, <2>6, <2>8, <2>10, <2>11, SamePlacesAppend
    <2> QED BY <2>4, <2>11, <2>12
  <1>3. T = Seq(Groups)
    <2> HIDE DEF T
    <2>1. T \in SUBSET Seq(Groups)
      BY DEF T
    <2> QED BY <1>1, <1>2, <2>1, SequenceInduction
  <1> QED BY <1>3

(* Editing the schedules of a group changes the decisions that it takes, and*)
(* no other.                                                                *)
LEMMA EditedSchedulesAreLocal ==
  ASSUME NEW p \in Profiles, WindowsAccepted(p), NEW q \in Profiles, WindowsAccepted(q),
         p.rules = q.rules, p.pauses = q.pauses,
         NEW at \in 1 .. Len(p.groups), SameShape(p.groups, q.groups),
         p.groups[at].schedules # q.groups[at].schedules,
         \A g \in 1 .. Len(p.groups) : g # at => p.groups[g] = q.groups[g],
         NEW name \in Seq(Labels), NEW day \in Days, NEW time \in Minutes
  PROVE  LocalEdit(p, q, name, day, time)
  <1> SUFFICES ASSUME NEW i \in Deciding(q, name), entries(q)[i] \in Range(entries(p))
               PROVE  DecideAt(q, name, day, time).action = DecideAt(p, name, day, time).action
    BY DEF LocalEdit
  <1> DEFINE n == Len(p.rules)
             list == groupsEntries(p.groups)
             other == groupsEntries(q.groups)
             m == Len(list)
  <1>1. p.groups \in Seq(Groups) /\ q.groups \in Seq(Groups)
    BY DEF Profiles
  <1>2. SamePlaces(list, other, p.groups, q.groups)
    BY <1>1, SameShapeSamePlaces
  <1>3. n \in Nat /\ m \in Nat /\ Len(entries(p)) = n + m
    BY EntriesAre
  <1>4. Len(q.rules) = n /\ Len(other) = m
    BY <1>2 DEF SamePlaces
  <1>5. Len(entries(q)) = n + m
    BY <1>4, EntriesAre
  <1>6. \A k \in 1 .. n : entries(p)[k] = entries(q)[k]
    <2> SUFFICES ASSUME NEW k \in 1 .. n PROVE entries(p)[k] = entries(q)[k]
      OBVIOUS
    <2>1. k \in 1 .. Len(q.rules)
      BY <1>4
    <2>2. entries(q)[k] = ruleEntry(q.rules[k], k) /\ entries(p)[k] = ruleEntry(p.rules[k], k)
      BY <2>1, EntriesAre
    <2> QED BY <2>2
  <1>7. ASSUME NEW k \in 1 .. m
        PROVE  \E g \in 1 .. Len(p.groups) : \E j \in 1 .. Len(p.groups[g].domains) :
                  /\ entries(p)[n + k] = domainEntry(p.groups[g].domains[j], p.groups[g], g)
                  /\ entries(q)[n + k] = domainEntry(p.groups[g].domains[j], q.groups[g], g)
    <2>1. entries(p)[n + k] = list[k]
      BY EntriesAre
    <2>2. k \in 1 .. Len(groupsEntries(q.groups))
      BY <1>4
    <2>3. entries(q)[Len(q.rules) + k] = groupsEntries(q.groups)[k]
      BY <2>2, EntriesAre
    <2>4. entries(q)[n + k] = other[k]
      BY <1>4, <2>3
    <2> QED BY <1>2, <2>1, <2>4 DEF SamePlaces
  <1> HIDE DEF n, m, list, other
  <1>8. ASSUME NEW k \in 1 .. n + m, k \notin 1 .. n
        PROVE  \E g \in 1 .. Len(p.groups) : \E j \in 1 .. Len(p.groups[g].domains) :
                  /\ entries(p)[k] = domainEntry(p.groups[g].domains[j], p.groups[g], g)
                  /\ entries(q)[k] = domainEntry(p.groups[g].domains[j], q.groups[g], g)
    <2>1. k - n \in 1 .. m /\ n + (k - n) = k
      BY <1>3, <1>8
    <2> DEFINE h == k - n
    <2>2. h \in 1 .. m /\ n + h = k
      BY <2>1
    <2> HIDE DEF h
    <2> QED BY <1>7, <2>2
  <1>9. \A k \in 1 .. n + m : SameReach(entries(p)[k], entries(q)[k])
    <2> SUFFICES ASSUME NEW k \in 1 .. n + m PROVE SameReach(entries(p)[k], entries(q)[k])
      OBVIOUS
    <2>1. CASE k \in 1 .. n
      BY <1>6, <2>1 DEF SameReach
    <2>2. CASE k \notin 1 .. n
      <3>1. PICK g \in 1 .. Len(p.groups) : \E j \in 1 .. Len(p.groups[g].domains) :
                  /\ entries(p)[k] = domainEntry(p.groups[g].domains[j], p.groups[g], g)
                  /\ entries(q)[k] = domainEntry(p.groups[g].domains[j], q.groups[g], g)
        BY <1>8, <2>2
      <3> QED BY <3>1 DEF SameReach, domainEntry
    <2> QED BY <2>1, <2>2
  <1>10. i \in 1 .. n + m
    BY <1>5, DecidingIsDecides
  <1>11. entries(p)[i] = entries(q)[i]
    <2>1. CASE i \in 1 .. n
      BY <1>6, <2>1
    <2>2. CASE i \notin 1 .. n
      <3>1. PICK g \in 1 .. Len(p.groups) : \E j \in 1 .. Len(p.groups[g].domains) :
                  /\ entries(p)[i] = domainEntry(p.groups[g].domains[j], p.groups[g], g)
                  /\ entries(q)[i] = domainEntry(p.groups[g].domains[j], q.groups[g], g)
        BY <1>8, <1>10, <2>2
      <3>2. CASE g # at
        BY <3>1, <3>2
      <3>3. CASE g = at
        <4>1. /\ entries(q)[i].source = <<"group", at>>
              /\ entries(q)[i].schedules = q.groups[at].schedules
          BY <3>1, <3>3 DEF domainEntry
        <4>2. PICK k \in 1 .. Len(entries(p)) : entries(q)[i] = entries(p)[k]
          BY EntryHasIndex
        <4>3. ASSUME entries(p)[k] = ruleEntry(p.rules[k], k) PROVE FALSE
          <5>1. entries(p)[k].source = <<"rule", k>>
            BY <4>3, SourceIs
          <5> QED BY <4>1, <4>2, <5>1
        <4>4. ASSUME NEW h \in 1 .. Len(p.groups), NEW j \in 1 .. Len(p.groups[h].domains),
                     entries(p)[k] = domainEntry(p.groups[h].domains[j], p.groups[h], h)
              PROVE  FALSE
          <5>1. /\ entries(p)[k].source = <<"group", h>>
                /\ entries(p)[k].schedules = p.groups[h].schedules
            BY <4>4 DEF domainEntry
          <5>2. h = at
            BY <4>1, <4>2, <5>1
          <5> QED BY <4>1, <4>2, <5>1, <5>2
        <4> QED BY <4>3, <4>4, EntryComesFrom
      <3> QED BY <3>2, <3>3
    <2> QED BY <2>1, <2>2
  <1>12. Len(entries(p)) <= Len(entries(q)) /\ i <= Len(entries(p))
    <2>1. n + m \in Nat /\ i <= n + m
      BY <1>3, <1>10
    <2> QED BY <1>3, <1>5, <2>1
  <1> QED BY <1>3, <1>9, <1>11, <1>12, SamePlacesDecideAlike

-----------------------------------------------------------------------------
(* What the clock changes.                                                  *)
(* A window is in force at both minutes, or at neither.                     *)
SameForce(window, day, time, toDay, toTime) ==
    InForce(window, day, time) <=> InForce(window, toDay, toTime)

(* While the pauses, and the schedules of the entry that decides, stay in or*)
(* out of force, so does the decision.                                      *)
LEMMA DecisionMovesWithWindows ==
  ASSUME NEW p \in Profiles, WindowsAccepted(p), NEW name \in Seq(Labels),
         NEW day \in Days, NEW time \in Minutes, NEW toDay \in Days, NEW toTime \in Minutes,
         \A i \in DOMAIN p.pauses : SameForce(p.pauses[i], day, time, toDay, toTime),
         \A i \in Deciding(p, name) : \A k \in DOMAIN entries(p)[i].schedules :
            SameForce(entries(p)[i].schedules[k], day, time, toDay, toTime)
  PROVE  DecideAt(p, name, day, time).action = DecideAt(p, name, toDay, toTime).action
  <1>1. paused(p, day, time) <=> paused(p, toDay, toTime)
    BY PausedAsReserved DEF SameForce
  <1>2. CASE paused(p, day, time)
    BY <1>1, <1>2, DecisionIs
  <1>3. CASE ~ paused(p, day, time) /\ Deciding(p, name) = {}
    BY <1>1, <1>3, DecisionIs
  <1>4. ASSUME ~ paused(p, day, time), NEW i \in Deciding(p, name)
        PROVE  DecideAt(p, name, day, time).action = DecideAt(p, name, toDay, toTime).action
    <2> DEFINE e == entries(p)[i]
    <2>1. {k \in DOMAIN e.schedules : InForce(e.schedules[k], day, time)} =
             {k \in DOMAIN e.schedules : InForce(e.schedules[k], toDay, toTime)}
      BY DEF SameForce
    <2>2. reservedAction(e, day, time) = reservedAction(e, toDay, toTime)
      BY <2>1 DEF reservedAction
    <2> HIDE DEF e
    <2>3. /\ DecideAt(p, name, day, time).action = reservedAction(e, day, time)
          /\ DecideAt(p, name, toDay, toTime).action = reservedAction(e, toDay, toTime)
      BY <1>1, <1>4, DecisionIs DEF e
    <2> QED BY <2>2, <2>3
  <1> QED BY <1>2, <1>3, <1>4

(* The minute after.                                                        *)
Follows(day, time, toDay, toTime) ==
    \/ /\ time + 1 < DayLength
       /\ toTime = time + 1 /\ toDay = day
    \/ /\ time + 1 = DayLength
       /\ toTime = 0 /\ toDay = nextDay(day)

(* Tick moves to the minute after.                                          *)
LEMMA TickFollows ==
  ASSUME NEW day \in Days, NEW time \in Minutes
  PROVE  LET toTime == (time + 1) % DayLength
         IN Follows(day, time, IF toTime = 0 THEN (day + 1) % 7 ELSE day, toTime)
  <1>1. time \in Nat /\ time + 1 <= DayLength /\ DayLength \in Nat /\ DayLength > 1
    BY DayLengthAssumption, DaysAssumption DEF Minutes
  <1>2. (time + 1) % DayLength = IF time + 1 < DayLength THEN time + 1 ELSE 0
    BY <1>1, Wrap
  <1>3. (day + 1) % 7 = nextDay(day)
    BY DEF Days, nextDay
  <1> QED BY <1>1, <1>2, <1>3 DEF Follows

(* The days on which a window ends.                                         *)
endingDays(w) == IF w.start < w.end THEN w.days ELSE {(day + 1) % 7 : day \in w.days}

(* From one minute to the next, a window begins at its start on its days,   *)
(* and ends at its end.                                                     *)
LEMMA Switches ==
  ASSUME NEW w, isWindow(w), validateWindow(w), NEW day \in Days, NEW time \in Minutes,
         NEW toDay \in Days, NEW toTime \in Minutes, Follows(day, time, toDay, toTime)
  PROVE  LET wasOn == windowActive(w, day, time)
             isOn == windowActive(w, toDay, toTime)
         IN /\ (~ wasOn /\ isOn) <=> (toTime = w.start /\ toDay \in w.days)
            /\ (wasOn /\ ~ isOn) <=> (toTime = w.end /\ toDay \in endingDays(w))
  <1> DEFINE a == w.start
             b == w.end
             wasOn == windowActive(w, day, time)
             isOn == windowActive(w, toDay, toTime)
             before == (day + 6) % 7
             toBefore == (toDay + 6) % 7
  <1>1. /\ a \in Minutes /\ b \in Minutes /\ a # b /\ w.days \subseteq Days
    BY DEF isWindow, validateWindow
  <1>2. wasOn <=> IF a < b THEN day \in w.days /\ time >= a /\ time < b
                  ELSE \/ day \in w.days /\ time >= a
                       \/ before \in w.days /\ time < b
    BY <1>1 DEF windowActive, Minutes
  <1>3. isOn <=> IF a < b THEN toDay \in w.days /\ toTime >= a /\ toTime < b
                 ELSE \/ toDay \in w.days /\ toTime >= a
                      \/ toBefore \in w.days /\ toTime < b
    BY <1>1 DEF windowActive, Minutes
  <1>4. toDay \in endingDays(w) <=> IF a < b THEN toDay \in w.days ELSE toBefore \in w.days
    <2>1. \A d \in Days : toDay = (d + 1) % 7 <=> d = toBefore
      BY DEF Days
    <2>2. toBefore \in Days
      BY DEF Days
    <2> HIDE DEF toBefore
    <2>3. toDay \in {(d + 1) % 7 : d \in w.days} <=> toBefore \in w.days
      BY <1>1, <2>1, <2>2
    <2> QED BY <2>3 DEF endingDays
  <1>5. \/ toTime = time + 1 /\ toDay = day /\ toBefore = before
        \/ time + 1 = DayLength /\ toTime = 0 /\ toBefore = day
    BY DEF Follows, nextDay, Days
  <1>6. /\ time \in Nat /\ toTime \in Nat /\ a \in Nat /\ b \in Nat /\ DayLength \in Nat
        /\ time < DayLength /\ toTime < DayLength /\ a < DayLength /\ b < DayLength
    BY <1>1, DayLengthAssumption DEF Minutes
  <1> HIDE DEF a, b, wasOn, isOn, before, toBefore
  <1>7. /\ (~ wasOn /\ isOn) <=> (toTime = a /\ toDay \in w.days)
        /\ (wasOn /\ ~ isOn) <=> (toTime = b /\ toDay \in endingDays(w))
    <2>1. CASE a < b
      BY <1>1, <1>2, <1>3, <1>4, <1>5, <1>6, <2>1
    <2>2. CASE ~ (a < b)
      BY <1>1, <1>2, <1>3, <1>4, <1>5, <1>6, <2>2
    <2> QED BY <2>1, <2>2
  <1> QED BY <1>7 DEF a, b, wasOn, isOn

-----------------------------------------------------------------------------
(* The specification: the profile is edited, and the clock ticks.           *)

(* A profile of any size, edited by whoever, at any minute of the week.     *)
TypeInv ==
    /\ profile \in Profiles
    /\ today \in Days
    /\ minute \in Minutes

(* The invariant: what NewStore accepted is what is in use.                 *)
Inv == TypeInv /\ WindowsAccepted(profile)

(* The names that are asked.                                                *)
LEMMA NamesAreNames == Names \subseteq Seq(Labels)
  <1> SUFFICES ASSUME NEW n \in 1 .. MaxLabels, NEW name \in [1 .. n -> Labels]
               PROVE  name \in Seq(Labels)
    BY DEF Names
  <1>1. n \in Nat
    BY LabelsAssumption
  <1> QED BY <1>1

(* The windows of the examples are windows.                                 *)
LEMMA ExampleWindows ==
    /\ Overnight \in Pauses
    /\ \A action \in {"allow", "block"} :
          During(Daytime, action) \in Schedules /\ During(Overnight, action) \in Schedules
  BY DaysAssumption, DayLengthAssumption
  DEF Pauses, Daytime, Overnight, Days, Minutes, During, Schedules

(* So are those a schedule may be given.                                    *)
LEMMA EditedWindows ==
    \A window \in MCWindows, action \in {"allow", "block"} :
        During(window, action) \in Schedules
  BY DaysAssumption, DayLengthAssumption DEF MCWindows, During, Schedules

(* The domains of the examples are domains.                                 *)
LEMMA ExampleDomains == Site \in DomainNames /\ Host \in DomainNames
  <1>1. "example" \in Labels /\ "www" \in Labels
    BY LabelsAssumption
  <1> QED BY <1>1 DEF Site, Host, DomainNames

(* The rules that may be added.                                             *)
LEMMA ExampleRules == MCRules \subseteq Rules
  BY ExampleDomains DEF MCRules, Rules, Actions

(* The groups that may be added.                                            *)
LEMMA ExampleGroups == MCGroups \subseteq Groups
  <1>1. ASSUME NEW s \in MCSchedules PROVE s \in Seq(Schedules)
    <2>1. /\ During(Daytime, "allow") \in Schedules
          /\ During(Overnight, "block") \in Schedules
      BY ExampleWindows
    <2>2. CASE s = <<>>
      BY <2>2
    <2>3. CASE s = <<During(Daytime, "allow")>>
      BY <2>1, <2>3
    <2>4. CASE s = <<During(Overnight, "block"), During(Daytime, "allow")>>
      BY <2>1, <2>4
    <2> QED BY <2>2, <2>3, <2>4 DEF MCSchedules
  <1>2. ASSUME NEW d \in {<<Site>>, <<Host>>, <<Site, Host>>} PROVE d \in Seq(DomainNames)
    <2> DEFINE Q == DomainNames
    <2>1. Site \in Q /\ Host \in Q
      BY ExampleDomains
    <2> HIDE DEF Q
    <2>2. <<Site>> \in Seq(Q) /\ <<Host>> \in Seq(Q) /\ <<Site, Host>> \in Seq(Q)
      BY <2>1
    <2> QED BY <2>2 DEF Q
  <1> QED BY <1>1, <1>2 DEF MCGroups, Groups, Actions

(* The first profiles have no windows.                                      *)
LEMMA InvInit == Init => Inv
  <1> SUFFICES ASSUME Init PROVE Inv
    OBVIOUS
  <1>1. Scheduled \in Groups
    BY ExampleDomains DEF Scheduled, Groups, Actions
  <1>2. PICK groups \in {<<>>, <<Scheduled>>}, action \in {"observe", "block"} :
           profile = [default_action |-> action, pauses |-> <<>>,
                      rules |-> <<>>, groups |-> groups]
    BY DEF Init
  <1>3. groups \in Seq(Groups)
    <2>1. CASE groups = <<>>
      BY <2>1
    <2>2. CASE groups = <<Scheduled>>
      BY <1>1, <2>2
    <2> QED BY <1>2, <2>1, <2>2
  <1>4. profile \in Profiles
    BY <1>2, <1>3 DEF Profiles, Actions
  <1>5. \A g \in DOMAIN profile.groups : profile.groups[g].schedules = <<>>
    BY <1>2 DEF Scheduled
  <1>6. acceptedSchedules(<<>>)
    BY DEF acceptedSchedules
  <1>7. today \in Days /\ minute \in Minutes
    BY DayLengthAssumption DEF Init, Days, Minutes
  <1> QED BY <1>2, <1>4, <1>5, <1>6, <1>7 DEF Inv, TypeInv, WindowsAccepted

(* An accepted edit.                                                        *)
LEMMA PutKeeps ==
    ASSUME Inv, NEW edited \in Profiles, Put(edited)
    PROVE  Inv' /\ WindowsAccepted(edited)
  <1>1. /\ acceptedProfile(edited) /\ profile' = edited
        /\ today' = today /\ minute' = minute
    BY DEF Put
  <1>2. WindowsAccepted(edited)
    <2>1. edited.pauses \in Seq(Pauses) /\ edited.groups \in Seq(Groups)
      BY DEF Profiles
    <2>2. DOMAIN edited.pauses = 1 .. Len(edited.pauses) /\ DOMAIN edited.groups = 1 .. Len(edited.groups)
      BY <2>1, LenProperties
    <2> QED BY <1>1, <2>2 DEF acceptedProfile, WindowsAccepted
  <1> QED BY <1>1, <1>2 DEF Inv, TypeInv

(* What an edit makes of the profile.                                       *)
Edited(q) == q \in Profiles /\ Put(q)

(* A rule is added to the profile that is stored.                           *)
LEMMA RuleAdded ==
  ASSUME Inv, NEW rule \in MCRules, AddRule(rule)
  PROVE  rule \in Rules /\ Edited([profile EXCEPT !.rules = Append(profile.rules, rule)])
  <1>1. profile \in Profiles /\ rule \in Rules
    BY ExampleRules DEF Inv, TypeInv
  <1>2. [profile EXCEPT !.rules = Append(profile.rules, rule)] \in Profiles
    <2> DEFINE longer == Append(profile.rules, rule)
    <2>1. profile.rules \in Seq(Rules)
      BY <1>1 DEF Profiles
    <2>2. longer \in Seq(Rules)
      BY <1>1, <2>1, AppendProperties
    <2> HIDE DEF longer
    <2>3. [profile EXCEPT !.rules = longer] \in Profiles
      BY <1>1, <2>2 DEF Profiles
    <2> QED BY <2>3 DEF longer
  <1> QED BY <1>1, <1>2 DEF AddRule, Edited

(* So is a group.                                                           *)
LEMMA GroupAdded ==
  ASSUME Inv, NEW group \in MCGroups, AddGroup(group)
  PROVE  group \in Groups /\ Edited([profile EXCEPT !.groups = Append(profile.groups, group)])
  <1>1. profile \in Profiles /\ group \in Groups
    BY ExampleGroups DEF Inv, TypeInv
  <1>2. [profile EXCEPT !.groups = Append(profile.groups, group)] \in Profiles
    <2> DEFINE longer == Append(profile.groups, group)
    <2>1. profile.groups \in Seq(Groups)
      BY <1>1 DEF Profiles
    <2>2. longer \in Seq(Groups)
      BY <1>1, <2>1, AppendProperties
    <2> HIDE DEF longer
    <2>3. [profile EXCEPT !.groups = longer] \in Profiles
      BY <1>1, <2>2 DEF Profiles
    <2> QED BY <2>3 DEF longer
  <1> QED BY <1>1, <1>2 DEF AddGroup, Edited

(* The pauses are replaced.                                                 *)
LEMMA PausesSet ==
  ASSUME Inv, NEW windows \in {<<>>, <<Overnight>>}, SetPauses(windows)
  PROVE  Edited([profile EXCEPT !.pauses = windows])
  <1>1. profile \in Profiles
    BY DEF Inv, TypeInv
  <1>2. windows \in Seq(Pauses)
    <2>1. CASE windows = <<>>
      BY <2>1
    <2>2. CASE windows = <<Overnight>>
      BY <2>2, ExampleWindows
    <2> QED BY <2>1, <2>2
  <1>3. [profile EXCEPT !.pauses = windows] \in Profiles
    BY <1>1, <1>2 DEF Profiles
  <1> QED BY <1>3 DEF SetPauses, Edited

(* The first group of p with one schedule more.                             *)
Longer(p, schedule) ==
    [p.groups[1] EXCEPT !.schedules = Append(p.groups[1].schedules, schedule)]

WithSchedule(p, schedule) ==
    [p EXCEPT !.groups = [p.groups EXCEPT ![1] = Longer(p, schedule)]]

(* The first group gets a schedule more.                                    *)
LEMMA ScheduleAdded ==
  ASSUME Inv, NEW window \in MCWindows, AddSchedule(window)
  PROVE  /\ During(window, "block") \in Schedules
         /\ profile.groups \in Seq(Groups) /\ 1 \in 1 .. Len(profile.groups)
         /\ profile.groups[1] \in Groups
         /\ Longer(profile, During(window, "block")) \in Groups
         /\ Edited(WithSchedule(profile, During(window, "block")))
  <1> DEFINE schedule == During(window, "block")
             longer == Longer(profile, schedule)
             groups == [profile.groups EXCEPT ![1] = longer]
  <1>1. schedule \in Schedules
    BY EditedWindows
  <1>2. profile \in Profiles
    BY DEF Inv, TypeInv
  <1>3. profile.groups \in Seq(Groups)
    BY <1>2 DEF Profiles
  <1>4. 1 \in 1 .. Len(profile.groups)
    <2>1. \E g \in DOMAIN profile.groups : TRUE
      BY DEF AddSchedule, EditsSchedules
    <2> QED BY <1>3, <2>1
  <1>5. profile.groups[1] \in Groups
    BY <1>3, <1>4
  <1>6. longer \in Groups
    <2> DEFINE group == profile.groups[1]
    <2>1. group \in Groups
      BY <1>5
    <2> HIDE DEF group, schedule
    <2>2. [group EXCEPT !.schedules = Append(group.schedules, schedule)] \in Groups
      <3> DEFINE more == Append(group.schedules, schedule)
      <3>1. group.schedules \in Seq(Schedules)
        BY <2>1 DEF Groups
      <3>2. more \in Seq(Schedules)
        BY <1>1, <3>1, AppendProperties
      <3> HIDE DEF more
      <3>3. [group EXCEPT !.schedules = more] \in Groups
        BY <2>1, <3>2 DEF Groups
      <3> QED BY <3>3 DEF more
    <2> QED BY <2>2 DEF Longer, group
  <1>7. Put(WithSchedule(profile, schedule))
    BY DEF AddSchedule, WithSchedule, Longer
  <1> HIDE DEF longer, schedule
  <1>8. groups \in Seq(Groups)
    BY <1>3, <1>4, <1>6
  <1> HIDE DEF groups
  <1>9. [profile EXCEPT !.groups = groups] \in Profiles
    BY <1>2, <1>8 DEF Profiles
  <1>10. [profile EXCEPT !.groups = groups] = WithSchedule(profile, schedule)
    BY DEF WithSchedule, groups, longer
  <1> QED BY <1>1, <1>3, <1>4, <1>5, <1>6, <1>7, <1>9, <1>10 DEF longer, schedule, Edited

(* Every step keeps the invariant: an edit that NewStore refuses is no step.*)
LEMMA InvStep == Inv /\ [Next]_vars => Inv'
  <1> SUFFICES ASSUME Inv, [Next]_vars PROVE Inv'
    OBVIOUS
  <1>1. ASSUME NEW rule \in MCRules, AddRule(rule) PROVE Inv'
    BY <1>1, RuleAdded, PutKeeps DEF Edited
  <1>2. ASSUME NEW group \in MCGroups, AddGroup(group) PROVE Inv'
    BY <1>2, GroupAdded, PutKeeps DEF Edited
  <1>3. ASSUME NEW windows \in {<<>>, <<Overnight>>}, SetPauses(windows) PROVE Inv'
    BY <1>3, PausesSet, PutKeeps DEF Edited
  <1>4. ASSUME NEW window \in MCWindows, AddSchedule(window) PROVE Inv'
    BY <1>4, ScheduleAdded, PutKeeps DEF Edited
  <1>5. CASE Tick
    <2>1. profile' = profile
      BY <1>5 DEF Tick
    <2>2. today' \in Days /\ minute' \in Minutes
      BY <1>5, DayLengthAssumption DEF Tick, Inv, TypeInv, Days, Minutes
    <2> QED BY <2>1, <2>2 DEF Inv, TypeInv
  <1>6. CASE UNCHANGED vars
    BY <1>6 DEF vars, Inv, TypeInv
  <1> QED BY <1>1, <1>2, <1>3, <1>4, <1>5, <1>6 DEF Next

(* The invariant holds in every state.                                      *)
LEMMA Invariant == Spec => []Inv
  BY InvInit, InvStep, PTL DEF Spec

-----------------------------------------------------------------------------
(* The loops of DecideAt compute the policy that a family reads in the      *)
(* panel, for every profile that NewStore accepts.                          *)
THEOREM DecidesAsParentsRead == Spec => []MostSpecificWins
  <1>1. Inv => MostSpecificWins
    BY DecidesAsRead, NamesAreNames DEF MostSpecificWins, Inv, TypeInv
  <1> QED BY <1>1, Invariant, PTL

(* What EditsAreLocal says of a step.                                       *)
LocalStep ==
    \A name \in Names : LocalEdit(profile, profile', name, today, minute)

(* Every step is local.                                                     *)
LEMMA EditsStep == Inv /\ Inv' /\ [Next]_vars => LocalStep
  <1> SUFFICES ASSUME Inv, Inv', [Next]_vars, NEW name \in Names
               PROVE  LocalEdit(profile, profile', name, today, minute)
    BY DEF LocalStep
  <1>0. /\ profile \in Profiles /\ WindowsAccepted(profile) /\ today \in Days /\ minute \in Minutes
        /\ profile' \in Profiles /\ WindowsAccepted(profile') /\ name \in Seq(Labels)
    BY NamesAreNames DEF Inv, TypeInv
  <1>1. ASSUME NEW rule \in MCRules, AddRule(rule)
        PROVE  LocalEdit(profile, profile', name, today, minute)
    <2>1. rule \in Rules /\ profile' = [profile EXCEPT !.rules = Append(profile.rules, rule)]
      BY <1>1, RuleAdded DEF Edited, Put
    <2> QED BY <1>0, <2>1, AddedRuleIsLocal
  <1>2. ASSUME NEW group \in MCGroups, AddGroup(group)
        PROVE  LocalEdit(profile, profile', name, today, minute)
    <2>1. group \in Groups /\ profile' = [profile EXCEPT !.groups = Append(profile.groups, group)]
      BY <1>2, GroupAdded DEF Edited, Put
    <2> QED BY <1>0, <2>1, AddedGroupIsLocal
  <1>3. ASSUME NEW windows \in {<<>>, <<Overnight>>}, SetPauses(windows)
        PROVE  LocalEdit(profile, profile', name, today, minute)
    <2>1. profile' = [profile EXCEPT !.pauses = windows] /\ profile.pauses # windows
      BY <1>3 DEF SetPauses, Put
    <2>2. profile'.pauses # profile.pauses
      BY <1>0, <2>1 DEF Profiles
    <2> QED BY <2>2 DEF LocalEdit
  <1>4. ASSUME NEW window \in MCWindows, AddSchedule(window)
        PROVE  LocalEdit(profile, profile', name, today, minute)
    <2> DEFINE schedule == During(window, "block")
               longer == Longer(profile, schedule)
               old == profile.groups[1]
    <2>1. /\ schedule \in Schedules /\ profile.groups \in Seq(Groups)
          /\ 1 \in 1 .. Len(profile.groups) /\ old \in Groups /\ longer \in Groups
          /\ profile' = WithSchedule(profile, schedule)
      BY <1>4, ScheduleAdded DEF Edited, Put
    <2> HIDE DEF schedule
    <2>2. longer.domains = old.domains /\ longer.action = old.action
      BY <2>1 DEF Longer, Groups
    <2>3. longer.schedules # old.schedules
      <3>1. old.schedules \in Seq(Schedules) /\ longer.schedules = Append(old.schedules, schedule)
        BY <2>1 DEF Longer, Groups
      <3>2. Len(longer.schedules) = Len(old.schedules) + 1 /\ Len(old.schedules) \in Nat
        BY <2>1, <3>1, AppendProperties, LenProperties
      <3> QED BY <3>2
    <2> HIDE DEF longer
    <2>4. /\ profile'.rules = profile.rules /\ profile'.pauses = profile.pauses
          /\ profile'.groups = [profile.groups EXCEPT ![1] = longer]
      BY <1>0, <2>1 DEF WithSchedule, Profiles, longer
    <2>5. /\ Len(profile'.groups) = Len(profile.groups)
          /\ profile'.groups[1] = longer
          /\ \A g \in 1 .. Len(profile.groups) : g # 1 => profile.groups[g] = profile'.groups[g]
      BY <2>1, <2>4
    <2>6. SameShape(profile.groups, profile'.groups)
      <3> SUFFICES ASSUME NEW g \in 1 .. Len(profile.groups)
                   PROVE  /\ profile.groups[g].domains = profile'.groups[g].domains
                          /\ profile.groups[g].action = profile'.groups[g].action
        BY <2>5 DEF SameShape
      <3>1. CASE g = 1
        BY <2>2, <2>5, <3>1
      <3>2. CASE g # 1
        BY <2>5, <3>2
      <3> QED BY <3>1, <3>2
    <2>7. profile.groups[1].schedules # profile'.groups[1].schedules
      BY <2>3, <2>5
    <2> HIDE DEF old
    <2> QED BY <1>0, <2>1, <2>4, <2>5, <2>6, <2>7, EditedSchedulesAreLocal
  <1>5. CASE Tick
    BY <1>5 DEF Tick, LocalEdit
  <1>6. CASE UNCHANGED vars
    BY <1>6 DEF vars, LocalEdit
  <1> QED BY <1>1, <1>2, <1>3, <1>4, <1>5, <1>6 DEF Next

(* What ClockChangesOnlyItsGroup says of a step.                            *)
ClockStep ==
    \A name \in Names :
       DecideAt(profile, name, today, minute).action
           # DecideAt(profile, name, today', minute').action =>
       \/ \E i \in DOMAIN profile.pauses :
             InForce(profile.pauses[i], today, minute)
                 # InForce(profile.pauses[i], today', minute')
       \/ \E i \in Deciding(profile, name) :
             LET schedules == entries(profile)[i].schedules
             IN \E k \in DOMAIN schedules :
                   InForce(schedules[k], today, minute)
                       # InForce(schedules[k], today', minute')

(* And moves the decisions with the windows.                                *)
LEMMA ClockStepHolds == Inv /\ Inv' => ClockStep
  <1> SUFFICES ASSUME Inv, Inv', NEW name \in Names,
                      \A i \in DOMAIN profile.pauses :
                         InForce(profile.pauses[i], today, minute)
                             = InForce(profile.pauses[i], today', minute'),
                      \A i \in Deciding(profile, name) :
                         \A k \in DOMAIN entries(profile)[i].schedules :
                            InForce(entries(profile)[i].schedules[k], today, minute)
                                = InForce(entries(profile)[i].schedules[k], today', minute')
               PROVE  DecideAt(profile, name, today, minute).action
                         = DecideAt(profile, name, today', minute').action
    BY DEF ClockStep
  <1>1. /\ profile \in Profiles /\ WindowsAccepted(profile) /\ name \in Seq(Labels)
        /\ today \in Days /\ minute \in Minutes /\ today' \in Days /\ minute' \in Minutes
    BY NamesAreNames DEF Inv, TypeInv
  <1> QED BY <1>1, DecisionMovesWithWindows DEF SameForce

(* A group of the profile.                                                  *)
LEMMA GroupTyped ==
    ASSUME Inv, NEW g \in DOMAIN profile.groups
    PROVE  profile.groups[g] \in Groups
  <1>1. profile.groups \in Seq(Groups)
    BY DEF Inv, TypeInv, Profiles
  <1> QED BY <1>1

(* Every window in use is one that NewStore validated.                      *)
LEMMA WindowsAreValid ==
    ASSUME Inv, NEW window \in WindowsInUse
    PROVE  isWindow(window) /\ validateWindow(window)
  <1>1. CASE window \in Range(profile.pauses)
    <2>1. profile.pauses \in Seq(Pauses)
      BY DEF Inv, TypeInv, Profiles
    <2>2. PICK i \in DOMAIN profile.pauses : window = profile.pauses[i]
      BY <1>1 DEF Range
    <2>3. window \in Pauses
      BY <2>1, <2>2
    <2> QED BY <2>2, <2>3 DEF Inv, WindowsAccepted, Pauses, isWindow
  <1>2. ASSUME NEW g \in DOMAIN profile.groups, window \in Range(profile.groups[g].schedules)
        PROVE  isWindow(window) /\ validateWindow(window)
    <2>1. profile.groups[g].schedules \in Seq(Schedules)
      BY GroupTyped DEF Groups
    <2>2. PICK i \in DOMAIN profile.groups[g].schedules :
             window = profile.groups[g].schedules[i]
      BY <1>2 DEF Range
    <2>3. i \in 1 .. Len(profile.groups[g].schedules) /\ window \in Schedules
      BY <2>1, <2>2
    <2>4. acceptedSchedules(profile.groups[g].schedules)
      BY DEF Inv, WindowsAccepted
    <2> QED BY <2>2, <2>3, <2>4 DEF acceptedSchedules, Schedules, isWindow
  <1> QED BY <1>1, <1>2 DEF WindowsInUse

(* What SwitchesOnTime says of a step.                                      *)
SwitchStep ==
    Tick =>
      \A w \in WindowsInUse :
         LET wasOn == windowActive(w, today, minute)
             isOn == windowActive(w, today', minute')
         IN /\ (~wasOn /\ isOn) <=> (minute' = w.start /\ today' \in w.days)
            /\ (wasOn /\ ~isOn) <=> (minute' = w.end /\ today' \in endingDays(w))

(* A tick switches the windows on time.                                     *)
LEMMA SwitchStepHolds == Inv /\ Inv' => SwitchStep
  <1> SUFFICES ASSUME Inv, Inv', Tick, NEW w \in WindowsInUse
               PROVE  LET wasOn == windowActive(w, today, minute)
                          isOn == windowActive(w, today', minute')
                      IN /\ (~wasOn /\ isOn) <=> (minute' = w.start /\ today' \in w.days)
                         /\ (wasOn /\ ~isOn) <=> (minute' = w.end /\ today' \in endingDays(w))
    BY DEF SwitchStep
  <1>1. today \in Days /\ minute \in Minutes /\ today' \in Days /\ minute' \in Minutes
    BY DEF Inv, TypeInv
  <1>2. isWindow(w) /\ validateWindow(w)
    BY WindowsAreValid
  <1>3. /\ minute' = (minute + 1) % DayLength
        /\ today' = IF minute' = 0 THEN (today + 1) % 7 ELSE today
    BY DEF Tick
  <1>4. Follows(today, minute, today', minute')
    BY <1>1, <1>3, TickFollows
  <1> QED BY <1>1, <1>2, <1>4, Switches

(* The clock changes a decision only by a pause, or a schedule of the group *)
(* that takes it.                                                           *)
THEOREM ClockStaysInItsGroup == Spec => ClockChangesOnlyItsGroup
  <1>1. Inv /\ Inv' => ClockStep
    BY ClockStepHolds
  <1>2. Inv /\ Inv' => [ClockStep]_vars
    BY <1>1
  <1> QED BY <1>2, Invariant, PTL DEF Spec, ClockChangesOnlyItsGroup, ClockStep

(* A window has no gap at midnight, and no early or late edge.              *)
THEOREM EveryWindowSwitchesOnTime == Spec => SwitchesOnTime
  <1>1. Inv /\ Inv' => [SwitchStep]_vars
    BY SwitchStepHolds
  <1>2. [SwitchStep]_vars =>
         [Tick =>
         \A w \in WindowsInUse :
            LET wasOn == windowActive(w, today, minute)
                isOn == windowActive(w, today', minute')
                endDays == IF w.start < w.end THEN w.days
                           ELSE {(day + 1) % 7 : day \in w.days}
            IN /\ (~wasOn /\ isOn) <=> (minute' = w.start /\ today' \in w.days)
               /\ (wasOn /\ ~isOn) <=> (minute' = w.end /\ today' \in endDays)
      ]_vars
    BY DEF SwitchStep, endingDays
  <1> QED BY <1>1, <1>2, Invariant, PTL DEF Spec, SwitchesOnTime

(* An edit reaches only the names it is about: an entry that is already     *)
(* there keeps every tie.                                                   *)
THEOREM EditsStayLocal == Spec => EditsAreLocal
  <1>1. Inv /\ Inv' /\ [Next]_vars => [LocalStep]_vars
    BY EditsStep
  <1>2. [LocalStep]_vars =>
           [\A name \in Names :
               /\ profile'.pauses = profile.pauses
               /\ DecideAt(profile', name, today, minute).action
                     # DecideAt(profile, name, today, minute).action
               => \A i \in Deciding(profile', name) :
                     entries(profile')[i] \notin Range(entries(profile))]_vars
    BY DEF LocalStep, LocalEdit
  <1> QED BY <1>1, <1>2, Invariant, PTL DEF Spec, EditsAreLocal

(* At every minute of every week windowActive says what the overlap check   *)
(* has reserved.                                                            *)
THEOREM ActiveAsReserved == Spec => []ActiveMatchesOccupied
  <1>1. ASSUME Inv PROVE ActiveMatchesOccupied
    BY <1>1, WindowsAreValid, ActiveIffOccupied
    DEF ActiveMatchesOccupied, InForce, Inv, TypeInv
  <1> QED BY <1>1, Invariant, PTL

(* No two schedules of a group are ever active together, however many a     *)
(* group has and however the parents edit them.                             *)
THEOREM AtMostOneActive == Spec => []OneActiveAtATime
  <1>1. ASSUME Inv PROVE OneActiveAtATime
    <2> SUFFICES ASSUME NEW g \in DOMAIN profile.groups,
                        NEW i \in DOMAIN profile.groups[g].schedules,
                        NEW j \in DOMAIN profile.groups[g].schedules,
                        windowActive(profile.groups[g].schedules[i], today, minute),
                        windowActive(profile.groups[g].schedules[j], today, minute)
                 PROVE  i = j
      BY DEF OneActiveAtATime
    <2> DEFINE schedules == profile.groups[g].schedules
    <2>1. schedules \in Seq(Schedules)
      BY <1>1, GroupTyped DEF Groups
    <2>2. acceptedSchedules(schedules) /\ today \in Days /\ minute \in Minutes
      BY <1>1 DEF Inv, WindowsAccepted, TypeInv
    <2> HIDE DEF schedules
    <2>3. /\ Len(schedules) \in Nat
          /\ DOMAIN schedules = 1 .. Len(schedules)
          /\ \A k \in 1 .. Len(schedules) : schedules[k] \in Schedules
      BY <2>1
    <2>4. \A k \in 1 .. Len(schedules) : isWindow(schedules[k])
      BY <2>3 DEF Schedules, isWindow
    <2> QED BY <2>2, <2>3, <2>4, AcceptedNeverOverlap DEF schedules
  <1> QED BY <1>1, Invariant, PTL

-----------------------------------------------------------------------------
(* The browser, whose rules carry a priority instead of an order.           *)

(* A candidate's priority orders by length first, then by source.           *)
LEMMA PriorityOrder ==
  ASSUME NEW count \in Nat, NEW long \in Nat, NEW short \in Nat,
         NEW order \in 0 .. count, NEW other \in 0 .. count
  PROVE  /\ candidatePriority(long, order, count) \in Int
         /\ candidatePriority(long, order, count) > DEFAULT_BLOCK_PRIORITY
         /\ short < long =>
               candidatePriority(short, other, count) < candidatePriority(long, order, count)
         /\ order < other =>
               candidatePriority(long, other, count) < candidatePriority(long, order, count)
  <1> DEFINE stride == count + 1
             a == long * stride
             b == short * stride
             more == long - short
  <1>1. /\ stride \in Nat /\ stride >= 1 /\ a \in Nat /\ b \in Nat
        /\ stride - order >= 1 /\ stride - other <= stride /\ stride - other \in Nat
        /\ stride - order \in Nat
    BY DEF stride
  <1>2. short < long => a >= b + stride
    <2> SUFFICES ASSUME short < long PROVE a >= b + stride
      OBVIOUS
    <2>1. a = b + more * stride
      OBVIOUS
    <2>2. more \in Nat /\ more >= 1
      OBVIOUS
    <2> HIDE DEF more, stride, a, b
    <2>3. more * stride >= stride
      BY <1>1, <2>2
    <2> QED BY <1>1, <2>1, <2>2, <2>3
  <1>3. /\ candidatePriority(long, order, count) = 2 + a + (stride - order)
        /\ candidatePriority(short, other, count) = 2 + b + (stride - other)
        /\ candidatePriority(long, other, count) = 2 + a + (stride - other)
    BY DEF candidatePriority
  <1> HIDE DEF a, b, stride
  <1> QED BY <1>1, <1>2, <1>3 DEF DEFAULT_BLOCK_PRIORITY

(* A domain covers itself and what is below it.                             *)
LEMMA PrefixIs ==
  ASSUME NEW domain \in DomainNames, NEW name \in Seq(Labels)
  PROVE  IsPrefix(domain, name) <=> (name = domain \/ IsStrictPrefix(domain, name))
  <1>1. domain \in Seq(Labels)
    BY DEF DomainNames
  <1>2. SubSeq(domain, 1, Len(domain)) = domain /\ Len(domain) \in Nat
    BY <1>1, SubSeqFull, LenProperties
  <1>3. name = domain => IsPrefix(domain, name)
    BY <1>2 DEF IsPrefix
  <1> QED BY <1>3 DEF IsStrictPrefix

(* The position of an entry's rule or group among the profile's sources.    *)
sourceOrder(p, entry) ==
    IF entry.source[1] = "rule" THEN entry.source[2] - 1
    ELSE Len(p.rules) + entry.source[2] - 1

(* The order of a rule is its place.                                        *)
LEMMA OrderOfRule ==
  ASSUME NEW p \in Profiles, NEW i \in 1 .. Len(p.rules)
  PROVE  sourceOrder(p, entries(p)[i]) = i - 1
  <1>1. entries(p)[i] = ruleEntry(p.rules[i], i)
    BY EntriesAre
  <1>2. entries(p)[i].source = <<"rule", i>>
    BY <1>1, SourceIs
  <1> QED BY <1>2 DEF sourceOrder

(* A group comes after all the rules.                                       *)
LEMMA OrderOfGroup ==
  ASSUME NEW p \in Profiles, NEW domain, NEW group, NEW g \in Nat
  PROVE  sourceOrder(p, domainEntry(domain, group, g)) = Len(p.rules) + g - 1
  <1>1. domainEntry(domain, group, g).source = <<"group", g>>
    BY SourceIs
  <1> QED BY <1>1 DEF sourceOrder

(* The entries come in the order of their sources.                          *)
LEMMA SourcesInOrder ==
  ASSUME NEW p \in Profiles
  PROVE  /\ sourceCount(p) \in Nat
         /\ \A k \in 1 .. Len(entries(p)) : sourceOrder(p, entries(p)[k]) \in 0 .. sourceCount(p)
         /\ \A k, m \in 1 .. Len(entries(p)) :
               k <= m => sourceOrder(p, entries(p)[k]) <= sourceOrder(p, entries(p)[m])
  <1> DEFINE n == Len(p.rules)
             c == Len(p.groups)
             list == groupsEntries(p.groups)
             order(k) == sourceOrder(p, entries(p)[k])
  <1>1. n \in Nat /\ c \in Nat /\ p.groups \in Seq(Groups) /\ sourceCount(p) = n + c
    <2>1. p.groups \in Seq(Groups) /\ p.rules \in Seq(Rules)
      BY DEF Profiles
    <2> QED BY <2>1, LenProperties DEF sourceCount
  <1>2. \A k \in 1 .. n : order(k) = k - 1
    BY OrderOfRule
  <1>3. ASSUME NEW k \in 1 .. Len(list)
        PROVE  \E g \in 1 .. c : list[k].source[2] = g /\ order(n + k) = n + g - 1
    <2>1. PICK g \in 1 .. c : \E j \in 1 .. Len(p.groups[g].domains) :
             list[k] = domainEntry(p.groups[g].domains[j], p.groups[g], g)
      BY <1>1, GroupsEntriesAre DEF Lists
    <2>2. entries(p)[n + k] = list[k]
      BY EntriesAre
    <2>3. g \in Nat
      BY <1>1
    <2>4. list[k].source = <<"group", g>>
      BY <2>1, SourceIs
    <2>5. order(n + k) = n + g - 1
      BY <2>1, <2>2, <2>3, OrderOfGroup
    <2> HIDE DEF order
    <2> QED BY <2>4, <2>5
  <1>4. \A k, m \in 1 .. Len(list) : k <= m => list[k].source[2] <= list[m].source[2]
    BY <1>1, GroupsEntriesAre DEF Lists
  <1>5. \A k \in 1 .. Len(entries(p)) : k \in 1 .. n \/ k - n \in 1 .. Len(list)
    BY EntriesAre
  <1>6. Len(entries(p)) \in Nat
    BY EntriesAreList DEF IsList
  <1> DEFINE place(k) == order(n + k)
  <1>7. \A k \in 1 .. Len(list) : place(k) \in n .. n + c - 1
    <2> SUFFICES ASSUME NEW k \in 1 .. Len(list) PROVE place(k) \in n .. n + c - 1
      OBVIOUS
    <2>1. PICK g \in 1 .. c : order(n + k) = n + g - 1
      BY <1>3
    <2> HIDE DEF order, n, c
    <2> QED BY <1>1, <2>1
  <1>8. \A k, m \in 1 .. Len(list) : k <= m => place(k) <= place(m)
    <2> SUFFICES ASSUME NEW k \in 1 .. Len(list), NEW m \in 1 .. Len(list), k <= m
                 PROVE  place(k) <= place(m)
      OBVIOUS
    <2>1. PICK g \in 1 .. c : list[k].source[2] = g /\ order(n + k) = n + g - 1
      BY <1>3
    <2>2. PICK h \in 1 .. c : list[m].source[2] = h /\ order(n + m) = n + h - 1
      BY <1>3
    <2>3. g <= h
      BY <1>4, <2>1, <2>2
    <2> HIDE DEF order, n, c, list
    <2> QED BY <1>1, <2>1, <2>2, <2>3
  <1>9. ASSUME NEW k \in 1 .. Len(entries(p)), k \notin 1 .. n
        PROVE  order(k) = place(k - n) /\ k - n \in 1 .. Len(list) /\ k > n
    <2>1. n + (k - n) = k /\ k > n
      <3> HIDE DEF n
      <3> QED BY <1>1, <1>6, <1>9
    <2>2. order(k) = order(n + (k - n))
      BY <2>1
    <2> QED BY <1>5, <1>9, <2>1, <2>2
  <1> HIDE DEF place, order, n, c, list
  <1>10. \A k \in 1 .. Len(entries(p)) : order(k) \in 0 .. n + c
    <2> SUFFICES ASSUME NEW k \in 1 .. Len(entries(p)) PROVE order(k) \in 0 .. n + c
      OBVIOUS
    <2>1. CASE k \in 1 .. n
      BY <1>1, <1>2, <2>1
    <2>2. CASE k \notin 1 .. n
      <3>1. order(k) \in n .. n + c - 1
        BY <1>7, <1>9, <2>2
      <3> QED BY <1>1, <3>1
    <2> QED BY <2>1, <2>2
  <1>11. ASSUME NEW k \in 1 .. Len(entries(p)), NEW m \in 1 .. Len(entries(p)), k <= m
         PROVE  order(k) <= order(m)
    <2>1. CASE k \in 1 .. n /\ m \in 1 .. n
      BY <1>1, <1>2, <1>11, <2>1
    <2>2. CASE k \in 1 .. n /\ m \notin 1 .. n
      <3>1. order(m) \in n .. n + c - 1 /\ order(k) = k - 1
        BY <1>2, <1>7, <1>9, <2>2
      <3> QED BY <1>1, <2>2, <3>1
    <2>3. CASE k \notin 1 .. n
      <3>1. m \notin 1 .. n
        BY <1>1, <1>6, <1>9, <1>11, <2>3
      <3>2. /\ order(k) = place(k - n) /\ k - n \in 1 .. Len(list)
            /\ order(m) = place(m - n) /\ m - n \in 1 .. Len(list)
        BY <1>9, <2>3, <3>1
      <3>3. k - n <= m - n
        BY <1>1, <1>6, <1>11
      <3> QED BY <1>8, <3>2, <3>3
    <2> QED BY <2>1, <2>2, <2>3
  <1>12. sourceCount(p) \in Nat
    BY <1>1
  <1> QED BY <1>1, <1>10, <1>11, <1>12 DEF order

(* The candidates of buildRules, one at a time.                             *)
ruleCandidate(p, i) ==
    [priority |-> candidatePriority(Len(p.rules[i].domain), i - 1, sourceCount(p)),
     action |-> actionForPolicy(p.rules[i].action),
     domains |-> {p.rules[i].domain},
     exact |-> ~ p.rules[i].include_subdomains]

groupCandidate(p, g, length, day, time) ==
    [priority |-> candidatePriority(length, Len(p.rules) + g - 1, sourceCount(p)),
     action |-> actionForPolicy(effectiveGroupAction(p.groups[g], day, time)),
     domains |-> {domain \in Range(p.groups[g].domains) : Len(domain) = length},
     exact |-> FALSE]

candidates(p, day, time) == ruleCandidates(p) \union groupCandidates(p, day, time)

(* The rules of the browser are those of the rules, and those of the groups *)
(* by length.                                                               *)
LEMMA CandidatesAre ==
  ASSUME NEW p \in Profiles, NEW day, NEW time, NEW candidate
  PROVE  candidate \in candidates(p, day, time) <=>
            \/ \E i \in 1 .. Len(p.rules) : candidate = ruleCandidate(p, i)
            \/ \E g \in 1 .. Len(p.groups) : \E domain \in Range(p.groups[g].domains) :
                  candidate = groupCandidate(p, g, Len(domain), day, time)
  <1>1. candidate \in ruleCandidates(p) <=>
           \E i \in 1 .. Len(p.rules) : candidate = ruleCandidate(p, i)
    BY DEF ruleCandidates, ruleCandidate
  <1>2. candidate \in groupCandidates(p, day, time) <=>
           \E g \in 1 .. Len(p.groups) : \E domain \in Range(p.groups[g].domains) :
              candidate = groupCandidate(p, g, Len(domain), day, time)
    <2>1. groupCandidates(p, day, time) =
             UNION {{groupCandidate(p, g, length, day, time) :
                        length \in {Len(domain) : domain \in Range(p.groups[g].domains)}} :
                    g \in 1 .. Len(p.groups)}
      BY DEF groupCandidates, groupCandidate
    <2> QED BY <2>1
  <1> QED BY <1>1, <1>2 DEF candidates

(* What an entry asks of the browser.                                       *)
priorityOf(p, entry) ==
    candidatePriority(Len(entry.domain), sourceOrder(p, entry), sourceCount(p))

(* What the entry makes of a page.                                          *)
pageAction(entry, day, time) == actionForPolicy(scheduledAction(entry, day, time))

(* The candidate stands for the entry.                                      *)
Carries(candidate, p, entry, day, time) ==
    /\ candidate.priority = priorityOf(p, entry)
    /\ candidate.action = pageAction(entry, day, time)

(* A rule's candidate stands for its entry, and applies to the same hosts.  *)
LEMMA RuleCandidateCarries ==
  ASSUME NEW p \in Profiles, NEW i \in 1 .. Len(p.rules), NEW host \in Seq(Labels),
         NEW day, NEW time
  PROVE  /\ Carries(ruleCandidate(p, i), p, entries(p)[i], day, time)
         /\ appliesTo(ruleCandidate(p, i), host) <=> matches(entries(p)[i], host)
  <1> DEFINE e == entries(p)[i]
             rule == p.rules[i]
  <1>1. e = ruleEntry(rule, i)
    BY EntriesAre
  <1>2. rule \in Rules
    <2>1. p.rules \in Seq(Rules)
      BY DEF Profiles
    <2> QED BY <2>1, ElementOfSeq
  <1>3. sourceOrder(p, e) = i - 1
    BY OrderOfRule
  <1> HIDE DEF e, rule
  <1>4. /\ e.domain = rule.domain /\ e.subdomains = rule.include_subdomains
        /\ e.action = rule.action /\ e.schedules = <<>>
        /\ rule.domain \in DomainNames /\ rule.include_subdomains \in BOOLEAN
    BY <1>1, <1>2 DEF ruleEntry, Rules
  <1>5. scheduledAction(e, day, time) = rule.action
    <2>1. activeScheduledAction(<<>>, day, time) = {}
      BY EmptySeq DEF activeScheduledAction
    <2> QED BY <1>4, <2>1 DEF scheduledAction
  <1>6. Carries(ruleCandidate(p, i), p, e, day, time)
    BY <1>3, <1>4, <1>5 DEF Carries, ruleCandidate, priorityOf, pageAction, rule
  <1>7. appliesTo(ruleCandidate(p, i), host) <=>
           IF rule.include_subdomains THEN IsPrefix(rule.domain, host) ELSE host = rule.domain
    BY <1>4 DEF appliesTo, ruleCandidate, rule
  <1>8. appliesTo(ruleCandidate(p, i), host) <=> matches(e, host)
    BY <1>4, <1>7, PrefixIs DEF matches
  <1> QED BY <1>6, <1>8 DEF e

(* A group's stands for the entries of its domains of one length.           *)
LEMMA GroupCandidateCarries ==
  ASSUME NEW p \in Profiles, NEW g \in 1 .. Len(p.groups),
         NEW domain, NEW day, NEW time
  PROVE  Carries(groupCandidate(p, g, Len(domain), day, time), p,
                 domainEntry(domain, p.groups[g], g), day, time)
  <1> DEFINE group == p.groups[g]
             e == domainEntry(domain, group, g)
  <1>1. e.domain = domain /\ e.action = group.action /\ e.schedules = group.schedules
    BY DEF domainEntry
  <1>2. sourceOrder(p, e) = Len(p.rules) + g - 1
    BY OrderOfGroup
  <1> HIDE DEF e
  <1>3. scheduledAction(e, day, time) = effectiveGroupAction(group, day, time)
    BY <1>1 DEF scheduledAction, effectiveGroupAction
  <1>4. Carries(groupCandidate(p, g, Len(domain), day, time), p, e, day, time)
    BY <1>1, <1>2, <1>3 DEF Carries, groupCandidate, priorityOf, pageAction
  <1> QED BY <1>4 DEF e

(* Every entry that covers a host is carried by a candidate that applies.   *)
LEMMA CandidateOfEntry ==
  ASSUME NEW p \in Profiles, NEW host \in Seq(Labels), NEW day, NEW time,
         NEW k \in 1 .. Len(entries(p)), matches(entries(p)[k], host)
  PROVE  \E candidate \in candidates(p, day, time) :
            /\ appliesTo(candidate, host)
            /\ Carries(candidate, p, entries(p)[k], day, time)
  <1>1. CASE k \in 1 .. Len(p.rules)
    <2>1. ruleCandidate(p, k) \in candidates(p, day, time)
      BY <1>1, CandidatesAre
    <2>2. /\ Carries(ruleCandidate(p, k), p, entries(p)[k], day, time)
          /\ appliesTo(ruleCandidate(p, k), host)
      BY <1>1, RuleCandidateCarries
    <2> QED BY <2>1, <2>2
  <1>2. ASSUME NEW g \in 1 .. Len(p.groups), NEW j \in 1 .. Len(p.groups[g].domains),
               entries(p)[k] = domainEntry(p.groups[g].domains[j], p.groups[g], g)
        PROVE  \E candidate \in candidates(p, day, time) :
                  /\ appliesTo(candidate, host)
                  /\ Carries(candidate, p, entries(p)[k], day, time)
    <2> DEFINE domain == p.groups[g].domains[j]
               candidate == groupCandidate(p, g, Len(domain), day, time)
    <2>1. domain \in Range(p.groups[g].domains) /\ domain \in DomainNames
      <3>1. p.groups \in Seq(Groups)
        BY DEF Profiles
      <3>2. p.groups[g] \in Groups
        BY <3>1, ElementOfSeq
      <3>3. p.groups[g].domains \in Seq(DomainNames)
        BY <3>2 DEF Groups
      <3>4. domain \in DomainNames /\ j \in DOMAIN p.groups[g].domains
        BY <3>3, ElementOfSeq, LenProperties
      <3> QED BY <3>4 DEF Range
    <2>2. candidate \in candidates(p, day, time)
      BY <2>1, CandidatesAre
    <2>3. Carries(candidate, p, entries(p)[k], day, time)
      BY <1>2, GroupCandidateCarries
    <2>4. IsPrefix(domain, host)
      <3>1. entries(p)[k].domain = domain
        BY <1>2 DEF domainEntry
      <3> HIDE DEF domain
      <3> QED BY <2>1, <3>1, PrefixIs DEF matches
    <2>5. appliesTo(candidate, host)
      BY <2>1, <2>4 DEF appliesTo, groupCandidate
    <2> HIDE DEF candidate
    <2> QED BY <2>2, <2>3, <2>5
  <1> QED BY <1>1, <1>2, EntryComesFrom

(* And every candidate that applies carries an entry that covers the host.  *)
LEMMA EntryOfCandidate ==
  ASSUME NEW p \in Profiles, NEW host \in Seq(Labels), NEW day, NEW time,
         NEW candidate \in candidates(p, day, time), appliesTo(candidate, host)
  PROVE  \E k \in 1 .. Len(entries(p)) :
            /\ matches(entries(p)[k], host)
            /\ Carries(candidate, p, entries(p)[k], day, time)
  <1>1. ASSUME NEW i \in 1 .. Len(p.rules), candidate = ruleCandidate(p, i)
        PROVE  \E k \in 1 .. Len(entries(p)) :
                  /\ matches(entries(p)[k], host)
                  /\ Carries(candidate, p, entries(p)[k], day, time)
    <2>1. i \in 1 .. Len(entries(p))
      BY EntriesAre
    <2>2. matches(entries(p)[i], host) /\ Carries(candidate, p, entries(p)[i], day, time)
      BY <1>1, RuleCandidateCarries
    <2> QED BY <2>1, <2>2
  <1>2. ASSUME NEW g \in 1 .. Len(p.groups), NEW longest \in Range(p.groups[g].domains),
               candidate = groupCandidate(p, g, Len(longest), day, time)
        PROVE  \E k \in 1 .. Len(entries(p)) :
                  /\ matches(entries(p)[k], host)
                  /\ Carries(candidate, p, entries(p)[k], day, time)
    <2>1. PICK domain \in Range(p.groups[g].domains) :
             Len(domain) = Len(longest) /\ IsPrefix(domain, host)
      BY <1>2 DEF appliesTo, groupCandidate
    <2>2. p.groups \in Seq(Groups)
      BY DEF Profiles
    <2>3. p.groups[g].domains \in Seq(DomainNames)
      <3>1. p.groups[g] \in Groups
        BY <2>2, ElementOfSeq
      <3> QED BY <3>1 DEF Groups
    <2>4. PICK j \in 1 .. Len(p.groups[g].domains) : domain = p.groups[g].domains[j]
      <3>1. DOMAIN p.groups[g].domains = 1 .. Len(p.groups[g].domains)
        BY <2>3, LenProperties
      <3> QED BY <2>1, <3>1 DEF Range
    <2>5. domain \in DomainNames
      BY <2>3, <2>4, ElementOfSeq
    <2>6. PICK h \in 1 .. Len(groupsEntries(p.groups)) :
             groupsEntries(p.groups)[h] = domainEntry(domain, p.groups[g], g)
      BY <2>2, <2>4, GroupsEntriesAre DEF Lists
    <2> DEFINE k == Len(p.rules) + h
    <2>7. k \in 1 .. Len(entries(p)) /\ entries(p)[k] = domainEntry(domain, p.groups[g], g)
      BY <2>6, EntriesAre
    <2>8. matches(entries(p)[k], host)
      <3>1. entries(p)[k].domain = domain /\ entries(p)[k].subdomains
        BY <2>7 DEF domainEntry
      <3> HIDE DEF k
      <3> QED BY <2>1, <2>5, <3>1, PrefixIs DEF matches
    <2>9. Carries(candidate, p, entries(p)[k], day, time)
      <3>1. candidate = groupCandidate(p, g, Len(domain), day, time)
        BY <1>2, <2>1
      <3> QED BY <2>7, <3>1, GroupCandidateCarries
    <2> HIDE DEF k
    <2> QED BY <2>7, <2>8, <2>9
  <1> QED BY <1>1, <1>2, CandidatesAre

(* Entries of one source act alike.                                         *)
LEMMA SameSourceActsAlike ==
  ASSUME NEW p \in Profiles, NEW day, NEW time,
         NEW k \in 1 .. Len(entries(p)), NEW m \in 1 .. Len(entries(p)),
         sourceOrder(p, entries(p)[k]) = sourceOrder(p, entries(p)[m])
  PROVE  scheduledAction(entries(p)[k], day, time) = scheduledAction(entries(p)[m], day, time)
  <1> DEFINE n == Len(p.rules)
             From(i, g) == /\ sourceOrder(p, entries(p)[i]) = n + g - 1
                           /\ entries(p)[i].action = p.groups[g].action
                           /\ entries(p)[i].schedules = p.groups[g].schedules
  <1>1. n \in Nat
    BY EntriesAre
  <1>2. ASSUME NEW i \in 1 .. Len(entries(p)), i \notin 1 .. n
        PROVE  \E g \in 1 .. Len(p.groups) : From(i, g)
    <2>1. PICK g \in 1 .. Len(p.groups) : \E j \in 1 .. Len(p.groups[g].domains) :
             entries(p)[i] = domainEntry(p.groups[g].domains[j], p.groups[g], g)
      BY <1>2, EntryComesFrom
    <2>2. sourceOrder(p, entries(p)[i]) = n + g - 1
      <3>1. PICK j \in 1 .. Len(p.groups[g].domains) :
               entries(p)[i] = domainEntry(p.groups[g].domains[j], p.groups[g], g)
        BY <2>1
      <3>2. g \in Nat
        OBVIOUS
      <3>3. sourceOrder(p, domainEntry(p.groups[g].domains[j], p.groups[g], g)) = Len(p.rules) + g - 1
        BY <3>2, OrderOfGroup
      <3> QED BY <3>1, <3>3
    <2>3. /\ entries(p)[i].action = p.groups[g].action
          /\ entries(p)[i].schedules = p.groups[g].schedules
      BY <2>1 DEF domainEntry
    <2> QED BY <2>2, <2>3
  <1>3. \A i \in 1 .. n : sourceOrder(p, entries(p)[i]) = i - 1
    BY OrderOfRule
  <1> HIDE DEF n
  <1>4. k \in Int /\ m \in Int /\ \A g \in 1 .. Len(p.groups) : g \in Int /\ g >= 1
    OBVIOUS
  <1>5. CASE k \in 1 .. n /\ m \in 1 .. n
    <2>1. k - 1 = m - 1
      BY <1>3, <1>5
    <2>2. k = m
      BY <1>4, <2>1
    <2> QED BY <2>2
  <1>6. ASSUME NEW i \in 1 .. n, NEW g \in 1 .. Len(p.groups), i - 1 = n + g - 1
        PROVE  FALSE
    <2>1. i \in Int /\ i <= n
      BY <1>1
    <2> QED BY <1>1, <1>4, <1>6, <2>1
  <1>7. CASE k \in 1 .. n /\ m \notin 1 .. n
    <2>1. PICK g \in 1 .. Len(p.groups) : From(m, g)
      BY <1>2, <1>7
    <2>2. k - 1 = n + g - 1
      BY <1>3, <1>7, <2>1
    <2> QED BY <1>6, <1>7, <2>2
  <1>8. CASE k \notin 1 .. n /\ m \in 1 .. n
    <2>1. PICK g \in 1 .. Len(p.groups) : From(k, g)
      BY <1>2, <1>8
    <2>2. m - 1 = n + g - 1
      BY <1>3, <1>8, <2>1
    <2> QED BY <1>6, <1>8, <2>2
  <1>9. CASE k \notin 1 .. n /\ m \notin 1 .. n
    <2>1. PICK g \in 1 .. Len(p.groups) : From(k, g)
      BY <1>2, <1>9
    <2>2. PICK h \in 1 .. Len(p.groups) : From(m, h)
      BY <1>2, <1>9
    <2>3. n + g - 1 = n + h - 1
      BY <2>1, <2>2
    <2>4. g = h
      BY <1>1, <1>4, <2>3
    <2> QED BY <2>1, <2>2, <2>4 DEF scheduledAction
  <1> QED BY <1>5, <1>7, <1>8, <1>9

(* No candidate of the other entry undoes that of the first.                *)
Outweighs(p, entry, other, day, time) ==
    \/ priorityOf(p, other) < priorityOf(p, entry)
    \/ /\ priorityOf(p, other) = priorityOf(p, entry)
       /\ pageAction(other, day, time) = pageAction(entry, day, time)

(* The entry that decides outweighs every other that covers the host, or    *)
(* acts as it does.                                                         *)
LEMMA DecidingOutweighs ==
  ASSUME NEW p \in Profiles, NEW host \in Seq(Labels), NEW day, NEW time,
         NEW k \in Deciding(p, host),
         NEW m \in 1 .. Len(entries(p)), matches(entries(p)[m], host)
  PROVE  Outweighs(p, entries(p)[k], entries(p)[m], day, time)
  <1> DEFINE list == entries(p)
             n == Len(list)
             long == Len(list[k].domain)
             short == Len(list[m].domain)
             order == sourceOrder(p, list[k])
             other == sourceOrder(p, list[m])
  <1>1. /\ k \in 1 .. n
        /\ short < long \/ (short = long /\ k <= m)
    BY DecidingIsDecides DEF Decides
  <1>2. /\ n \in Nat /\ long \in Nat /\ short \in Nat
    BY <1>1, EntriesAreList DEF IsList
  <1>3. /\ sourceCount(p) \in Nat
        /\ order \in 0 .. sourceCount(p) /\ other \in 0 .. sourceCount(p)
        /\ k <= m => order <= other
    BY <1>1, SourcesInOrder
  <1>4. order = other => scheduledAction(list[k], day, time) = scheduledAction(list[m], day, time)
    BY <1>1, SameSourceActsAlike
  <1>5. /\ priorityOf(p, list[k]) = candidatePriority(long, order, sourceCount(p))
        /\ priorityOf(p, list[m]) = candidatePriority(short, other, sourceCount(p))
    BY DEF priorityOf
  <1> HIDE DEF list, n, long, short, order, other
  <1>6. CASE short < long
    BY <1>2, <1>3, <1>5, <1>6, PriorityOrder DEF list, Outweighs
  <1>7. CASE short = long /\ k <= m /\ order < other
    BY <1>2, <1>3, <1>5, <1>7, PriorityOrder DEF list, Outweighs
  <1>8. CASE short = long /\ order = other
    BY <1>4, <1>5, <1>8 DEF list, pageAction, Outweighs
  <1> QED BY <1>1, <1>3, <1>6, <1>7, <1>8

(* The compiled rules redirect a host exactly when the loops block it,      *)
(* whatever the clock shows.                                                *)
THEOREM RulesDecideAlike ==
  ASSUME NEW p \in Profiles, NEW host \in Seq(Labels), NEW day, NEW time
  PROVE  redirects(buildRules(p, day, time), host) <=> DecideAt(p, host, day, time).action = "block"
  <1> DEFINE rules == buildRules(p, day, time)
             default == redirectAll(DEFAULT_BLOCK_PRIORITY)
  <1>1. \A priority : /\ redirectAll(priority).action = "redirect"
                      /\ redirectAll(priority).priority = priority
                      /\ appliesTo(redirectAll(priority), host)
    <2>1. IsPrefix(<<>>, host)
      <3>1. SubSeq(host, 1, 0) = <<>> /\ SubSeq(<<>>, 1, 0) = <<>>
        BY EmptySeq
      <3> QED BY <3>1, LenProperties, EmptySeq DEF IsPrefix
    <2> QED BY <2>1 DEF redirectAll, appliesTo, AnyHost
  <1>2. CASE paused(p, day, time)
    <2>1. rules = {redirectAll(2147483647)}
      BY <1>2 DEF buildRules, pauseActive
    <2>2. redirects(rules, host)
      <3> HIDE DEF rules
      <3> QED BY <1>1, <2>1 DEF redirects
    <2> QED BY <1>2, <2>2, LoopsSay
  <1>3. CASE ~ paused(p, day, time)
    <2>1. \A rule : rule \in rules <=> \/ p.default_action = "block" /\ rule = default
                                       \/ rule \in candidates(p, day, time)
      BY <1>3 DEF buildRules, pauseActive, candidates
    <2>2. default.priority = 1 /\ default.action = "redirect" /\ appliesTo(default, host)
      BY <1>1 DEF DEFAULT_BLOCK_PRIORITY
    <2> HIDE DEF rules, default
    <2>3. CASE Deciding(p, host) = {}
      <3>1. \A k \in 1 .. Len(entries(p)) : ~ matches(entries(p)[k], host)
        <4>1. DecidesFirst(p, host, day, time, Len(entries(p)), decideByEntries(p, host, day, time))
          BY EntriesAreList, LoopDecides
        <4> QED BY <2>3, <4>1, DecidingIsDecides DEF DecidesFirst
      <3>2. \A rule \in rules : appliesTo(rule, host) => p.default_action = "block" /\ rule = default
        BY <2>1, <3>1, EntryOfCandidate
      <3>3. redirects(rules, host) <=> p.default_action = "block"
        BY <2>1, <2>2, <3>2 DEF redirects
      <3>4. DecideAt(p, host, day, time).action = p.default_action
        BY <1>3, <2>3, LoopsSay
      <3> QED BY <3>3, <3>4 DEF rules
    <2>4. ASSUME NEW k \in Deciding(p, host)
          PROVE  redirects(rules, host) <=> DecideAt(p, host, day, time).action = "block"
      <3> DEFINE e == entries(p)[k]
                 top == priorityOf(p, e)
      <3>1. k \in 1 .. Len(entries(p)) /\ matches(e, host)
        BY DecidingIsDecides DEF Decides
      <3>2. PICK chosen \in candidates(p, day, time) :
               appliesTo(chosen, host) /\ Carries(chosen, p, e, day, time)
        BY <3>1, CandidateOfEntry
      <3>3. top \in Int /\ top > 1
        <4>1. Len(e.domain) \in Nat /\ sourceCount(p) \in Nat
              /\ sourceOrder(p, e) \in 0 .. sourceCount(p)
          BY <3>1, EntriesAreList, SourcesInOrder DEF IsList
        <4> QED BY <4>1, PriorityOrder DEF priorityOf, DEFAULT_BLOCK_PRIORITY
      <3>4. ASSUME NEW rule \in rules, appliesTo(rule, host)
            PROVE  \/ rule.priority < top
                   \/ rule.priority = top /\ rule.action = pageAction(e, day, time)
        <4>1. CASE rule = default
          BY <2>2, <3>3, <4>1
        <4>2. CASE rule \in candidates(p, day, time)
          <5>1. PICK m \in 1 .. Len(entries(p)) :
                   matches(entries(p)[m], host) /\ Carries(rule, p, entries(p)[m], day, time)
            BY <3>4, <4>2, EntryOfCandidate
          <5>2. \/ priorityOf(p, entries(p)[m]) < top
                \/ /\ priorityOf(p, entries(p)[m]) = top
                   /\ pageAction(entries(p)[m], day, time) = pageAction(e, day, time)
            <6>1. matches(entries(p)[m], host)
              BY <5>1
            <6>2. Outweighs(p, entries(p)[k], entries(p)[m], day, time)
              BY <6>1, DecidingOutweighs
            <6> QED BY <6>2 DEF Outweighs
          <5> QED BY <5>1, <5>2 DEF Carries
        <4> QED BY <2>1, <4>1, <4>2
      <3>5. /\ chosen \in rules /\ chosen.priority = top
            /\ chosen.action = pageAction(e, day, time) /\ appliesTo(chosen, host)
        BY <2>1, <3>2 DEF Carries
      <3>6. DecideAt(p, host, day, time).action = scheduledAction(e, day, time)
        BY <1>3, <3>1, LoopsSay
      <3> HIDE DEF e, top
      <3>7. CASE scheduledAction(e, day, time) = "block"
        <4>1. pageAction(e, day, time) = "redirect"
          BY <3>7 DEF pageAction, actionForPolicy
        <4>2. redirects(rules, host)
          BY <3>4, <3>5, <4>1 DEF redirects
        <4> QED BY <3>6, <3>7, <4>2
      <3>8. CASE scheduledAction(e, day, time) # "block"
        <4>1. pageAction(e, day, time) = "allow"
          BY <3>8 DEF pageAction, actionForPolicy
        <4>2. ASSUME NEW rule \in rules, rule.action = "redirect", appliesTo(rule, host),
                     \/ chosen.priority < rule.priority
                     \/ chosen.priority = rule.priority /\ chosen.action = "redirect"
              PROVE  FALSE
          <5>1. rule.priority < top
            BY <3>4, <4>1, <4>2
          <5>2. top < rule.priority
            BY <3>5, <4>1, <4>2
          <5>3. rule.priority \in Int
            <6>1. CASE rule = default
              BY <2>2, <6>1
            <6>2. CASE rule \in candidates(p, day, time)
              <7>1. PICK m \in 1 .. Len(entries(p)) :
                       matches(entries(p)[m], host) /\ Carries(rule, p, entries(p)[m], day, time)
                BY <4>2, <6>2, EntryOfCandidate
              <7> DEFINE d == entries(p)[m]
              <7>2. Len(d.domain) \in Nat /\ sourceCount(p) \in Nat
                    /\ sourceOrder(p, d) \in 0 .. sourceCount(p)
                BY EntriesAreList, SourcesInOrder DEF IsList
              <7>3. rule.priority = priorityOf(p, d)
                BY <7>1 DEF Carries
              <7> HIDE DEF d
              <7> QED BY <7>2, <7>3, PriorityOrder DEF priorityOf
            <6> QED BY <2>1, <6>1, <6>2
          <5> QED BY <3>3, <5>1, <5>2, <5>3
        <4>3. ~ redirects(rules, host)
          BY <3>5, <4>2 DEF redirects
        <4> QED BY <3>6, <3>8, <4>3
      <3> QED BY <3>7, <3>8
    <2> QED BY <2>3, <2>4 DEF rules
  <1> QED BY <1>2, <1>3

(* The badge repeats the loops.                                             *)
LEMMA BadgeDecidesAlike ==
  ASSUME NEW p, NEW host, NEW day, NEW time
  PROVE  decideAt(p, host, day, time) = DecideAt(p, host, day, time).action
  BY DEF decideAt, DecideAt, pauseActive

(* A minute that the browser reads as one of the hour 24 is, for every      *)
(* window, like the last minute of the day.                                 *)
LEMMA LateIsLast ==
  ASSUME NEW w, isWindow(w), NEW day, NEW time \in Minutes
  PROVE  windowActive(w, day, time + DayLength) <=> windowActive(w, day, DayLength - 1)
  <1>1. /\ w.start \in Nat /\ w.start <= DayLength - 1
        /\ w.end \in Nat /\ w.end <= DayLength - 1
        /\ time \in Nat /\ DayLength \in Nat
    <2>1. \A m \in Minutes : m \in Nat /\ m <= DayLength - 1
      BY DEF Minutes
    <2>2. w.start \in Minutes /\ w.end \in Minutes
      BY DEF isWindow
    <2>3. time \in Nat BY <2>1
    <2>4. DayLength \in Nat BY DayLengthAssumption
    <2> QED BY <2>1, <2>2, <2>3, <2>4
  <1>2. time + DayLength >= w.start /\ ~ time + DayLength < w.end
    BY <1>1
  <1>3. DayLength - 1 >= w.start /\ ~ DayLength - 1 < w.end
    BY <1>1
  <1> QED BY <1>2, <1>3 DEF windowActive

(* So is the decision.                                                      *)
LEMMA LateDecidesAsLast ==
  ASSUME NEW p \in Profiles, NEW host \in Seq(Labels), NEW day, NEW time \in Minutes
  PROVE  DecideAt(p, host, day, time + DayLength).action =
            DecideAt(p, host, day, DayLength - 1).action
  <1> DEFINE late == time + DayLength
             last == DayLength - 1
  <1>1. paused(p, day, late) <=> paused(p, day, last)
    <2>1. ASSUME NEW i \in 1 .. Len(p.pauses)
          PROVE  windowActive(p.pauses[i], day, late) <=> windowActive(p.pauses[i], day, last)
      <3>1. p.pauses[i] \in Pauses
        BY ElementOfSeq DEF Profiles
      <3>2. isWindow(p.pauses[i])
        BY <3>1 DEF Pauses, isWindow
      <3> QED BY <3>2, LateIsLast
    <2> HIDE DEF late, last
    <2> QED BY <2>1 DEF paused
  <1>2. ASSUME NEW i \in Deciding(p, host)
        PROVE  scheduledAction(entries(p)[i], day, late) = scheduledAction(entries(p)[i], day, last)
    <2> DEFINE list == entries(p)[i].schedules
    <2>1. list \in Seq(Schedules)
      <3>1. entries(p)[i] \in Entries
        BY DecidingIsDecides, EntriesAreList
      <3> QED BY <3>1 DEF Entries
    <2>2. ASSUME NEW k \in 1 .. Len(list)
          PROVE  windowActive(list[k], day, late) <=> windowActive(list[k], day, last)
      <3> HIDE DEF list
      <3>1. list[k] \in Schedules
        BY <2>1, ElementOfSeq
      <3>2. isWindow(list[k])
        BY <3>1 DEF Schedules, isWindow
      <3> QED BY <3>2, LateIsLast
    <2>3. Len(list) \in Nat
      BY <2>1, LenProperties
    <2> HIDE DEF list, late, last
    <2>4. activeScheduledAction(list, day, late) = activeScheduledAction(list, day, last)
      <3>1. \A k \in 1 .. Len(list) : 1 .. (k - 1) \subseteq 1 .. Len(list)
        BY <2>3
      <3> QED BY <2>2, <3>1 DEF activeScheduledAction
    <2> QED BY <2>4 DEF list, scheduledAction
  <1> HIDE DEF late, last
  <1>3. DecideAt(p, host, day, late).action = DecideAt(p, host, day, last).action
    <2>1. CASE paused(p, day, late)
      BY <1>1, <2>1, LoopsSay
    <2>2. CASE ~ paused(p, day, late) /\ Deciding(p, host) = {}
      BY <1>1, <2>2, LoopsSay
    <2>3. ASSUME ~ paused(p, day, late), NEW i \in Deciding(p, host)
          PROVE  DecideAt(p, host, day, late).action = DecideAt(p, host, day, last).action
      BY <1>1, <1>2, <2>3, LoopsSay
    <2> QED BY <2>1, <2>2, <2>3
  <1> QED BY <1>3 DEF late, last

(* For every profile that NewStore accepts, at every minute and for every   *)
(* host, whichever minutes the browser writes with the hour 24: the rules   *)
(* and the badge say what the resolver does in the minute they stand for.   *)
THEOREM BrowserFollowsResolver == Spec => []BrowserAgreesWithDns
  <1>1. Inv => BrowserAgreesWithDns
    <2> SUFFICES ASSUME Inv, NEW host \in Names
                 PROVE  LET blocked == DecideAt(profile, host, today, browserMinute).action = "block"
                            seen == localClock(minute)
                        IN /\ redirects(buildRules(profile, today, seen), host) <=> blocked
                           /\ (decideAt(profile, host, today, seen) = "block") <=> blocked
      BY DEF BrowserAgreesWithDns
    <2>1. profile \in Profiles /\ host \in Seq(Labels) /\ minute \in Minutes
      BY NamesAreNames DEF Inv, TypeInv
    <2>2. DecideAt(profile, host, today, localClock(minute)).action =
             DecideAt(profile, host, today, browserMinute).action
      <3>1. CASE minute < MidnightMinutes
        BY <2>1, <3>1, LateDecidesAsLast DEF localClock, browserMinute
      <3>2. CASE ~ minute < MidnightMinutes
        BY <3>2 DEF localClock, browserMinute
      <3> QED BY <3>1, <3>2
    <2> QED BY <2>1, <2>2, RulesDecideAlike, BadgeDecidesAlike
  <1> QED BY <1>1, Invariant, PTL
=============================================================================
