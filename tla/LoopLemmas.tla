----------------------------- MODULE LoopLemmas -----------------------------
(***************************************************************************)
(* Induction, over the numbers and over sequences, and what a loop         *)
(* computes: lemmas about no part of the program, which the proofs of the  *)
(* policy decision and of the pairing use.                                 *)
(*                                                                         *)
(* The library states induction for an operator, which the provers cannot  *)
(* instantiate.  Here it is stated for a set of numbers, or of sequences:  *)
(* a set that holds 0, and n + 1 with every n, holds every number.         *)
(***************************************************************************)
EXTENDS SequencesExt, WellFoundedInduction, SequenceTheorems, TLAPS

LessOnNat == {pair \in Nat \X Nat : pair[1] < pair[2]}

(* A set of numbers that holds 0, and n + 1 with every n, holds every number. *)
LEMMA Induction ==
  ASSUME NEW T \in SUBSET Nat, 0 \in T, \A n \in T : n + 1 \in T
  PROVE  T = Nat
  <1>1. IsWellFoundedOn(LessOnNat, Nat)
    BY NatLessThanWellFounded DEF OpToRel, LessOnNat
  <1> SUFFICES ASSUME T # Nat PROVE FALSE
    OBVIOUS
  <1>2. PICK x \in Nat \ T : \A y \in Nat \ T : ~ (<<y, x>> \in LessOnNat)
    BY <1>1, WFMin
  <1>3. x - 1 \in Nat /\ <<x - 1, x>> \in LessOnNat /\ (x - 1) + 1 = x
    BY DEF LessOnNat
  <1>4. x - 1 \in T
    BY <1>2, <1>3
  <1> QED BY <1>2, <1>3, <1>4

(* A set of numbers that is not empty has a least one.                      *)
LEMMA LeastNumber ==
  ASSUME NEW T \in SUBSET Nat, T # {}
  PROVE  \E n \in T : \A m \in T : n <= m
  <1>1. IsWellFoundedOn(LessOnNat, Nat)
    BY NatLessThanWellFounded DEF OpToRel, LessOnNat
  <1>2. PICK n \in T : \A m \in T : ~ (<<m, n>> \in LessOnNat)
    BY <1>1, WFMin
  <1>3. ASSUME NEW m \in T PROVE n <= m
    <2>1. m \in Nat /\ n \in Nat /\ <<m, n>> \notin LessOnNat
      BY <1>2
    <2>2. ~ (m < n)
      BY <2>1 DEF LessOnNat
    <2> QED BY <2>1, <2>2
  <1> QED BY <1>3

(* What rounding down a quotient loses.                                      *)
LEMMA RoundedDown ==
  ASSUME NEW a \in Nat, NEW b \in Nat, b > 0
  PROVE  a \div b \in Nat /\ a < (a \div b + 1) * b
  OBVIOUS

(* A loop of n rounds, step[i] being what the body makes of a state in the  *)
(* i-th: f[i] is the state after i rounds.                                  *)
Repeats(f, n, S, base, step) ==
    /\ f \in [0 .. n -> S]
    /\ f[0] = base
    /\ \A i \in 1 .. n : f[i] = step[i][f[i - 1]]

(* A loop computes something.                                                *)
LEMMA Recursion ==
  ASSUME NEW n \in Nat, NEW S, NEW base \in S, NEW step \in [1 .. n -> [S -> S]]
  PROVE  \E f : Repeats(f, n, S, base, step)
  <1> DEFINE Computes(f, k) == Repeats(f, k, S, base, step)
             T == {k \in Nat : k <= n => \E f : Computes(f, k)}
  <1>1. 0 \in T
    <2>1. Computes([i \in 0 .. 0 |-> base], 0)
      BY DEF Repeats
    <2> QED BY <2>1
  <1>2. ASSUME NEW k \in T PROVE k + 1 \in T
    <2> SUFFICES ASSUME k + 1 <= n PROVE \E g : Computes(g, k + 1)
      <3> HIDE DEF Computes
      <3> QED BY <1>2
    <2>1. PICK f : Computes(f, k)
      BY <1>2
    <2> DEFINE g == [i \in 0 .. k + 1 |-> IF i = k + 1 THEN step[k + 1][f[k]] ELSE f[i]]
    <2>0. k \in Nat /\ k + 1 \in 1 .. n
      OBVIOUS
    <2>2. g \in [0 .. k + 1 -> S]
      <3>1. step[k + 1][f[k]] \in S
        BY <2>0, <2>1 DEF Repeats
      <3> QED BY <2>0, <2>1, <3>1 DEF Repeats
    <2>3. g[0] = base /\ \A i \in 1 .. k + 1 : g[i] = step[i][g[i - 1]]
      BY <2>0, <2>1 DEF Repeats
    <2>4. Computes(g, k + 1)
      BY <2>2, <2>3 DEF Repeats
    <2> QED BY <2>4
  <1>3. n \in T
    <2> HIDE DEF T
    <2>1. T \in SUBSET Nat
      BY DEF T
    <2> QED BY <1>1, <1>2, <2>1, Induction
  <1> QED BY <1>3

(* What holds of the empty sequence, and of a sequence with one more element *)
(* when it holds of that sequence, holds of all.                             *)
LEMMA SequenceInduction ==
  ASSUME NEW S, NEW T \in SUBSET Seq(S), <<>> \in T,
         \A s \in T : \A x \in S : Append(s, x) \in T
  PROVE  T = Seq(S)
  <1> DEFINE N == {n \in Nat : \A s \in Seq(S) : Len(s) = n => s \in T}
  <1>1. 0 \in N
    <2>1. \A s \in Seq(S) : Len(s) = 0 => s = <<>>
      OBVIOUS
    <2> QED BY <2>1
  <1>2. ASSUME NEW n \in N PROVE n + 1 \in N
    <2> SUFFICES ASSUME NEW s \in Seq(S), Len(s) = n + 1 PROVE s \in T
      OBVIOUS
    <2>1. s # <<>>
      BY <1>2
    <2>2. PICK front \in Seq(S), x \in S : s = Append(front, x)
      BY <2>1, SequenceEmptyOrAppend
    <2>3. Len(front) = n
      BY <1>2, <2>2, AppendProperties
    <2>4. front \in T
      BY <1>2, <2>2, <2>3
    <2> QED BY <2>2, <2>4
  <1>3. N = Nat
    <2> HIDE DEF N
    <2>1. N \in SUBSET Nat
      BY DEF N
    <2> QED BY <1>1, <1>2, <2>1, Induction
  <1>4. ASSUME NEW s \in Seq(S) PROVE s \in T
    <2>1. Len(s) \in N
      BY <1>3, LenProperties
    <2> QED BY <2>1
  <1> QED BY <1>4

(* Two runs of the same loop compute the same.                              *)
LEMMA RepeatsUnique ==
  ASSUME NEW n \in Nat, NEW S, NEW base, NEW step, NEW f, NEW g,
         Repeats(f, n, S, base, step), Repeats(g, n, S, base, step)
  PROVE  \A i \in 0 .. n : f[i] = g[i]
  <1> DEFINE T == {k \in Nat : k <= n => f[k] = g[k]}
  <1>1. 0 \in T
    BY DEF Repeats
  <1>2. ASSUME NEW k \in T PROVE k + 1 \in T
    <2> SUFFICES ASSUME k + 1 <= n PROVE f[k + 1] = g[k + 1]
      OBVIOUS
    <2>1. k \in Nat /\ k + 1 \in 1 .. n /\ (k + 1) - 1 = k /\ f[k] = g[k]
      BY <1>2
    <2> QED BY <2>1 DEF Repeats
  <1>3. T = Nat
    <2> HIDE DEF T
    <2>1. T \in SUBSET Nat
      BY DEF T
    <2> QED BY <1>1, <1>2, <2>1, Induction
  <1> QED BY <1>3

(* FlattenSeq as a loop over the sequences.                                 *)
appending(S, seqs) == [i \in 1 .. Len(seqs) |-> [s \in Seq(S) |-> s \o seqs[i]]]

(* FlattenSeq computes what that loop does.                                  *)
LEMMA FlattenRepeats ==
  ASSUME NEW S, NEW seqs \in Seq(Seq(S))
  PROVE  \E f : /\ Repeats(f, Len(seqs), Seq(S), <<>>, appending(S, seqs))
                /\ FlattenSeq(seqs) = f[Len(seqs)]
  <1> DEFINE m == Len(seqs)
             Flattens(f) == f = [i \in 1 .. m |->
                                    IF i = 1 THEN seqs[i] ELSE f[i - 1] \o seqs[i]]
             Q == Seq(S)
  <1>0. m \in Nat /\ \A i \in 1 .. m : seqs[i] \in Q
    BY LenProperties, ElementOfSeq
  <1>1. /\ <<>> \in Q
        /\ \A s, t \in Q : s \o t \in Q
        /\ \A s \in Q : <<>> \o s = s
    BY EmptySeq, ConcatProperties, ConcatEmptySeq
  <1>2. appending(S, seqs) = [i \in 1 .. m |-> [s \in Q |-> s \o seqs[i]]]
    BY DEF appending
  <1> HIDE DEF m, Q
  <1> DEFINE step == appending(S, seqs)
  <1>3. PICK f : Repeats(f, m, Q, <<>>, step)
    <2>1. step \in [1 .. m -> [Q -> Q]]
      BY <1>0, <1>1, <1>2
    <2> HIDE DEF step
    <2> QED BY <1>0, <1>1, <2>1, Recursion
  <1>4. /\ f \in [0 .. m -> Q] /\ f[0] = <<>>
        /\ \A i \in 1 .. m : f[i] = f[i - 1] \o seqs[i]
    <2>1. f \in [0 .. m -> Q] /\ f[0] = <<>>
      BY <1>3 DEF Repeats
    <2>2. ASSUME NEW i \in 1 .. m PROVE f[i] = f[i - 1] \o seqs[i]
      <3>1. f[i - 1] \in Q
        BY <1>0, <2>1
      <3>2. f[i] = step[i][f[i - 1]]
        BY <1>3 DEF Repeats
      <3> QED BY <1>2, <3>1, <3>2
    <2> QED BY <2>1, <2>2
  <1>5. 1 \in 1 .. m => f[1] = seqs[1]
    <2> SUFFICES ASSUME 1 \in 1 .. m PROVE f[1] = seqs[1]
      OBVIOUS
    <2>1. f[1] = f[1 - 1] \o seqs[1]
      BY <1>4
    <2>2. 1 - 1 = 0
      OBVIOUS
    <2>3. f[1] = f[0] \o seqs[1]
      BY <2>1, <2>2
    <2> QED BY <1>0, <1>1, <1>4, <2>3
  <1>6. \E g : Flattens(g)
    <2> DEFINE g == [i \in 1 .. m |-> f[i]]
    <2>1. ASSUME NEW i \in 1 .. m
          PROVE  g[i] = IF i = 1 THEN seqs[i] ELSE g[i - 1] \o seqs[i]
      <3>1. CASE i = 1
        BY <1>5, <3>1
      <3>2. CASE i # 1
        <4>1. i - 1 \in 1 .. m
          BY <1>0, <3>2
        <4> QED BY <1>4, <3>2, <4>1
      <3> QED BY <3>1, <3>2
    <2>2. Flattens(g)
      BY <2>1
    <2> QED BY <2>2
  <1> DEFINE g == CHOOSE h : Flattens(h)
  <1>7. Flattens(g)
    <2> HIDE DEF Flattens
    <2> QED BY <1>6
  <1>8. FlattenSeq(seqs) = IF m = 0 THEN seqs ELSE g[m]
    BY DEF FlattenSeq, m
  <1> HIDE DEF g
  <1> DEFINE T == {k \in Nat : k \in 1 .. m => g[k] = f[k]}
  <1>9. 0 \in T
    OBVIOUS
  <1>10. ASSUME NEW k \in T PROVE k + 1 \in T
    <2> SUFFICES ASSUME k + 1 \in 1 .. m PROVE g[k + 1] = f[k + 1]
      BY <1>10
    <2>1. CASE k = 0
      BY <1>5, <1>7, <2>1
    <2>2. CASE k # 0
      <3>1. k \in 1 .. m /\ (k + 1) - 1 = k /\ k + 1 # 1
        BY <1>0, <1>10, <2>2
      <3>2. g[k] = f[k]
        BY <1>10, <3>1
      <3>3. g[k + 1] = g[k] \o seqs[k + 1]
        BY <1>7, <3>1
      <3>4. f[k + 1] = f[k] \o seqs[k + 1]
        BY <1>4, <3>1
      <3> QED BY <3>2, <3>3, <3>4
    <2> QED BY <2>1, <2>2
  <1>11. T = Nat
    <2> HIDE DEF T
    <2>1. T \in SUBSET Nat
      BY DEF T
    <2> QED BY <1>9, <1>10, <2>1, Induction
  <1>12. FlattenSeq(seqs) = f[m]
    <2>1. CASE m = 0
      <3>1. seqs = <<>>
        BY <2>1, EmptySeq DEF m
      <3> QED BY <1>4, <1>8, <2>1, <3>1
    <2>2. CASE m # 0
      <3>1. m \in 1 .. m
        BY <1>0, <2>2
      <3> QED BY <1>8, <1>11, <2>2, <3>1
    <2> QED BY <2>1, <2>2
  <1> QED BY <1>3, <1>12 DEF m, Q

(* Flattening sequences of S yields a sequence of S.                         *)
LEMMA FlattenType ==
  ASSUME NEW S, NEW seqs \in Seq(Seq(S))
  PROVE  FlattenSeq(seqs) \in Seq(S)
  <1>1. PICK f : /\ Repeats(f, Len(seqs), Seq(S), <<>>, appending(S, seqs))
                 /\ FlattenSeq(seqs) = f[Len(seqs)]
    BY FlattenRepeats
  <1>2. Len(seqs) \in Nat
    BY LenProperties
  <1>3. f[Len(seqs)] \in Seq(S)
    <2> DEFINE Q == Seq(S)
               m == Len(seqs)
    <2>1. m \in Nat /\ f \in [0 .. m -> Q]
      BY <1>1, <1>2 DEF Repeats
    <2> HIDE DEF Q, m
    <2>2. f[m] \in Q
      BY <2>1
    <2> QED BY <2>2 DEF Q, m
  <1> QED BY <1>1, <1>3

(* One sequence more is one more at the end of what the others yield.        *)
LEMMA FlattenAppend ==
  ASSUME NEW S, NEW seqs \in Seq(Seq(S)), NEW s \in Seq(S)
  PROVE  FlattenSeq(Append(seqs, s)) = FlattenSeq(seqs) \o s
  <1> DEFINE Q == Seq(S)
             m == Len(seqs)
             longer == Append(seqs, s)
             step == appending(S, seqs)
             next == appending(S, longer)
  <1>1. /\ longer \in Seq(Q) /\ m \in Nat /\ Len(longer) = m + 1
        /\ \A i \in 1 .. m : longer[i] = seqs[i]
        /\ longer[m + 1] = s
    BY AppendProperties, LenProperties
  <1>2. PICK f : Repeats(f, m, Q, <<>>, step) /\ FlattenSeq(seqs) = f[m]
    BY FlattenRepeats
  <1>3. PICK g : Repeats(g, m + 1, Q, <<>>, next) /\ FlattenSeq(longer) = g[m + 1]
    <2> HIDE DEF longer
    <2> QED BY <1>1, FlattenRepeats
  <1>4. \A i \in 1 .. m : next[i] = step[i]
    BY <1>1 DEF appending
  <1>5. \A t \in Q : next[m + 1][t] = t \o s
    <2>1. m + 1 \in 1 .. Len(longer)
      BY <1>1
    <2> QED BY <1>1, <2>1 DEF appending
  <1> HIDE DEF Q, m, longer, step, next
  <1> DEFINE h == [i \in 0 .. m |-> g[i]]
  <1>6. /\ g \in [0 .. m + 1 -> Q] /\ g[0] = <<>>
        /\ \A i \in 1 .. m + 1 : g[i] = next[i][g[i - 1]]
    BY <1>3 DEF Repeats
  <1>7. Repeats(h, m, Q, <<>>, step)
    <2>1. h \in [0 .. m -> Q] /\ h[0] = <<>>
      BY <1>1, <1>6
    <2>2. ASSUME NEW i \in 1 .. m PROVE h[i] = step[i][h[i - 1]]
      <3>1. i \in 1 .. m + 1 /\ i - 1 \in 0 .. m
        BY <1>1
      <3> QED BY <1>4, <1>6, <3>1
    <2> QED BY <2>1, <2>2 DEF Repeats
  <1>8. g[m] = f[m]
    <2>1. h[m] = f[m]
      <3> HIDE DEF h
      <3> QED BY <1>1, <1>2, <1>7, RepeatsUnique
    <2> QED BY <1>1, <2>1
  <1>9. g[m + 1] = g[m] \o s
    <2>1. m + 1 \in 1 .. m + 1 /\ (m + 1) - 1 = m /\ g[m] \in Q
      BY <1>1, <1>6
    <2>2. g[m + 1] = next[m + 1][g[m]]
      BY <1>6, <2>1
    <2> QED BY <1>5, <2>1, <2>2
  <1> QED BY <1>2, <1>3, <1>8, <1>9 DEF longer
=============================================================================
