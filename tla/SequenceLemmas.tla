---------------------------- MODULE SequenceLemmas ---------------------------
(***************************************************************************)
(* Facts about the operators the models are built from.                    *)
(*                                                                         *)
(* Selections: the members of a finite set, each with the members not above*)
(* it, form a chain whose sizes number the members from 1 on; a filter and *)
(* a stable sort are both written by such ranks.                           *)
(*                                                                         *)
(* Loops and folds: what a recursive function over a sequence goes through *)
(* exists and is unique, which gives what flattening, filtering and reading*)
(* a sequence do when an entry is added.  Induction is by the least        *)
(* counterexample, or the shortest.                                        *)
(***************************************************************************)
EXTENDS Selections, SequencesExt, FunctionTheorems, FiniteSetTheorems, SequenceTheorems, TLAPS

-----------------------------------------------------------------------------
(* Selections.                                                             *)

(* A set of numbers has a least one: induction by the least                *)
(* counterexample.                                                         *)
LEMMA Least ==
  ASSUME NEW T \in SUBSET Nat, T # {}
  PROVE  \E m \in T : \A k \in T : m <= k
<1>1. IsWellFoundedOn(OpToRel(<, Nat), Nat)
  BY NatLessThanWellFounded
<1>2. PICK m \in T : \A k \in T : <<k, m>> \notin OpToRel(<, Nat)
  BY <1>1, WFMin, Zenon
<1>3. \A k \in T : ~(k < m)
  BY <1>2 DEF OpToRel
<1> QED BY <1>3

(* In a finite chain of sets the sizes number the members from 1 on.       *)
LEMMA Ranks ==
  ASSUME NEW I, IsFiniteSet(I), NEW below \in [I -> SUBSET I],
         \A i \in I : i \in below[i],
         \A i, j \in I : i # j => /\ below[i] # below[j]
                                  /\ below[i] \subseteq below[j] \/ below[j] \subseteq below[i]
  PROVE  /\ \A i \in I : Cardinality(below[i]) \in 1..Cardinality(I)
         /\ \A i, j \in I : Cardinality(below[i]) = Cardinality(below[j]) => i = j
         /\ \A i, j \in I : Cardinality(below[i]) <= Cardinality(below[j]) => below[i] \subseteq below[j]
         /\ \A k \in 1..Cardinality(I) : \E i \in I : Cardinality(below[i]) = k
<1>1. \A i \in I : Cardinality(below[i]) \in 1..Cardinality(I)
  <2> TAKE i \in I
  <2>1. IsFiniteSet(below[i]) /\ Cardinality(below[i]) <= Cardinality(I)
    BY FS_Subset
  <2>2. Cardinality(below[i]) \in Nat /\ Cardinality(I) \in Nat
    BY <2>1, FS_CardinalityType
  <2>3. Cardinality(below[i]) # 0
    BY <2>1, FS_EmptySet
  <2> QED BY <2>1, <2>2, <2>3
<1>2. ASSUME NEW i \in I, NEW j \in I, below[i] \subseteq below[j], below[i] # below[j]
      PROVE  Cardinality(below[i]) < Cardinality(below[j])
  <2>1. IsFiniteSet(below[j])
    BY FS_Subset
  <2>2. below[i] \in SUBSET below[j]
    BY <1>2
  <2>3. Cardinality(below[i]) <= Cardinality(below[j]) /\ Cardinality(below[i]) # Cardinality(below[j])
    BY <1>2, <2>1, <2>2, FS_Subset
  <2> QED BY <1>1, <2>3
<1>3. \A i, j \in I : Cardinality(below[i]) = Cardinality(below[j]) => i = j
  <2> SUFFICES ASSUME NEW i \in I, NEW j \in I, i # j
               PROVE  Cardinality(below[i]) # Cardinality(below[j])
    OBVIOUS
  <2> QED BY <1>1, <1>2
<1>4. \A i, j \in I : Cardinality(below[i]) <= Cardinality(below[j]) => below[i] \subseteq below[j]
  <2> SUFFICES ASSUME NEW i \in I, NEW j \in I, Cardinality(below[i]) <= Cardinality(below[j])
               PROVE  below[i] \subseteq below[j]
    OBVIOUS
  <2>1. CASE i = j
    BY <2>1
  <2>2. CASE i # j /\ below[j] \subseteq below[i]
    <3>1. Cardinality(below[j]) < Cardinality(below[i])
      BY <1>2, <2>2
    <3> QED BY <1>1, <3>1
  <2> QED BY <2>1, <2>2
<1>5. \A k \in 1..Cardinality(I) : \E i \in I : Cardinality(below[i]) = k
  <2> DEFINE rank == [i \in I |-> Cardinality(below[i])]
             N == 1..Cardinality(I)
  <2>1. Cardinality(I) \in Nat
    BY FS_CardinalityType
  <2>2. IsFiniteSet(N) /\ Cardinality(N) = Cardinality(I)
    <3>1. 1 \in Int /\ Cardinality(I) \in Int
      BY <2>1
    <3> QED BY <2>1, <3>1, FS_Interval
  <2>3. rank \in Injection(I, N)
    BY <1>1, <1>3 DEF Injection, IsInjective
  <2>4. rank \in Surjection(I, N)
    <3> HIDE DEF rank, N
    <3> QED BY <2>2, <2>3, FS_Injection
  <2> QED BY <2>4 DEF Surjection
<1> QED BY <1>1, <1>3, <1>4, <1>5

(* The places of a sequence are finitely many.                             *)
LEMMA PlacesFinite ==
  ASSUME NEW n \in Nat, NEW I \in SUBSET (1..n)
  PROVE  I \in SUBSET Nat /\ IsFiniteSet(I)
<1>1. IsFiniteSet(1..n)
  BY FS_Interval
<1>2. IsFiniteSet(I)
  BY <1>1, FS_Subset
<1> QED BY <1>2

(* PlaceOf runs through the chosen places, in their order and once each.   *)
LEMMA Places ==
  ASSUME NEW I \in SUBSET Nat, IsFiniteSet(I)
  PROVE  /\ Cardinality(I) \in Nat
         /\ \A k \in 1..Cardinality(I) : PlaceOf(I, k) \in I
         /\ \A k, m \in 1..Cardinality(I) : k < m => PlaceOf(I, k) < PlaceOf(I, m)
         /\ \A i \in I : \E k \in 1..Cardinality(I) : PlaceOf(I, k) = i
<1> DEFINE below == [i \in I |-> {j \in I : j <= i}]
<1>1. Cardinality(I) \in Nat
  BY FS_CardinalityType
<1>2. /\ below \in [I -> SUBSET I]
      /\ \A i \in I : i \in below[i]
      /\ \A i, j \in I : i # j => /\ below[i] # below[j]
                                  /\ below[i] \subseteq below[j] \/ below[j] \subseteq below[i]
  <2>1. below \in [I -> SUBSET I]
    OBVIOUS
  <2>2. \A i \in I : i \in Nat /\ i \in below[i]
    OBVIOUS
  <2>3. ASSUME NEW i \in I, NEW j \in I, i < j
        PROVE  j \notin below[i] /\ below[i] \subseteq below[j]
    <3>1. below[i] = {m \in I : m <= i} /\ below[j] = {m \in I : m <= j}
      OBVIOUS
    <3> HIDE DEF below
    <3>2. i \in Nat /\ j \in Nat /\ ~(j <= i)
      BY <2>2, <2>3
    <3>3. \A m \in I : m \in Nat /\ (m <= i => m <= j)
      BY <2>2, <2>3
    <3> QED BY <3>1, <3>2, <3>3, Zenon
  <2>4. \A i, j \in I : i # j => i < j \/ j < i
    BY <2>2
  <2> HIDE DEF below
  <2> QED BY <2>1, <2>2, <2>3, <2>4
<1>3. /\ \A i \in I : Cardinality(below[i]) \in 1..Cardinality(I)
      /\ \A i, j \in I : Cardinality(below[i]) = Cardinality(below[j]) => i = j
      /\ \A i, j \in I : Cardinality(below[i]) <= Cardinality(below[j]) => below[i] \subseteq below[j]
      /\ \A k \in 1..Cardinality(I) : \E i \in I : Cardinality(below[i]) = k
  <2> HIDE DEF below
  <2> QED BY <1>1, <1>2, Ranks
<1>4. \A i \in I : below[i] = {j \in I : j <= i}
  OBVIOUS
<1>5. ASSUME NEW k \in 1..Cardinality(I) PROVE PlaceOf(I, k) \in I /\ Cardinality(below[PlaceOf(I, k)]) = k
  <2> HIDE DEF below
  <2>1. PICK i \in I : Cardinality(below[i]) = k
    BY <1>3
  <2>3. Cardinality({j \in I : j <= i}) = k
    BY <1>4, <2>1
  <2>2. PlaceOf(I, k) \in I /\ Cardinality({j \in I : j <= PlaceOf(I, k)}) = k
    BY <2>3 DEF PlaceOf
  <2> QED BY <1>4, <2>2
<1>6. ASSUME NEW k \in 1..Cardinality(I), NEW m \in 1..Cardinality(I), k < m
      PROVE  PlaceOf(I, k) < PlaceOf(I, m)
  <2> DEFINE i == PlaceOf(I, k)
             j == PlaceOf(I, m)
  <2>1. i \in I /\ j \in I /\ Cardinality(below[i]) = k /\ Cardinality(below[j]) = m
    BY <1>5
  <2> HIDE DEF i, j, below
  <2>2. i # j /\ below[i] \subseteq below[j]
    BY <1>1, <1>3, <1>6, <2>1
  <2>3. i \in below[j]
    BY <1>2, <2>1, <2>2
  <2>4. i <= j
    BY <1>4, <2>1, <2>3
  <2>5. i \in Nat /\ j \in Nat
    BY <2>1
  <2>6. i < j
    BY <2>2, <2>4, <2>5
  <2> QED BY <2>6 DEF i, j
<1>7. ASSUME NEW i \in I PROVE \E k \in 1..Cardinality(I) : PlaceOf(I, k) = i
  <2> HIDE DEF below
  <2>1. PICK k \in 1..Cardinality(I) : k = Cardinality(below[i])
    BY <1>3
  <2>2. PlaceOf(I, k) \in I /\ Cardinality(below[PlaceOf(I, k)]) = k
    BY <1>5
  <2> QED BY <1>3, <2>1, <2>2
<1> QED BY <1>1, <1>5, <1>6, <1>7

\* What a filter keeps is what it found, in the order it found it, and all of it.
(* A filter keeps exactly the chosen entries, in their order               *)
(* (Iterator::filter).                                                     *)
LEMMA SelectedKeeps ==
  ASSUME NEW S, NEW s \in Seq(S), NEW I \in SUBSET DOMAIN s
  PROVE  /\ Selected(s, I) \in Seq(S)
         /\ Len(Selected(s, I)) = Cardinality(I) /\ Cardinality(I) \in Nat
         /\ \A k \in DOMAIN Selected(s, I) : /\ PlaceOf(I, k) \in I
                                             /\ Selected(s, I)[k] = s[PlaceOf(I, k)]
         /\ \A k, m \in DOMAIN Selected(s, I) : k < m => PlaceOf(I, k) < PlaceOf(I, m)
         /\ \A i \in I : \E k \in DOMAIN Selected(s, I) : PlaceOf(I, k) = i
<1>1. I \in SUBSET (1..Len(s)) /\ Len(s) \in Nat
  OBVIOUS
<1>a. I \in SUBSET Nat /\ IsFiniteSet(I)
  BY <1>1, PlacesFinite
<1>2. /\ Cardinality(I) \in Nat
      /\ \A k \in 1..Cardinality(I) : PlaceOf(I, k) \in I
      /\ \A k, m \in 1..Cardinality(I) : k < m => PlaceOf(I, k) < PlaceOf(I, m)
      /\ \A i \in I : \E k \in 1..Cardinality(I) : PlaceOf(I, k) = i
  BY <1>a, Places
<1>3. /\ DOMAIN Selected(s, I) = 1..Cardinality(I)
      /\ \A k \in 1..Cardinality(I) : Selected(s, I)[k] = s[PlaceOf(I, k)]
  BY DEF Selected
<1>4. \A k \in 1..Cardinality(I) : s[PlaceOf(I, k)] \in S
  BY <1>1, <1>2
<1>5. Selected(s, I) \in [1..Cardinality(I) -> S]
  BY <1>4 DEF Selected
<1>6. Selected(s, I) \in Seq(S)
  BY <1>2, <1>5
<1>7. Len(Selected(s, I)) = Cardinality(I)
  BY <1>2, <1>3, <1>6
<1> QED BY <1>2, <1>3, <1>6, <1>7

(* A sequence without repetition is no longer than what it is drawn from,  *)
(* and as long exactly if it leaves nothing out.                           *)
LEMMA CountDistinct ==
  ASSUME NEW S, IsFiniteSet(S), NEW s \in Seq(S),
         \A m, n \in DOMAIN s : s[m] = s[n] => m = n
  PROVE  /\ Cardinality(S) \in Nat /\ Len(s) \in Nat /\ Len(s) <= Cardinality(S)
         /\ Len(s) = Cardinality(S) <=> \A x \in S : \E i \in DOMAIN s : s[i] = x
<1> DEFINE N == 1..Len(s)
<1>1. Len(s) \in Nat /\ DOMAIN s = N /\ s \in [N -> S]
  OBVIOUS
<1>2. IsFiniteSet(N) /\ Cardinality(N) = Len(s)
  <2>1. 1 \in Int /\ Len(s) \in Int
    BY <1>1
  <2> QED BY <1>1, <2>1, FS_Interval
<1>3. s \in Injection(N, S)
  BY <1>1 DEF Injection, IsInjective
<1>4. s \in Surjection(N, S) <=> \A x \in S : \E i \in DOMAIN s : s[i] = x
  BY <1>1 DEF Surjection
<1>5. Cardinality(N) <= Cardinality(S) /\ (Cardinality(N) = Cardinality(S) <=> s \in Surjection(N, S))
  <2> HIDE DEF N
  <2> QED BY <1>3, FS_Injection
<1> QED BY <1>1, <1>2, <1>4, <1>5, FS_CardinalityType

(* Two sequences without repetition that share nothing, one after the other. *)
LEMMA Distinct ==
  ASSUME NEW S, NEW s \in Seq(S), NEW t \in Seq(S), Range(s) \cap Range(t) = {},
         \A m, n \in DOMAIN s : s[m] = s[n] => m = n,
         \A m, n \in DOMAIN t : t[m] = t[n] => m = n
  PROVE  /\ s \o t \in Seq(S) /\ Range(s \o t) = Range(s) \cup Range(t)
         /\ \A m, n \in DOMAIN (s \o t) : (s \o t)[m] = (s \o t)[n] => m = n
<1> DEFINE u == s \o t
<1>1. /\ Len(s) \in Nat /\ Len(t) \in Nat /\ DOMAIN s = 1..Len(s) /\ DOMAIN t = 1..Len(t)
      /\ u \in Seq(S) /\ DOMAIN u = 1..(Len(s) + Len(t))
      /\ \A i \in DOMAIN u : u[i] = IF i <= Len(s) THEN s[i] ELSE t[i - Len(s)]
  OBVIOUS
<1> HIDE DEF u
<1>2. \A i \in DOMAIN u : \/ i \in DOMAIN s /\ u[i] = s[i]
                          \/ i > Len(s) /\ i - Len(s) \in DOMAIN t /\ u[i] = t[i - Len(s)]
  BY <1>1
<1>3. \A i \in DOMAIN s : i \in DOMAIN u /\ u[i] = s[i]
  BY <1>1
<1>4. \A i \in DOMAIN t : i + Len(s) \in DOMAIN u /\ u[i + Len(s)] = t[i]
  BY <1>1
<1>5. Range(u) \subseteq Range(s) \cup Range(t)
  BY <1>2 DEF Range
<1>6. Range(s) \cup Range(t) \subseteq Range(u)
  BY <1>3, <1>4 DEF Range
<1>7. ASSUME NEW m \in DOMAIN u, NEW n \in DOMAIN u, u[m] = u[n] PROVE m = n
  <2>1. \A i \in DOMAIN s, j \in DOMAIN t : s[i] # t[j]
    BY DEF Range
  <2>2. m \in Nat /\ n \in Nat
    BY <1>1
  <2>3. CASE m \in DOMAIN s /\ u[m] = s[m]
    BY <1>2, <1>7, <2>1, <2>3
  <2>4. CASE m > Len(s) /\ m - Len(s) \in DOMAIN t /\ u[m] = t[m - Len(s)]
    <3>1. n > Len(s) /\ n - Len(s) \in DOMAIN t /\ u[n] = t[n - Len(s)]
      BY <1>2, <1>7, <2>1, <2>4
    <3>2. m - Len(s) = n - Len(s)
      BY <1>7, <2>4, <3>1
    <3> QED BY <1>1, <2>2, <3>2
  <2> QED BY <1>2, <2>3, <2>4
<1> QED BY <1>1, <1>5, <1>6, <1>7 DEF u

-----------------------------------------------------------------------------
(* Loops and folds.                                                        *)

(* What a loop over n steps goes through.                                  *)
LEMMA Iterates ==
  ASSUME NEW S, NEW base \in S, NEW N \in Nat, NEW F \in [1..N -> [S -> S]]
  PROVE  \E g \in [0..N -> S] : g[0] = base /\ \A k \in 1..N : g[k] = F[k][g[k - 1]]
<1> DEFINE P(n) == \E g \in [0..n -> S] : g[0] = base /\ \A k \in 1..n : g[k] = F[k][g[k - 1]]
           T == {n \in 0..N : ~P(n)}
<1>1. SUFFICES ASSUME T # {} PROVE FALSE
  <2>1. N \in 0..N
    OBVIOUS
  <2> HIDE DEF P
  <2>2. P(N)
    BY <1>1, <2>1
  <2> QED BY <2>2 DEF P
<1>2. T \in SUBSET Nat
  OBVIOUS
<1>3. PICK m \in T : \A k \in T : m <= k
  <2> HIDE DEF T
  <2> QED BY <1>1, <1>2, Least
<1>4. m # 0
  <2>1. P(0)
    <3> DEFINE g == [k \in 0..0 |-> base]
    <3>1. g \in [0..0 -> S] /\ g[0] = base /\ \A k \in 1..0 : g[k] = F[k][g[k - 1]]
      OBVIOUS
    <3> HIDE DEF g
    <3> QED BY <3>1
  <2> HIDE DEF P
  <2> QED BY <1>3, <2>1
<1>5. m \in 1..N /\ m - 1 \in 0..N /\ m \in Nat /\ m - 1 \in Nat
  BY <1>3, <1>4
<1>6. P(m - 1)
  <2> HIDE DEF P
  <2> QED BY <1>3, <1>5
<1>7. PICK g \in [0..(m - 1) -> S] : g[0] = base /\ \A k \in 1..(m - 1) : g[k] = F[k][g[k - 1]]
  BY <1>6
<1> DEFINE new == F[m][g[m - 1]]
           h == [k \in 0..m |-> IF k = m THEN new ELSE g[k]]
<1>8. new \in S
  BY <1>5
<1> HIDE DEF new
<1>9. h \in [0..m -> S] /\ h[0] = base /\ h[m] = new /\ \A k \in 0..(m - 1) : h[k] = g[k]
  BY <1>5, <1>7, <1>8
<1> HIDE DEF h
<1>10. \A k \in 1..m : h[k] = F[k][h[k - 1]]
  <2> TAKE k \in 1..m
  <2>1. CASE k = m
    BY <1>5, <1>9, <2>1 DEF new
  <2>2. CASE k # m
    <3>1. k \in 1..(m - 1) /\ k \in 0..(m - 1) /\ k - 1 \in 0..(m - 1)
      BY <1>5, <2>2
    <3> QED BY <1>7, <1>9, <3>1
  <2> QED BY <2>1, <2>2
<1>11. P(m)
  BY <1>9, <1>10
<1> HIDE DEF P
<1> QED BY <1>3, <1>11


(* The same, for a prover that need not look into it.                      *)
Looping(g, S, base, N, F) ==
  g \in [0..N -> S] /\ g[0] = base /\ \A k \in 1..N : g[k] = F[k][g[k - 1]]
(* The steps of a loop.                                                    *)
Steps(F, S, N) == N \in Nat /\ F \in [1..N -> [S -> S]]

(* The same, with the hypotheses kept together.                            *)
LEMMA LoopExists ==
  ASSUME NEW S, NEW base \in S, NEW N, NEW F, Steps(F, S, N)
  PROVE  \E g : Looping(g, S, base, N, F)
BY Iterates DEF Looping, Steps

(* What every step of a loop preserves holds of all it goes through.       *)
LEMMA Iterated ==
  ASSUME NEW S, NEW N \in Nat, NEW g, g[0] \in S,
         \A k \in 1..N : g[k - 1] \in S => g[k] \in S
  PROVE  \A k \in 0..N : g[k] \in S
<1> DEFINE T == {k \in 0..N : g[k] \notin S}
<1>1. SUFFICES ASSUME T # {} PROVE FALSE
  OBVIOUS
<1>2. T \in SUBSET Nat
  OBVIOUS
<1>3. PICK m \in T : \A k \in T : m <= k
  <2> HIDE DEF T
  <2> QED BY <1>1, <1>2, Least
<1>4. m \in 1..N /\ m - 1 \in 0..N /\ ~(m <= m - 1)
  BY <1>3
<1>5. g[m - 1] \in S
  <2>1. m - 1 \notin T
    <3> HIDE DEF T
    <3> QED BY <1>3, <1>4
  <2> QED BY <1>4, <2>1
<1> QED BY <1>3, <1>4, <1>5

(* The loop by which sequences are put one after the other.                *)
LEMMA FlattenLoop ==
  ASSUME NEW S, NEW ss \in Seq(Seq(S)), ss # <<>>
  PROVE  \E g : /\ FlattenSeq(ss) = g[Len(ss)] /\ g[1] = ss[1]
                /\ \A k \in 2..Len(ss) : g[k] = g[k - 1] \o ss[k]
                /\ \A k \in 1..Len(ss) : g[k] \in Seq(S)
<1> DEFINE N == Len(ss)
           F == [k \in 1..N |-> [x \in Seq(S) |-> x \o ss[k]]]
           rec(g) == [i \in 1..N |-> IF i = 1 THEN ss[i] ELSE g[i - 1] \o ss[i]]
           flat == CHOOSE g : g = rec(g)
<1>1. N \in Nat /\ N # 0 /\ (\A k \in 1..N : ss[k] \in Seq(S)) /\ <<>> \in Seq(S)
  OBVIOUS
<1>2. F \in [1..N -> [Seq(S) -> Seq(S)]]
  <2>1. ASSUME NEW k \in 1..N PROVE [x \in Seq(S) |-> x \o ss[k]] \in [Seq(S) -> Seq(S)]
    <3>1. ss[k] \in Seq(S)
      BY <1>1
    <3>2. \A x \in Seq(S) : x \o ss[k] \in Seq(S)
      BY <3>1, ConcatProperties
    <3> QED BY <3>2
  <2> QED BY <2>1
<1> HIDE DEF N
<1>3. PICK g \in [0..N -> Seq(S)] : g[0] = <<>> /\ \A k \in 1..N : g[k] = F[k][g[k - 1]]
  <2> DEFINE empty == <<>>
             Q == Seq(S)
  <2>1. empty \in Q /\ N \in Nat /\ F \in [1..N -> [Q -> Q]]
    BY <1>1, <1>2
  <2>2. Steps(F, Q, N)
    BY <2>1 DEF Steps
  <2> HIDE DEF F, empty, Q
  <2>3. PICK g : Looping(g, Q, empty, N, F)
    BY <2>1, <2>2, LoopExists
  <2> QED BY <2>3 DEF empty, Q, Looping
<1>4. \A k \in 1..N : g[k] = g[k - 1] \o ss[k] /\ g[k] \in Seq(S) /\ g[k - 1] \in Seq(S)
  <2> TAKE k \in 1..N
  <2>1. k - 1 \in 0..N /\ k \in 0..N
    BY <1>1
  <2> QED BY <1>3, <2>1
<1>5. g[1] = ss[1]
  <2>1. 1 \in 1..N /\ ss[1] \in Seq(S) /\ 1 - 1 = 0
    BY <1>1
  <2>2. g[1] = g[0] \o ss[1]
    BY <1>4, <2>1
  <2>3. g[1] = <<>> \o ss[1]
    BY <1>3, <2>2
  <2> QED BY <2>1, <2>3, ConcatEmptySeq
<1> DEFINE h == [k \in 1..N |-> g[k]]
<1>6. h = rec(h)
  <2>1. \A i \in 1..N : h[i] = IF i = 1 THEN ss[i] ELSE h[i - 1] \o ss[i]
    <3> TAKE i \in 1..N
    <3>1. CASE i = 1
      BY <1>5, <3>1
    <3>2. CASE i # 1
      <4>1. i - 1 \in 1..N
        BY <1>1, <3>2
      <4> QED BY <1>4, <3>2, <4>1
    <3> QED BY <3>1, <3>2
  <2> QED BY <2>1
<1>7. flat = rec(flat)
  <2> HIDE DEF rec, h
  <2> QED BY <1>6
<1>8. FlattenSeq(ss) = flat[N]
  BY <1>1 DEF FlattenSeq, N
<1> HIDE DEF flat
<1>9. /\ flat[1] = ss[1]
      /\ \A k \in 2..N : flat[k] = flat[k - 1] \o ss[k]
  <2>1. flat[1] = ss[1]
    BY <1>1, <1>7
  <2>2. ASSUME NEW k \in 2..N PROVE flat[k] = flat[k - 1] \o ss[k]
    <3>1. k \in 1..N /\ k # 1
      BY <1>1
    <3> QED BY <1>7, <3>1
  <2> QED BY <2>1, <2>2
<1>10. \A k \in 1..N : flat[k] \in Seq(S)
  <2> DEFINE f == [k \in 0..N |-> IF k = 0 THEN <<>> ELSE flat[k]]
  <2>1. f[0] \in Seq(S)
    BY <1>1
  <2>2. ASSUME NEW k \in 1..N, f[k - 1] \in Seq(S) PROVE f[k] \in Seq(S)
    <3>1. k \in 0..N /\ f[k] = flat[k] /\ ss[k] \in Seq(S)
      BY <1>1
    <3>2. CASE k = 1
      <4>1. f[k] = ss[k]
        BY <1>9, <3>1, <3>2
      <4> QED BY <3>1, <4>1
    <3>3. CASE k # 1
      <4>1. k \in 2..N /\ k - 1 \in 0..N /\ k - 1 # 0
        BY <1>1, <3>3
      <4>2. flat[k] = flat[k - 1] \o ss[k] /\ f[k - 1] = flat[k - 1]
        BY <1>9, <4>1
      <4>3. flat[k - 1] \in Seq(S)
        BY <2>2, <4>2
      <4>4. flat[k - 1] \o ss[k] \in Seq(S)
        BY <3>1, <4>3, ConcatProperties
      <4> QED BY <3>1, <4>2, <4>4
    <3> QED BY <3>2, <3>3
  <2> HIDE DEF f
  <2>3. \A k \in 0..N : f[k] \in Seq(S)
    BY <1>1, <2>1, <2>2, Iterated
  <2> QED BY <1>1, <2>3 DEF f
<1> QED BY <1>8, <1>9, <1>10 DEF N

(* Two such loops over the same sequences end alike.                       *)
Flattens(g, ss, n) == g[1] = ss[1] /\ \A k \in 2..n : g[k] = g[k - 1] \o ss[k]

(* Two ways to go through the same parts end alike.                        *)
LEMMA FlattenSame ==
  ASSUME NEW ss, NEW n \in Nat \ {0}, NEW g, NEW h, Flattens(g, ss, n), Flattens(h, ss, n)
  PROVE  g[n] = h[n]
<1> USE DEF Flattens
<1> DEFINE T == {k \in 1..n : g[k] # h[k]}
<1>1. SUFFICES ASSUME T # {} PROVE FALSE
  OBVIOUS
<1>2. T \in SUBSET Nat
  OBVIOUS
<1>3. PICK m \in T : \A k \in T : m <= k
  <2> HIDE DEF T
  <2> QED BY <1>1, <1>2, Least
<1>4. m \in 2..n /\ m - 1 \in 1..n /\ ~(m <= m - 1)
  BY <1>3
<1>5. g[m - 1] = h[m - 1]
  <2>1. m - 1 \notin T
    <3> HIDE DEF T
    <3> QED BY <1>3, <1>4
  <2> QED BY <1>4, <2>1
<1> QED BY <1>3, <1>4, <1>5

(* What is flattened is made of what was in the parts.                     *)
LEMMA FlattenKeeps ==
  ASSUME NEW S, NEW ss \in Seq(Seq(S))
  PROVE  FlattenSeq(ss) \in Seq(S)
<1>1. CASE ss = <<>>
  BY <1>1 DEF FlattenSeq
<1>2. CASE ss # <<>>
  <2>1. Len(ss) \in 1..Len(ss)
    BY <1>2
  <2> QED BY <1>2, <2>1, FlattenLoop
<1> QED BY <1>1, <1>2

(* One more sequence goes at the end.                                      *)
LEMMA FlattenAppend ==
  ASSUME NEW S, NEW ss \in Seq(Seq(S)), NEW x \in Seq(S)
  PROVE  FlattenSeq(Append(ss, x)) = FlattenSeq(ss) \o x
<1> DEFINE tt == Append(ss, x)
           n == Len(ss)
<1>1. /\ tt \in Seq(Seq(S)) /\ Len(tt) = n + 1 /\ tt # <<>> /\ n \in Nat /\ tt[n + 1] = x
      /\ \A k \in 1..n : tt[k] = ss[k]
  BY AppendProperties
<1> HIDE DEF tt
<1>2. PICK h : /\ FlattenSeq(tt) = h[Len(tt)] /\ h[1] = tt[1]
               /\ \A k \in 2..Len(tt) : h[k] = h[k - 1] \o tt[k]
               /\ \A k \in 1..Len(tt) : h[k] \in Seq(S)
  BY <1>1, FlattenLoop
<1>3. CASE ss = <<>>
  <2>1. n = 0 /\ FlattenSeq(ss) = <<>>
    BY <1>3 DEF FlattenSeq
  <2>2. FlattenSeq(tt) = x
    BY <1>1, <1>2, <2>1
  <2> QED BY <2>1, <2>2, ConcatEmptySeq DEF tt
<1>4. CASE ss # <<>>
  <2>1. PICK g : /\ FlattenSeq(ss) = g[Len(ss)] /\ g[1] = ss[1]
                 /\ \A k \in 2..Len(ss) : g[k] = g[k - 1] \o ss[k]
                 /\ \A k \in 1..Len(ss) : g[k] \in Seq(S)
    BY <1>4, FlattenLoop
  <2>2. n \in 1..n /\ 1 \in 1..n /\ n + 1 \in 2..Len(tt) /\ n + 1 - 1 = n
    BY <1>1, <1>4
  <2>3. h[1] = ss[1] /\ \A k \in 2..n : h[k] = h[k - 1] \o ss[k]
    <3>1. h[1] = ss[1]
      BY <1>1, <1>2, <2>2
    <3>2. ASSUME NEW k \in 2..n PROVE h[k] = h[k - 1] \o ss[k]
      <4>1. k \in 2..Len(tt) /\ k \in 1..n
        BY <1>1
      <4> QED BY <1>1, <1>2, <4>1
    <3> QED BY <3>1, <3>2
  <2>4. h[n] = g[n]
    <3>1. Flattens(h, ss, n)
      BY <2>3 DEF Flattens
    <3>2. Flattens(g, ss, n)
      BY <2>1 DEF Flattens
    <3>3. n \in Nat \ {0}
      BY <1>1, <2>2
    <3> HIDE DEF n
    <3> QED BY <3>1, <3>2, <3>3, FlattenSame
  <2>5. FlattenSeq(tt) = h[n] \o x
    <3>1. ASSUME NEW k \in 2..Len(tt), k = n + 1 PROVE h[k] = h[n] \o x
      <4>1. h[k] = h[k - 1] \o tt[k]
        BY <1>2, Zenon
      <4>2. k - 1 = n
        BY <1>1, <3>1
      <4> QED BY <1>1, <3>1, <4>1, <4>2
    <3> QED BY <1>1, <1>2, <2>2, <3>1
  <2> QED BY <2>1, <2>4, <2>5 DEF tt
<1> QED BY <1>3, <1>4

(* A sequence with elements is its front and its last element.            *)
LEMMA FrontLast ==
  ASSUME NEW S, NEW t \in Seq(S), t # <<>>
  PROVE  /\ Front(t) \in Seq(S) /\ Last(t) \in S /\ Append(Front(t), Last(t)) = t
         /\ Len(Front(t)) = Len(t) - 1 /\ Len(t) - 1 \in Nat
<1> DEFINE s == Front(t)
           x == Last(t)
<1>1. Len(t) \in Nat \ {0}
  OBVIOUS
<1>2. s = [i \in 1..(Len(t) - 1) |-> t[i]] /\ x = t[Len(t)]
  BY <1>1 DEF Front, Last
<1>3. s \in Seq(S) /\ Len(s) = Len(t) - 1
  BY <1>1, <1>2
<1>4. x \in S
  BY <1>1, <1>2
<1>5. Append(s, x) = t
  BY <1>1, <1>2, <1>3, <1>4
<1> QED BY <1>1, <1>3, <1>4, <1>5

(* Induction over sequences: of some of them one is shortest.              *)
LEMMA Shortest ==
  ASSUME NEW S, NEW T \in SUBSET Seq(S), T # {}
  PROVE  <<>> \in T \/ \E s \in Seq(S), x \in S : s \notin T /\ Append(s, x) \in T
<1> DEFINE L == {n \in Nat : \E t \in T : Len(t) = n}
<1>1. L # {} /\ L \in SUBSET Nat
  <2>1. PICK t \in T : TRUE
    OBVIOUS
  <2>2. Len(t) \in L
    BY <2>1
  <2> QED BY <2>2
<1>2. PICK n \in L : \A k \in L : n <= k
  <2> HIDE DEF L
  <2> QED BY <1>1, Least
<1>3. PICK t \in T : Len(t) = n
  BY <1>2
<1>4. t \in Seq(S) /\ n \in Nat
  BY <1>1, <1>2
<1>5. CASE t = <<>>
  BY <1>5
<1>6. CASE t # <<>>
  <2> DEFINE s == Front(t)
             x == Last(t)
  <2>1. s \in Seq(S) /\ x \in S /\ Append(s, x) = t /\ Len(s) = n - 1 /\ n - 1 \in Nat
    BY <1>3, <1>4, <1>6, FrontLast
  <2> HIDE DEF s, x
  <2>2. s \notin T
    <3>1. ~(n <= Len(s))
      BY <1>4, <2>1
    <3> QED BY <1>2, <2>1, <3>1
  <2> QED BY <2>1, <2>2
<1> QED BY <1>5, <1>6


(* What Append does, in full.                                              *)
LEMMA AppendShape ==
  ASSUME NEW S, NEW s \in Seq(S), NEW x \in S
  PROVE  /\ Append(s, x) \in Seq(S) /\ Len(Append(s, x)) = Len(s) + 1 /\ Len(s) \in Nat
         /\ DOMAIN s = 1..Len(s) /\ DOMAIN Append(s, x) = 1..(Len(s) + 1)
         /\ Append(s, x)[Len(s) + 1] = x
         /\ \A i \in 1..Len(s) : Append(s, x)[i] = s[i]
         /\ Append(s, x) = [i \in 1..(Len(s) + 1) |-> Append(s, x)[i]]
<1>1. /\ Append(s, x) \in Seq(S) /\ Len(Append(s, x)) = Len(s) + 1 /\ Len(s) \in Nat
      /\ Append(s, x)[Len(s) + 1] = x
      /\ \A i \in 1..Len(s) : Append(s, x)[i] = s[i]
  BY AppendProperties
<1>2. DOMAIN s = 1..Len(s) /\ DOMAIN Append(s, x) = 1..(Len(s) + 1)
  BY <1>1
<1> DEFINE t == Append(s, x)
<1>3. t \in Seq(S) /\ Len(t) = Len(s) + 1
  BY <1>1
<1> HIDE DEF t
<1>4. t = [i \in 1..Len(t) |-> t[i]]
  BY <1>3
<1> QED BY <1>1, <1>2, <1>3, <1>4 DEF t

(* What a sequence's elements contribute, one after the other.             *)
Flat(f, s) == FlattenSeq([i \in DOMAIN s |-> f[s[i]]])
(* Each entry brings a sequence.                                           *)
Feeds(f, X, S) == f \in [X -> Seq(S)]
(* A filter that drops only entries that bring nothing.                    *)
Filters(keep, f, X) == \A x \in X : keep[x] = <<x>> \/ (keep[x] = <<>> /\ f[x] = <<>>)

(* Nothing is made of nothing.                                             *)
LEMMA FlatEmpty ==
  ASSUME NEW f
  PROVE  Flat(f, <<>>) = <<>>
<1>1. [i \in DOMAIN <<>> |-> f[<<>>[i]]] = <<>>
  OBVIOUS
<1> QED BY <1>1 DEF Flat, FlattenSeq

(* What is put together is made of the parts' entries.                     *)
LEMMA FlatKeeps ==
  ASSUME NEW S, NEW X, NEW f, Feeds(f, X, S), NEW s \in Seq(X)
  PROVE  Flat(f, s) \in Seq(S)
<1> DEFINE Q == Seq(S)
           e == [i \in DOMAIN s |-> f[s[i]]]
<1>1. Len(s) \in Nat /\ e = [i \in 1..Len(s) |-> f[s[i]]] /\ \A i \in 1..Len(s) : f[s[i]] \in Q
  BY DEF Feeds
<1> HIDE DEF Q
<1>2. e \in Seq(Q)
  BY <1>1
<1> HIDE DEF e
<1>3. FlattenSeq(e) \in Seq(S)
  BY <1>2, FlattenKeeps DEF Q
<1> QED BY <1>3 DEF Flat, e

(* An entry more adds its part at the end.                                 *)
LEMMA FlatAppend ==
  ASSUME NEW S, NEW X, NEW f, Feeds(f, X, S), NEW s \in Seq(X), NEW x \in X
  PROVE  /\ Flat(f, s) \in Seq(S)
         /\ Flat(f, Append(s, x)) = Flat(f, s) \o f[x]
<1> DEFINE Q == Seq(S)
           e == [i \in DOMAIN s |-> f[s[i]]]
           t == Append(s, x)
           y == f[x]
           n == Len(s)
<1>1. /\ t \in Seq(X) /\ n \in Nat /\ DOMAIN s = 1..n /\ DOMAIN t = 1..(n + 1)
      /\ t[n + 1] = x /\ \A i \in 1..n : t[i] = s[i]
  BY AppendShape
<1>2. y \in Q /\ \A i \in 1..n : s[i] \in X
  BY <1>1 DEF Feeds
<1>3. e = [i \in 1..n |-> f[s[i]]] /\ \A i \in 1..n : f[s[i]] \in Q
  BY <1>1, <1>2 DEF Feeds
<1> HIDE DEF Q, t
<1>4. e \in Seq(Q) /\ Len(e) = n /\ \A i \in 1..n : e[i] = f[s[i]]
  BY <1>1, <1>3
<1> HIDE DEF e, y
<1>5. /\ Append(e, y) \in Seq(Q) /\ Append(e, y)[n + 1] = y
      /\ \A i \in 1..n : Append(e, y)[i] = e[i]
      /\ Append(e, y) = [i \in 1..(n + 1) |-> Append(e, y)[i]]
  <2> HIDE DEF n
  <2>1. /\ Append(e, y) \in Seq(Q)
        /\ Append(e, y)[Len(e) + 1] = y
        /\ \A i \in 1..Len(e) : Append(e, y)[i] = e[i]
        /\ Append(e, y) = [i \in 1..(Len(e) + 1) |-> Append(e, y)[i]]
    BY <1>2, <1>4, AppendShape
  <2> QED BY <1>4, <2>1
<1>6. [i \in 1..(n + 1) |-> f[t[i]]] = Append(e, y)
  <2>1. \A i \in 1..(n + 1) : f[t[i]] = Append(e, y)[i]
    <3> TAKE i \in 1..(n + 1)
    <3>1. CASE i = n + 1
      <4>1. f[t[i]] = y
        BY <1>1, <3>1 DEF y
      <4> QED BY <1>5, <3>1, <4>1
    <3>2. CASE i # n + 1
      <4>1. i \in 1..n
        BY <1>1, <3>2
      <4> QED BY <1>1, <1>4, <1>5, <4>1
    <3> QED BY <3>1, <3>2
  <2> QED BY <1>5, <2>1
<1>7. FlattenSeq(Append(e, y)) = FlattenSeq(e) \o y /\ FlattenSeq(e) \in Seq(S)
  <2>1. e \in Seq(Seq(S)) /\ y \in Seq(S)
    BY <1>2, <1>4 DEF Q
  <2> QED BY <2>1, FlattenAppend, FlattenKeeps
<1> HIDE DEF n
<1>8. Flat(f, t) = FlattenSeq([i \in 1..(n + 1) |-> f[t[i]]])
  BY <1>1 DEF Flat
<1>9. Flat(f, s) = FlattenSeq(e)
  BY DEF Flat, e
<1> QED BY <1>6, <1>7, <1>8, <1>9 DEF t, y

(* What is left out contributes nothing: the rest contributes the same.    *)
LEMMA FlatFilter ==
  ASSUME NEW S, NEW X, NEW f, NEW keep, Feeds(f, X, S), Feeds(keep, X, X),
         Filters(keep, f, X),
         NEW s \in Seq(X)
  PROVE  Flat(f, Flat(keep, s)) = Flat(f, s)
<1> DEFINE T == {u \in Seq(X) : Flat(f, Flat(keep, u)) # Flat(f, u)}
<1>1. SUFFICES ASSUME T # {} PROVE FALSE
  OBVIOUS
<1>2. T \in SUBSET Seq(X)
  OBVIOUS
<1>3. <<>> \in T \/ \E u \in Seq(X), x \in X : u \notin T /\ Append(u, x) \in T
  <2> HIDE DEF T
  <2> QED BY <1>1, <1>2, Shortest
<1>4. <<>> \notin T
  <2>1. Flat(keep, <<>>) = <<>> /\ Flat(f, <<>>) = <<>>
    BY FlatEmpty
  <2> QED BY <2>1
<1>5. PICK u \in Seq(X), x \in X : u \notin T /\ Append(u, x) \in T
  <2> HIDE DEF T
  <2> QED BY <1>3, <1>4
<1>6. Append(u, x) \in Seq(X) /\ Flat(f, Flat(keep, u)) = Flat(f, u)
  BY <1>5, AppendShape
<1>7. /\ Flat(keep, u) \in Seq(X)
      /\ Flat(keep, Append(u, x)) = Flat(keep, u) \o keep[x]
  BY FlatAppend
<1>8. /\ Flat(f, u) \in Seq(S)
      /\ Flat(f, Append(u, x)) = Flat(f, u) \o f[x]
  BY FlatAppend
<1>9. PICK k \in Seq(X) : k = Flat(keep, u)
  BY <1>7
<1>10. /\ Flat(f, k) \in Seq(S)
       /\ Flat(f, Append(k, x)) = Flat(f, k) \o f[x]
  BY FlatAppend, SMTT(30)
<1>11. CASE keep[x] = <<x>>
  <2>1. k \o <<x>> = Append(k, x)
    <3>1. \A w \in Seq(X), v \in X : w \o <<v>> = Append(w, v)
      <4> TAKE w \in Seq(X), v \in X
      <4> QED OBVIOUS
    <3> QED BY <1>9, <3>1
  <2> QED BY <1>5, <1>6, <1>7, <1>8, <1>9, <1>10, <1>11, <2>1
<1>12. CASE keep[x] = <<>> /\ f[x] = <<>>
  <2>1. k \o <<>> = k
    BY <1>9, ConcatEmptySeq
  <2>2. Flat(f, u) \o <<>> = Flat(f, u)
    BY <1>8, ConcatEmptySeq
  <2> QED BY <1>5, <1>6, <1>7, <1>8, <1>9, <1>12, <2>1, <2>2
<1> QED BY <1>11, <1>12 DEF Filters

=============================================================================
