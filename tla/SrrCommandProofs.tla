-------------------------- MODULE SrrCommandProofs --------------------------
(***************************************************************************)
(* What SrrCommand checks of three turns, for any number of runs, edits and    *)
(* configurations, any tables and any command lines.  The heart is that the   *)
(* digest tells exactly the groups that were changed: sorting is undone by    *)
(* no edit and does nothing but arrange, and what is written and read again    *)
(* is written as before.                                                     *)
(***************************************************************************)
EXTENDS SrrCommand, SequenceTheorems, FunctionTheorems, FiniteSetTheorems, NaturalsInduction, WellFoundedInduction, TLAPS

-----------------------------------------------------------------------------
(* Order. *)

LEMMA LeastNatural ==
  ASSUME NEW S \in SUBSET Nat, S # {}
  PROVE  \E n \in S : \A m \in S : n <= m
<1>1. PICK n \in S : \A m \in S : ~(<<m, n>> \in OpToRel(<, Nat))
  BY NatLessThanWellFounded, WFMin, Zenon
<1>2. \A m \in S : ~(m < n)
  BY <1>1, Zenon DEF OpToRel
<1>. QED BY <1>2

LEMMA TableEntries ==
  \A g \in Group : /\ m_fp[g] \in Seq([m_feature : Feature, m_priority : Nat])
                   /\ DOMAIN m_fp[g] = 1..Len(m_fp[g]) /\ Len(m_fp[g]) \in Nat
                   /\ \A i \in DOMAIN m_fp[g] : m_fp[g][i] \in [m_feature : Feature, m_priority : Nat]
<1> SUFFICES ASSUME NEW g \in Group
             PROVE  /\ m_fp[g] \in Seq([m_feature : Feature, m_priority : Nat])
                    /\ DOMAIN m_fp[g] = 1..Len(m_fp[g]) /\ Len(m_fp[g]) \in Nat
                    /\ \A i \in DOMAIN m_fp[g] : m_fp[g][i] \in [m_feature : Feature, m_priority : Nat]
  OBVIOUS
<1>1. m_fp[g] \in Seq([m_feature : Feature, m_priority : Nat])
  BY TablesAssumption
<1>. QED BY <1>1, LenProperties, ElementOfSeq

LEMMA PriorityIsNat == \A f : getPriority(f) \in Nat
<1> SUFFICES ASSUME NEW f PROVE getPriority(f) \in Nat
  OBVIOUS
<1> DEFINE g == CHOOSE h \in getGroupFromFeature(f) : TRUE
           i == CHOOSE j \in DOMAIN m_fp[g] : m_fp[g][j].m_feature = f
<1>1. CASE getGroupFromFeature(f) = {}
  BY <1>1 DEF getPriority
<1>2. CASE getGroupFromFeature(f) # {}
  <2>1. g \in Group /\ f \in FeaturesOf(g)
    BY <1>2 DEF getGroupFromFeature
  <2>2. i \in DOMAIN m_fp[g]
    BY <2>1 DEF FeaturesOf
  <2>3. m_fp[g][i].m_priority \in Nat
    <3> HIDE DEF g, i
    <3>. QED BY <2>1, <2>2, TableEntries
  <2>. QED BY <1>2, <2>3 DEF getPriority
<1>. QED BY <1>1, <1>2

LEMMA FeaturesOfGroups == \A g \in Group : FeaturesOf(g) \subseteq Feature
BY TableEntries DEF FeaturesOf

(* No feature is in two groups.                                               *)
LEMMA GroupOfFeature ==
  ASSUME NEW g \in Group, NEW f \in FeaturesOf(g)
  PROVE  getGroupFromFeature(f) = {g}
<1>1. \A h \in Group : f \in FeaturesOf(h) => h = g
  BY TablesAssumption
<1>. QED BY <1>1 DEF getGroupFromFeature

(* The priority of a feature is the one m_fp gives it.                         *)
LEMMA PriorityInGroup ==
  ASSUME NEW g \in Group, NEW i \in DOMAIN m_fp[g]
  PROVE  getPriority(m_fp[g][i].m_feature) = m_fp[g][i].m_priority
<1> DEFINE f == m_fp[g][i].m_feature
<1>1. f \in FeaturesOf(g)
  BY DEF FeaturesOf
<1>2. getGroupFromFeature(f) = {g}
  BY <1>1, GroupOfFeature
<1>3. (CHOOSE h \in getGroupFromFeature(f) : TRUE) = g
  BY <1>2
<1>4. (CHOOSE j \in DOMAIN m_fp[g] : m_fp[g][j].m_feature = f) = i
  <2>1. \A j \in DOMAIN m_fp[g] : m_fp[g][j].m_feature = f => j = i
    BY FeaturesListedOnce
  <2>. QED BY <2>1
<1>. QED BY <1>2, <1>3, <1>4 DEF getPriority

(* In an ascending sequence nothing comes twice, nor does a name.             *)
LEMMA AscendsOnce ==
  ASSUME NEW fs, Ascends(fs), NEW i \in DOMAIN fs, NEW j \in DOMAIN fs, i < j
  PROVE  /\ fs[i] # fs[j] /\ fs[i].m_feature # fs[j].m_feature
         /\ getPriority(fs[i].m_feature) # getPriority(fs[j].m_feature)
<1>1. getPriority(fs[i].m_feature) < getPriority(fs[j].m_feature)
  BY Zenon DEF Ascends
<1>2. getPriority(fs[i].m_feature) \in Nat
  BY PriorityIsNat, Zenon
<1> DEFINE p == getPriority(fs[i].m_feature)
           q == getPriority(fs[j].m_feature)
<1>3. p # q
  <2> HIDE DEF p, q
  <2>1. p < q /\ p \in Nat
    BY <1>1, <1>2, Zenon DEF p, q
  <2>. QED BY <2>1
<1>. QED BY <1>3, Zenon

(* A group as it is saved is in order.                                        *)
LEMMA TablesAscend ==
  ASSUME NEW g \in Group, NEW fs, DOMAIN fs = DOMAIN m_fp[g],
         \A i \in DOMAIN fs : fs[i].m_feature = m_fp[g][i].m_feature
  PROVE  Ascends(fs)
<1>1. \A i \in DOMAIN fs : getPriority(fs[i].m_feature) = m_fp[g][i].m_priority
  BY PriorityInGroup
<1>. QED BY <1>1, TablesAssumption DEF Ascends

(* Two ways to arrange the same in ascending order are the same: the first     *)
(* place where they differ would hold the lesser of two in both.              *)
LEMMA AscendingAgree ==
  ASSUME NEW S, NEW s \in Seq(S), NEW t \in Seq(S), Ascends(s), Ascends(t),
         NEW k \in DOMAIN s, k \in DOMAIN t,
         \A i \in DOMAIN s : \E j \in DOMAIN t : t[j] = s[i],
         \A i \in DOMAIN t : \E j \in DOMAIN s : s[j] = t[i]
  PROVE  s[k] = t[k]
<1> SUFFICES ASSUME s[k] # t[k] PROVE FALSE
  OBVIOUS
<1> DEFINE D == {i \in DOMAIN s \cap DOMAIN t : s[i] # t[i]}
<1>1. DOMAIN s = 1..Len(s) /\ DOMAIN t = 1..Len(t) /\ Len(s) \in Nat /\ Len(t) \in Nat
  BY LenProperties
<1>2. PICK m \in D : \A i \in D : m <= i
  <2>1. D \subseteq Nat /\ k \in D
    BY <1>1
  <2>. QED BY <2>1, LeastNatural
<1>3. m \in DOMAIN s /\ m \in DOMAIN t /\ s[m] # t[m]
  BY <1>2
<1>4. \A i : i \in DOMAIN s /\ i < m => i \in DOMAIN t /\ s[i] = t[i]
  <2> SUFFICES ASSUME NEW i \in DOMAIN s, i < m PROVE i \in DOMAIN t /\ s[i] = t[i]
    OBVIOUS
  <2>1. i \in DOMAIN t
    BY <1>1, <1>3
  <2>2. i \notin D
    BY <1>1, <1>2
  <2>. QED BY <2>1, <2>2
<1>5. \A i : i \in DOMAIN t /\ i < m => i \in DOMAIN s /\ s[i] = t[i]
  <2> SUFFICES ASSUME NEW i \in DOMAIN t, i < m PROVE i \in DOMAIN s /\ s[i] = t[i]
    OBVIOUS
  <2>1. i \in DOMAIN s
    BY <1>1, <1>3
  <2>2. i \notin D
    BY <1>1, <1>2
  <2>. QED BY <2>1, <2>2
<1>6. PICK a \in DOMAIN t : t[a] = s[m]
  BY <1>3
<1>7. PICK b \in DOMAIN s : s[b] = t[m]
  BY <1>3
<1>8. m < a
  <2>1. ~(a < m)
    <3> SUFFICES ASSUME a < m PROVE FALSE
      OBVIOUS
    <3>1. a \in DOMAIN s /\ s[a] = s[m]
      BY <1>1, <1>5, <1>6
    <3>. QED BY <3>1, <1>3, AscendsOnce
  <2>. QED BY <2>1, <1>1, <1>3, <1>6
<1>9. m < b
  <2>1. ~(b < m)
    <3> SUFFICES ASSUME b < m PROVE FALSE
      OBVIOUS
    <3>1. b \in DOMAIN t /\ t[b] = t[m]
      BY <1>1, <1>4, <1>7
    <3>. QED BY <3>1, <1>3, AscendsOnce
  <2>. QED BY <2>1, <1>1, <1>3, <1>7
<1>10. getPriority(t[m].m_feature) < getPriority(s[m].m_feature)
  BY <1>3, <1>6, <1>8 DEF Ascends
<1>11. getPriority(s[m].m_feature) < getPriority(t[m].m_feature)
  BY <1>3, <1>7, <1>9 DEF Ascends
<1>. QED BY <1>10, <1>11, PriorityIsNat

LEMMA AscendingOnce ==
  ASSUME NEW S, NEW s \in Seq(S), NEW t \in Seq(S), Ascends(s), Ascends(t),
         \A i \in DOMAIN s : \E j \in DOMAIN t : t[j] = s[i],
         \A i \in DOMAIN t : \E j \in DOMAIN s : s[j] = t[i]
  PROVE  s = t
<1>1. DOMAIN s = 1..Len(s) /\ DOMAIN t = 1..Len(t) /\ Len(s) \in Nat /\ Len(t) \in Nat
  BY LenProperties
<1>2. \A k \in DOMAIN s \cap DOMAIN t : s[k] = t[k]
  <2> SUFFICES ASSUME NEW k \in DOMAIN s, k \in DOMAIN t PROVE s[k] = t[k]
    OBVIOUS
  <2>. QED BY AscendingAgree
<1>3. ~(Len(s) < Len(t))
  <2> SUFFICES ASSUME Len(s) < Len(t) PROVE FALSE
    OBVIOUS
  <2> DEFINE n == Len(t)
  <2>1. PICK j \in DOMAIN s : s[j] = t[n]
    BY <1>1
  <2>2. j \in DOMAIN t /\ n \in DOMAIN t /\ t[j] = t[n] /\ j < n
    BY <1>1, <1>2, <2>1
  <2>. QED BY <2>2, AscendsOnce
<1>4. ~(Len(t) < Len(s))
  <2> SUFFICES ASSUME Len(t) < Len(s) PROVE FALSE
    OBVIOUS
  <2> DEFINE n == Len(s)
  <2>1. PICK j \in DOMAIN t : t[j] = s[n]
    BY <1>1
  <2>2. j \in DOMAIN s /\ n \in DOMAIN s /\ s[j] = s[n] /\ j < n
    BY <1>1, <1>2, <2>1
  <2>. QED BY <2>2, AscendsOnce
<1>5. Len(s) = Len(t)
  <2> DEFINE n == Len(s)
             m == Len(t)
  <2>1. n \in Nat /\ m \in Nat /\ ~(n < m) /\ ~(m < n)
    BY <1>1, <1>3, <1>4
  <2> HIDE DEF n, m
  <2>2. n = m
    BY <2>1
  <2>. QED BY <2>2 DEF n, m
<1>6. DOMAIN s = DOMAIN t
  BY <1>1, <1>5
<1>7. s \in [DOMAIN s -> S] /\ t \in [DOMAIN t -> S]
  BY <1>1, LenProperties
<1>. QED BY <1>2, <1>6, <1>7

-----------------------------------------------------------------------------
(* Sorting. *)

(* std::sort of features no two of which have the same priority: there is one  *)
(* result.  A rearrangement that covers them has each of them once.           *)
LEMMA SortedIs ==
  ASSUME NEW S, NEW fs \in Seq(S), NEW t \in Seq(S), DOMAIN t = DOMAIN fs, Ascends(t),
         \A i \in DOMAIN fs : \E j \in DOMAIN t : t[j] = fs[i],
         \A i \in DOMAIN t : \E j \in DOMAIN fs : fs[j] = t[i]
  PROVE  SortedByPriority(fs) = t
<1> DEFINE R == {fs[i] : i \in DOMAIN fs}
           n == Len(fs)
           Sorted(s) == /\ \A i \in DOMAIN fs : \E j \in DOMAIN s : s[j] = fs[i]
                        /\ \A i, j \in DOMAIN s : i < j =>
                             getPriority(s[i].m_feature) <= getPriority(s[j].m_feature)
<1>1. DOMAIN fs = 1..n /\ n \in Nat
  BY LenProperties
<1>2. t \in [DOMAIN fs -> R]
  <2>1. t \in [DOMAIN t -> S]
    BY LenProperties
  <2>2. \A i \in DOMAIN t : t[i] \in R
    OBVIOUS
  <2>. QED BY <2>1, <2>2
<1>3. Sorted(t)
  <2> SUFFICES ASSUME NEW i \in DOMAIN t, NEW j \in DOMAIN t, i < j
               PROVE  getPriority(t[i].m_feature) <= getPriority(t[j].m_feature)
    OBVIOUS
  <2>1. getPriority(t[i].m_feature) < getPriority(t[j].m_feature)
    BY DEF Ascends
  <2>. QED BY <2>1, PriorityIsNat
<1>4. IsFiniteSet(DOMAIN fs) /\ Cardinality(R) = Cardinality(DOMAIN fs)
  <2>1. IsFiniteSet(DOMAIN fs)
    BY <1>1, FS_Interval
  <2>2. t \in Surjection(DOMAIN fs, R)
    BY <1>2 DEF Surjection
  <2>3. \A i, j \in DOMAIN fs : i # j => t[i] # t[j]
    <3> SUFFICES ASSUME NEW i \in DOMAIN fs, NEW j \in DOMAIN fs, i # j PROVE t[i] # t[j]
      OBVIOUS
    <3>1. CASE i < j
      BY <3>1, AscendsOnce
    <3>2. CASE j < i
      BY <3>2, AscendsOnce
    <3>. QED BY <1>1, <3>1, <3>2
  <2>4. t \in Injection(DOMAIN fs, R)
    BY <1>2, <2>3 DEF Injection, IsInjective
  <2>. QED BY <2>1, <2>2, <2>4, FS_Surjection
<1>5. \A s \in [DOMAIN fs -> R] : Sorted(s) => s = t
  <2> SUFFICES ASSUME NEW s \in [DOMAIN fs -> R], Sorted(s) PROVE s = t
    OBVIOUS
  <2>1. s \in Surjection(DOMAIN fs, R)
    BY DEF Surjection
  <2>2. s \in Injection(DOMAIN fs, R)
    BY <1>4, <2>1, FS_SurjSameCardinalityImpliesInj
  <2>3. \A i, j \in DOMAIN fs : i < j => s[i] # s[j]
    BY <1>1, <2>2 DEF Injection, IsInjective
  <2>4. \A x, y \in R : getPriority(x.m_feature) = getPriority(y.m_feature) => x = y
    <3> SUFFICES ASSUME NEW x \in R, NEW y \in R, getPriority(x.m_feature) = getPriority(y.m_feature), x # y
                 PROVE  FALSE
      OBVIOUS
    <3>1. PICK i \in DOMAIN t : t[i] = x
      OBVIOUS
    <3>2. PICK j \in DOMAIN t : t[j] = y
      OBVIOUS
    <3>3. CASE i < j
      BY <3>1, <3>2, <3>3, AscendsOnce
    <3>4. CASE j < i
      BY <3>1, <3>2, <3>4, AscendsOnce
    <3>. QED BY <1>1, <3>1, <3>2, <3>3, <3>4
  <2>5. Ascends(s)
    <3> SUFFICES ASSUME NEW i \in DOMAIN s, NEW j \in DOMAIN s, i < j
                 PROVE  getPriority(s[i].m_feature) < getPriority(s[j].m_feature)
      BY DEF Ascends
    <3>1. s[i] \in R /\ s[j] \in R /\ s[i] # s[j]
      BY <2>3
    <3>2. getPriority(s[i].m_feature) # getPriority(s[j].m_feature)
      BY <2>4, <3>1
    <3>3. getPriority(s[i].m_feature) <= getPriority(s[j].m_feature)
      OBVIOUS
    <3>. QED BY <3>2, <3>3, PriorityIsNat
  <2>6. s \in Seq(S)
    <3>1. R \subseteq S
      BY LenProperties
    <3>2. s \in [1..n -> S]
      BY <1>1, <3>1
    <3>3. s = [i \in 1..n |-> s[i]] /\ \A i \in 1..n : s[i] \in S
      BY <3>2
    <3>4. [i \in 1..n |-> s[i]] \in Seq(S)
      BY <1>1, <3>3, IsASeq
    <3>. QED BY <3>3, <3>4, Zenon
  <2>7. \A i \in DOMAIN s : \E j \in DOMAIN t : t[j] = s[i]
    OBVIOUS
  <2>8. \A i \in DOMAIN t : \E j \in DOMAIN s : s[j] = t[i]
    <3> SUFFICES ASSUME NEW i \in DOMAIN t PROVE \E j \in DOMAIN s : s[j] = t[i]
      OBVIOUS
    <3>1. PICK k \in DOMAIN fs : fs[k] = t[i]
      OBVIOUS
    <3>2. PICK j \in DOMAIN s : s[j] = fs[k]
      OBVIOUS
    <3>. QED BY <3>1, <3>2
  <2> HIDE DEF R, Sorted
  <2>. QED BY <2>5, <2>6, <2>7, <2>8, AscendingOnce
<1>6. SortedByPriority(fs) = CHOOSE s \in [DOMAIN fs -> R] : Sorted(s)
  BY Zenon DEF SortedByPriority
<1> HIDE DEF R, Sorted
<1>. QED BY <1>2, <1>3, <1>5, <1>6

(* Whatever has been edited, sorting finds the order again.                    *)
LEMMA SortArranges ==
  ASSUME NEW S, NEW fs \in Seq(S), Ascends(fs) \/ Descends(fs)
  PROVE  LET s == SortedByPriority(fs)
         IN  /\ s \in Seq(S) /\ DOMAIN s = DOMAIN fs /\ Ascends(s)
             /\ \A i \in DOMAIN fs : \E j \in DOMAIN s : s[j] = fs[i]
             /\ \A i \in DOMAIN s : \E j \in DOMAIN fs : fs[j] = s[i]
<1> DEFINE n == Len(fs)
           t == [i \in 1..n |-> fs[n + 1 - i]]
<1>1. DOMAIN fs = 1..n /\ n \in Nat /\ fs \in [1..n -> S]
  BY LenProperties
<1>2. CASE Ascends(fs)
  <2>1. SortedByPriority(fs) = fs
    BY <1>2, SortedIs
  <2>. QED BY <1>2, <2>1
<1>3. CASE Descends(fs)
  <2>1. \A i \in 1..n : n + 1 - i \in 1..n
    BY <1>1
  <2>2. t \in Seq(S) /\ DOMAIN t = DOMAIN fs
    <3>1. t \in [1..n -> S]
      BY <1>1, <2>1
    <3>. QED BY <1>1, <3>1, IsASeq
  <2>3. Ascends(t)
    <3> SUFFICES ASSUME NEW i \in 1..n, NEW j \in 1..n, i < j
                 PROVE  getPriority(t[i].m_feature) < getPriority(t[j].m_feature)
      BY DEF Ascends
    <3>1. n + 1 - i \in DOMAIN fs /\ n + 1 - j \in DOMAIN fs /\ n + 1 - j < n + 1 - i
      BY <1>1
    <3>2. t[i] = fs[n + 1 - i] /\ t[j] = fs[n + 1 - j]
      OBVIOUS
    <3> HIDE DEF t
    <3>. QED BY <1>3, <3>1, <3>2 DEF Descends
  <2>4. \A i \in DOMAIN fs : \E j \in DOMAIN t : t[j] = fs[i]
    <3> SUFFICES ASSUME NEW i \in DOMAIN fs PROVE \E j \in DOMAIN t : t[j] = fs[i]
      OBVIOUS
    <3>1. n + 1 - i \in 1..n /\ n + 1 - (n + 1 - i) = i
      BY <1>1
    <3>2. t[n + 1 - i] = fs[i]
      BY <3>1
    <3>. QED BY <3>1, <3>2
  <2>5. \A i \in DOMAIN t : \E j \in DOMAIN fs : fs[j] = t[i]
    BY <1>1, <2>1
  <2> HIDE DEF t
  <2>6. SortedByPriority(fs) = t
    BY <2>2, <2>3, <2>4, <2>5, SortedIs
  <2>. QED BY <2>2, <2>3, <2>4, <2>5, <2>6
<1>. QED BY <1>2, <1>3

-----------------------------------------------------------------------------
(* What is written and read. *)

Tree == [is : {"json", "text"}, content : Content]

(* A tree is written as it was read, and what an agent has said can be written. *)
LEMMA ReadAndWritten ==
  /\ \A t \in Tree : ReadData(t) \in FeatureData /\ WriteData(ReadData(t)) = t
  /\ \A d \in FeatureData : WriteData(d) \in Tree
BY DEF Tree, ReadData, WriteData, FeatureData

LEMMA DocumentFacts ==
  ASSUME NEW d, DocumentOK(d), NEW g \in DOMAIN d.groups
  PROVE  /\ g \in Group /\ d.of \in [Feature -> FeatureData]
         /\ d.groups[g].m_features \in Seq(Entry)
         /\ d.groups[g] = [m_features |-> d.groups[g].m_features,
                           m_data_integrity |-> d.groups[g].m_data_integrity]
         /\ \A i \in DOMAIN d.groups[g].m_features :
              /\ d.groups[g].m_features[i] \in Entry
              /\ d.groups[g].m_features[i].data \in Tree
              /\ d.groups[g].m_features[i].m_feature \in FeaturesOf(g)
<1>1. g \in Group /\ d.of \in [Feature -> FeatureData]
  BY DEF DocumentOK
<1>2. d.groups[g] \in [m_features : Seq(Entry), m_data_integrity : Seq(Entry)]
  BY DEF DocumentOK
<1>3. \A i \in DOMAIN d.groups[g].m_features : d.groups[g].m_features[i] \in Entry
  BY <1>2, LenProperties
<1>4. \A i \in DOMAIN d.groups[g].m_features : d.groups[g].m_features[i].m_feature \in FeaturesOf(g)
  BY DEF DocumentOK, Carries
<1>. QED BY <1>1, <1>2, <1>3, <1>4 DEF Entry, Tree

(* What the tool sends on is what is in the file.                              *)
LEMMA ForwardedIs ==
  ASSUME NEW d, DocumentOK(d)
  PROVE  Forwarded(d) = d
<1> DEFINE again(g) == [d.groups[g] EXCEPT !.m_features = WriteFeatures(ReadFeatures(@))]
<1>1. \A g \in DOMAIN d.groups : again(g) = d.groups[g]
  <2> SUFFICES ASSUME NEW g \in DOMAIN d.groups PROVE again(g) = d.groups[g]
    OBVIOUS
  <2> DEFINE ts == d.groups[g].m_features
  <2>1. ts \in Seq(Entry) /\ \A i \in DOMAIN ts : ts[i] \in Entry /\ ts[i].data \in Tree
    BY DocumentFacts
  <2>2. WriteFeatures(ReadFeatures(ts)) = [i \in DOMAIN ts |-> ts[i]]
    BY <2>1, ReadAndWritten DEF WriteFeatures, ReadFeatures, Entry
  <2>3. [i \in DOMAIN ts |-> ts[i]] = ts
    BY <2>1, LenProperties
  <2>4. WriteFeatures(ReadFeatures(ts)) = ts
    BY <2>2, <2>3
  <2>5. d.groups[g] = [m_features |-> ts, m_data_integrity |-> d.groups[g].m_data_integrity]
    BY DocumentFacts
  <2> HIDE DEF ts
  <2>6. again(g) = [d.groups[g] EXCEPT !.m_features = ts]
    BY <2>4 DEF ts
  <2>. QED BY <2>5, <2>6
<1>2. [g \in DOMAIN d.groups |-> again(g)] = d.groups
  <2>1. d.groups = [g \in DOMAIN d.groups |-> d.groups[g]]
    BY DEF DocumentOK
  <2> HIDE DEF again
  <2>. QED BY <1>1, <2>1
<1>3. Forwarded(d) = [d EXCEPT !.groups = [g \in DOMAIN d.groups |-> again(g)]]
  BY DEF Forwarded
<1>4. d = [kind |-> d.kind, version |-> d.version, checksum |-> d.checksum, groups |-> d.groups, of |-> d.of]
  BY DEF DocumentOK
<1> HIDE DEF again
<1>. QED BY <1>2, <1>3, <1>4

(* What a group had in it when it was saved.                                   *)
LEMMA SavedAsIs ==
  ASSUME NEW c \in [Feature -> FeatureData], NEW g \in Group
  PROVE  /\ SavedAs(c, g) \in Seq(Entry) /\ Ascends(SavedAs(c, g))
         /\ {SavedAs(c, g)[i] : i \in DOMAIN SavedAs(c, g)}
              = {[m_feature |-> f, data |-> WriteData(c[f])] : f \in FeaturesOf(g)}
<1> DEFINE n == Len(m_fp[g])
           fp(i) == m_fp[g][i].m_feature
           e(i) == [m_feature |-> fp(i), data |-> WriteData(c[fp(i)])]
<1>1. DOMAIN m_fp[g] = 1..n /\ n \in Nat /\ \A i \in 1..n : fp(i) \in Feature
  BY TableEntries
<1>2. \A i \in 1..n : e(i) \in Entry
  BY <1>1, ReadAndWritten DEF Entry, Tree
<1>3. SavedAs(c, g) = [i \in 1..n |-> e(i)]
  BY <1>1 DEF SavedAs
<1>4. SavedAs(c, g) \in Seq(Entry)
  <2> HIDE DEF e, n
  <2>. QED BY <1>1, <1>2, <1>3, IsASeq
<1>5. Ascends(SavedAs(c, g))
  BY <1>1, <1>3, TablesAscend
<1>6. {SavedAs(c, g)[i] : i \in DOMAIN SavedAs(c, g)} = {e(i) : i \in 1..n}
  <2>1. DOMAIN SavedAs(c, g) = 1..n /\ \A i \in 1..n : SavedAs(c, g)[i] = e(i)
    BY <1>3
  <2> HIDE DEF e, n
  <2>. QED BY <2>1
<1>7. {e(i) : i \in 1..n} = {[m_feature |-> f, data |-> WriteData(c[f])] : f \in FeaturesOf(g)}
  BY <1>1 DEF FeaturesOf
<1>. QED BY <1>4, <1>5, <1>6, <1>7

(* The digest of a group stands for what is said in it, in whatever order.     *)
LEMMA DigestTells ==
  ASSUME NEW d, DocumentOK(d), NEW g \in DOMAIN d.groups
  PROVE  checkDataIntegrity(d.groups[g]) <=> g \notin Changed(d)
<1> DEFINE ts == d.groups[g].m_features
           rs == ReadFeatures(ts)
           R == [m_feature : Feature, data : FeatureData]
           s == SortedByPriority(rs)
           w == WriteFeatures(s)
           saved == SavedAs(d.of, g)
<1>1. /\ g \in Group /\ d.of \in [Feature -> FeatureData] /\ ts \in Seq(Entry)
      /\ \A i \in DOMAIN ts : ts[i] \in Entry /\ ts[i].data \in Tree
      /\ DOMAIN ts = 1..Len(ts) /\ Len(ts) \in Nat
  BY DocumentFacts, LenProperties
<1>2. \A i \in DOMAIN ts : /\ rs[i] \in R /\ rs[i].m_feature = ts[i].m_feature
                           /\ WriteData(rs[i].data) = ts[i].data
  BY <1>1, ReadAndWritten DEF ReadFeatures, Entry
<1>3. rs \in Seq(R) /\ DOMAIN rs = DOMAIN ts
  <2> DEFINE e(i) == [m_feature |-> ts[i].m_feature, data |-> ReadData(ts[i].data)]
  <2>1. rs = [i \in 1..Len(ts) |-> e(i)] /\ \A i \in 1..Len(ts) : e(i) \in R
    BY <1>1, ReadAndWritten DEF ReadFeatures, Entry
  <2> HIDE DEF e, rs, R
  <2>. QED BY <1>1, <2>1, IsASeq
<1>4. Ascends(rs) \/ Descends(rs)
  <2>1. Ascends(ts) \/ Descends(ts)
    BY DEF DocumentOK
  <2> HIDE DEF rs, ts
  <2>. QED BY <1>2, <1>3, <2>1 DEF Ascends, Descends
<1>5. /\ s \in Seq(R) /\ DOMAIN s = DOMAIN rs /\ Ascends(s)
      /\ \A i \in DOMAIN rs : \E j \in DOMAIN s : s[j] = rs[i]
      /\ \A i \in DOMAIN s : \E j \in DOMAIN rs : rs[j] = s[i]
  <2> HIDE DEF rs, R
  <2>. QED BY <1>3, <1>4, SortArranges
<1>6. \A i \in DOMAIN s : w[i] = [m_feature |-> s[i].m_feature, data |-> WriteData(s[i].data)]
  BY DEF WriteFeatures
<1>7. DOMAIN w = DOMAIN ts
  BY <1>3, <1>5 DEF WriteFeatures
<1>8. \A i \in DOMAIN ts : \E j \in DOMAIN w : w[j] = ts[i]
  <2> SUFFICES ASSUME NEW i \in DOMAIN ts PROVE \E j \in DOMAIN w : w[j] = ts[i]
    OBVIOUS
  <2>1. PICK j \in DOMAIN s : s[j] = rs[i]
    BY <1>3, <1>5
  <2>2. w[j] = [m_feature |-> ts[i].m_feature, data |-> ts[i].data]
    BY <1>2, <1>6, <2>1
  <2>3. j \in DOMAIN w /\ w[j] = ts[i]
    BY <1>1, <1>3, <1>5, <1>7, <2>2 DEF Entry
  <2>. QED BY <2>3
<1>9. \A i \in DOMAIN w : \E j \in DOMAIN ts : ts[j] = w[i]
  <2> SUFFICES ASSUME NEW i \in DOMAIN w PROVE \E j \in DOMAIN ts : ts[j] = w[i]
    OBVIOUS
  <2>1. PICK j \in DOMAIN rs : rs[j] = s[i]
    BY <1>3, <1>5, <1>7
  <2>2. w[i] = [m_feature |-> ts[j].m_feature, data |-> ts[j].data]
    <3>1. i \in DOMAIN s /\ j \in DOMAIN ts
      BY <1>3, <1>5, <1>7
    <3>2. w[i] = [m_feature |-> rs[j].m_feature, data |-> WriteData(rs[j].data)]
      BY <1>6, <2>1, <3>1
    <3> HIDE DEF w, rs, ts
    <3>. QED BY <1>2, <3>1, <3>2
  <2>3. j \in DOMAIN ts /\ w[i] = ts[j]
    BY <1>1, <1>3, <2>2 DEF Entry
  <2>. QED BY <2>3
<1>10. w \in Seq(Entry) /\ Ascends(w)
  <2> DEFINE e(i) == [m_feature |-> s[i].m_feature, data |-> WriteData(s[i].data)]
  <2>1. w = [i \in 1..Len(ts) |-> e(i)]
    BY <1>1, <1>3, <1>5 DEF WriteFeatures
  <2>2. \A i \in 1..Len(ts) : e(i) \in Entry
    <3> SUFFICES ASSUME NEW i \in 1..Len(ts) PROVE e(i) \in Entry
      OBVIOUS
    <3>1. i \in DOMAIN w /\ i \in DOMAIN s
      BY <1>1, <1>3, <1>5, <1>7
    <3>2. PICK j \in DOMAIN ts : ts[j] = w[i]
      BY <1>9, <3>1
    <3>3. w[i] = e(i)
      BY <1>6, <3>1
    <3> HIDE DEF e, w, ts
    <3>. QED BY <1>1, <3>2, <3>3
  <2>3. w \in Seq(Entry)
    <3> HIDE DEF e, w
    <3>. QED BY <1>1, <2>1, <2>2, IsASeq
  <2>4. \A i \in DOMAIN w : w[i].m_feature = s[i].m_feature
    <3> SUFFICES ASSUME NEW i \in DOMAIN w PROVE w[i].m_feature = s[i].m_feature
      OBVIOUS
    <3>1. w[i] = [m_feature |-> s[i].m_feature, data |-> WriteData(s[i].data)]
      BY <1>3, <1>5, <1>6, <1>7
    <3> HIDE DEF w, s
    <3>. QED BY <3>1
  <2>5. DOMAIN w = DOMAIN s
    BY <1>3, <1>5, <1>7
  <2> HIDE DEF w, s
  <2>6. Ascends(w)
    BY <1>5, <2>4, <2>5 DEF Ascends
  <2>. QED BY <2>3, <2>6
<1>11. /\ saved \in Seq(Entry) /\ Ascends(saved)
       /\ {saved[i] : i \in DOMAIN saved}
            = {[m_feature |-> f, data |-> WriteData(d.of[f])] : f \in FeaturesOf(g)}
  BY <1>1, SavedAsIs
<1>12. checkDataIntegrity(d.groups[g]) <=> w = saved
  <2>1. d.groups[g].m_data_integrity = saved
    BY DEF DocumentOK
  <2>. QED BY <2>1 DEF checkDataIntegrity, Digest
<1>13. g \in Changed(d) <=> {ts[i] : i \in DOMAIN ts} # {saved[i] : i \in DOMAIN saved}
  BY <1>11 DEF Changed
<1>14. {w[i] : i \in DOMAIN w} = {ts[i] : i \in DOMAIN ts}
  <2> HIDE DEF w, ts
  <2>. QED BY <1>8, <1>9
<1> HIDE DEF w, ts, saved
<1>15. ASSUME {ts[i] : i \in DOMAIN ts} = {saved[i] : i \in DOMAIN saved}
       PROVE  w = saved
  <2>1. \A i \in DOMAIN w : \E j \in DOMAIN saved : saved[j] = w[i]
    BY <1>14, <1>15
  <2>2. \A i \in DOMAIN saved : \E j \in DOMAIN w : w[j] = saved[i]
    BY <1>14, <1>15
  <2>. QED BY <1>10, <1>11, <2>1, <2>2, AscendingOnce
<1>. QED BY <1>12, <1>13, <1>14, <1>15

-----------------------------------------------------------------------------
(* The documents that come about. *)

LEMMA EmptyDocument ==
  ASSUME NEW kind \in {"empty", "mixed", "foreign", "payload"}
  PROVE  DocumentOK(Document(kind)) /\ Document(kind).kind = kind /\ DOMAIN Document(kind).groups = {}
<1> DEFINE d == Document(kind)
           none == [f \in {} |-> {}]
<1>1. /\ d = [kind |-> kind, version |-> "2.1", checksum |-> "", groups |-> NoGroups, of |-> none]
      /\ DOMAIN NoGroups = {} /\ NoGroups = [g \in DOMAIN NoGroups |-> {}]
  BY DEF Document, NoGroups
<1> HIDE DEF NoGroups, none, d
<1>2. /\ d.kind = kind /\ d.version = "2.1" /\ d.checksum = "" /\ d.groups = NoGroups /\ d.of = none
      /\ d = [kind |-> d.kind, version |-> d.version, checksum |-> d.checksum,
              groups |-> d.groups, of |-> d.of]
  BY <1>1
<1>3. d.groups \in [DOMAIN d.groups -> [m_features : Seq(Entry), m_data_integrity : Seq(Entry)]]
  BY <1>1, <1>2
<1>4. DocumentOK(d)
  BY <1>1, <1>2, <1>3 DEF DocumentOK
<1>. QED BY <1>1, <1>2, <1>4 DEF d

LEMMA MixedDocument ==
  ASSUME NEW d, DocumentOK(d)
  PROVE  /\ DocumentOK([d EXCEPT !.kind = "mixed"]) /\ [d EXCEPT !.kind = "mixed"].kind = "mixed"
         /\ DocumentOK([d EXCEPT !.version = "3.0"])
BY DEF DocumentOK, Carries

LEMMA FeaturesReplaced ==
  ASSUME NEW d, DocumentOK(d), NEW g \in DOMAIN d.groups, NEW ts \in Seq(Entry),
         Ascends(ts) \/ Descends(ts),
         \A i \in DOMAIN ts : ts[i].m_feature \in FeaturesOf(g)
  PROVE  DocumentOK([d EXCEPT !.groups[g].m_features = ts])
<1> DEFINE new == [d EXCEPT !.groups[g].m_features = ts]
           gs == [d.groups EXCEPT ![g].m_features = ts]
<1>1. new = [kind |-> d.kind, version |-> d.version, checksum |-> d.checksum, groups |-> gs, of |-> d.of]
  <2>1. new = [d EXCEPT !.groups = gs]
    OBVIOUS
  <2>2. d = [kind |-> d.kind, version |-> d.version, checksum |-> d.checksum, groups |-> d.groups, of |-> d.of]
    BY DEF DocumentOK
  <2> HIDE DEF gs, new
  <2>. QED BY <2>1, <2>2
<1>2. /\ DOMAIN gs = DOMAIN d.groups
      /\ \A h \in DOMAIN gs : h # g => gs[h] = d.groups[h]
  BY DEF DocumentOK
<1>3. gs[g] = [m_features |-> ts, m_data_integrity |-> d.groups[g].m_data_integrity]
  BY DocumentFacts DEF DocumentOK
<1>4. gs = [h \in DOMAIN gs |-> gs[h]]
  OBVIOUS
<1>5. /\ d \in [kind : {"empty", "mixed", "foreign", "payload"}, version : {"2.1", "3.0"},
               checksum : Passphrase \cup {""}, groups : {d.groups}, of : {d.of}]
      /\ DOMAIN d.groups \subseteq Group
      /\ DOMAIN d.groups # {} => d.of \in [Feature -> FeatureData]
      /\ \A h \in DOMAIN d.groups :
           /\ d.groups[h] \in [m_features : Seq(Entry), m_data_integrity : Seq(Entry)]
           /\ \A i \in DOMAIN d.groups[h].m_features : d.groups[h].m_features[i].m_feature \in FeaturesOf(h)
           /\ Ascends(d.groups[h].m_features) \/ Descends(d.groups[h].m_features)
           /\ d.groups[h].m_data_integrity = SavedAs(d.of, h)
  BY DEF DocumentOK, Carries
<1> HIDE DEF gs
<1>6. \A h \in DOMAIN gs :
        /\ gs[h] \in [m_features : Seq(Entry), m_data_integrity : Seq(Entry)]
        /\ \A i \in DOMAIN gs[h].m_features : gs[h].m_features[i].m_feature \in FeaturesOf(h)
        /\ Ascends(gs[h].m_features) \/ Descends(gs[h].m_features)
        /\ gs[h].m_data_integrity = SavedAs(d.of, h)
  <2> SUFFICES ASSUME NEW h \in DOMAIN gs
               PROVE  /\ gs[h] \in [m_features : Seq(Entry), m_data_integrity : Seq(Entry)]
                      /\ \A i \in DOMAIN gs[h].m_features : gs[h].m_features[i].m_feature \in FeaturesOf(h)
                      /\ Ascends(gs[h].m_features) \/ Descends(gs[h].m_features)
                      /\ gs[h].m_data_integrity = SavedAs(d.of, h)
    OBVIOUS
  <2>1. CASE h # g
    BY <1>2, <1>5, <2>1
  <2>2. CASE h = g
    <3>1. d.groups[g].m_data_integrity \in Seq(Entry) /\ d.groups[g].m_data_integrity = SavedAs(d.of, g)
      BY <1>5
    <3>2. gs[g].m_features = ts /\ gs[g].m_data_integrity = d.groups[g].m_data_integrity
      BY <1>3
    <3>. QED BY <1>3, <2>2, <3>1, <3>2
  <2>. QED BY <2>1, <2>2
<1>7. /\ new.kind = d.kind /\ new.version = d.version /\ new.checksum = d.checksum
      /\ new.groups = gs /\ new.of = d.of
      /\ new = [kind |-> new.kind, version |-> new.version, checksum |-> new.checksum,
                groups |-> new.groups, of |-> new.of]
  BY <1>1
<1> HIDE DEF new
<1>8. gs \in [DOMAIN gs -> [m_features : Seq(Entry), m_data_integrity : Seq(Entry)]]
  BY <1>4, <1>6
<1>9. \A h \in DOMAIN new.groups : Carries(new, h) \subseteq FeaturesOf(h)
  BY <1>6, <1>7 DEF Carries
<1>10. DOMAIN new.groups = DOMAIN d.groups
  BY <1>2, <1>7
<1>11. DocumentOK(new)
  BY <1>5, <1>6, <1>7, <1>8, <1>9, <1>10 DEF DocumentOK
<1>. QED BY <1>11 DEF new

(* A save puts the features in order and takes the digest of them.             *)
LEMMA ResponseOfSave ==
  ASSUME option \in Options, device \in [Feature -> FeatureData], NEW asked, NEW failed
  PROVE  LET d == SaveResponse(asked, failed)
         IN  DocumentOK(d) /\ d.kind = "payload" /\ DOMAIN d.groups = (asked \cap Group) \ failed
<1> DEFINE G == (asked \cap Group) \ failed
           gs == [g \in G |-> evalDataIntegrity(FeatureList(g))]
           d == SaveResponse(asked, failed)
<1>1. d = [kind |-> "payload", version |-> "2.1", checksum |-> option.passphrase, groups |-> gs,
           of |-> device]
  <2>1. d = [Document("payload") EXCEPT !.checksum = option.passphrase, !.of = device, !.groups = gs]
    BY DEF SaveResponse
  <2> HIDE DEF gs, d
  <2>. QED BY <2>1 DEF Document
<1>2. option.passphrase \in Passphrase
  BY CommandAssumption
<1>3. \A g \in G : /\ gs[g] = [m_features |-> SavedAs(device, g), m_data_integrity |-> SavedAs(device, g)]
  <2> SUFFICES ASSUME NEW g \in G
               PROVE  evalDataIntegrity(FeatureList(g))
                        = [m_features |-> SavedAs(device, g), m_data_integrity |-> SavedAs(device, g)]
    OBVIOUS
  <2> DEFINE fs == FeatureList(g)
             n == Len(m_fp[g])
             e(i) == [m_feature |-> m_fp[g][i].m_feature, data |-> device[m_fp[g][i].m_feature]]
             S == [m_feature : Feature, data : FeatureData]
  <2>1. /\ fs = [i \in 1..n |-> e(i)] /\ n \in Nat /\ DOMAIN m_fp[g] = 1..n
        /\ \A i \in 1..n : e(i) \in S
    BY TableEntries DEF FeatureList
  <2>2. fs \in Seq(S)
    <3> HIDE DEF e, n, fs, S
    <3>. QED BY <2>1, IsASeq
  <2>3. Ascends(fs)
    BY <2>1, TablesAscend
  <2>4. SortedByPriority(fs) = fs
    <3> HIDE DEF fs, S
    <3>. QED BY <2>2, <2>3, SortedIs
  <2>5. WriteFeatures(fs) = SavedAs(device, g)
    <3> DEFINE w(i) == [m_feature |-> fs[i].m_feature, data |-> WriteData(fs[i].data)]
               v(i) == [m_feature |-> m_fp[g][i].m_feature, data |-> WriteData(device[m_fp[g][i].m_feature])]
    <3>1. \A i \in 1..n : w(i) = v(i)
      BY <2>1
    <3>2. WriteFeatures(fs) = [i \in 1..n |-> w(i)]
      BY <2>1 DEF WriteFeatures
    <3>3. SavedAs(device, g) = [i \in 1..n |-> v(i)]
      BY <2>1 DEF SavedAs
    <3> HIDE DEF w, v, n, fs
    <3>. QED BY <3>1, <3>2, <3>3
  <2>. QED BY <2>4, <2>5 DEF evalDataIntegrity, Digest
<1>4. \A g \in G : /\ SavedAs(device, g) \in Seq(Entry) /\ Ascends(SavedAs(device, g))
                   /\ \A i \in DOMAIN SavedAs(device, g) : SavedAs(device, g)[i].m_feature \in FeaturesOf(g)
  <2> SUFFICES ASSUME NEW g \in G
               PROVE  /\ SavedAs(device, g) \in Seq(Entry) /\ Ascends(SavedAs(device, g))
                      /\ \A i \in DOMAIN SavedAs(device, g) :
                           SavedAs(device, g)[i].m_feature \in FeaturesOf(g)
    OBVIOUS
  <2>. QED BY SavedAsIs DEF SavedAs, FeaturesOf
<1>5. /\ d.kind = "payload" /\ d.version = "2.1" /\ d.checksum = option.passphrase
      /\ d.groups = gs /\ d.of = device
      /\ d = [kind |-> d.kind, version |-> d.version, checksum |-> d.checksum,
              groups |-> d.groups, of |-> d.of]
  BY <1>1
<1>6. DOMAIN gs = G /\ gs = [g \in G |-> gs[g]]
  OBVIOUS
<1> HIDE DEF d, gs
<1>7. gs \in [DOMAIN gs -> [m_features : Seq(Entry), m_data_integrity : Seq(Entry)]]
  BY <1>3, <1>4, <1>6
<1>8. \A g \in DOMAIN d.groups :
        /\ Carries(d, g) \subseteq FeaturesOf(g)
        /\ Ascends(d.groups[g].m_features)
        /\ d.groups[g].m_data_integrity = SavedAs(d.of, g)
  BY <1>3, <1>4, <1>5, <1>6 DEF Carries
<1>9. DocumentOK(d)
  BY <1>2, <1>5, <1>6, <1>7, <1>8 DEF DocumentOK
<1>. QED BY <1>5, <1>6, <1>9 DEF d

(* Edits leave the order of a group a straight one, up or down.                *)
LEMMA EditedDocument ==
  ASSUME doc \in [Place -> {doc[p] : p \in Place}], DocumentOK(doc["file"]), Edit
  PROVE  \E d : DocumentOK(d) /\ EditFile(d)
<1> DEFINE old == doc["file"]
<1>1. ASSUME NEW g \in DOMAIN old.groups, NEW i \in DOMAIN old.groups[g].m_features,
             NEW c \in Content \ {old.groups[g].m_features[i].data.content},
             EditFile([old EXCEPT !.groups[g].m_features = [old.groups[g].m_features EXCEPT ![i].data.content = c]])
      PROVE  \E d : DocumentOK(d) /\ EditFile(d)
  <2> DEFINE fs == old.groups[g].m_features
             ts == [fs EXCEPT ![i].data.content = c]
  <2>1. /\ fs \in Seq(Entry) /\ DOMAIN fs = 1..Len(fs) /\ Len(fs) \in Nat
        /\ \A j \in DOMAIN fs : fs[j] \in Entry /\ fs[j].m_feature \in FeaturesOf(g)
    BY DocumentFacts, LenProperties
  <2>2. \A j \in DOMAIN fs : ts[j] \in Entry /\ ts[j].m_feature = fs[j].m_feature
    <3>1. ts[i] = [fs[i] EXCEPT !.data.content = c]
      <4>1. i \in DOMAIN fs
        OBVIOUS
      <4> HIDE DEF fs
      <4>. QED BY <4>1
    <3>2. \A j \in DOMAIN fs : j # i => ts[j] = fs[j]
      BY <2>1
    <3>3. [fs[i] EXCEPT !.data.content = c]
            = [m_feature |-> fs[i].m_feature, data |-> [is |-> fs[i].data.is, content |-> c]]
      <4>1. fs[i] \in Entry
        BY <2>1
      <4> HIDE DEF fs
      <4>2. /\ fs[i] = [m_feature |-> fs[i].m_feature, data |-> fs[i].data]
            /\ fs[i].data = [is |-> fs[i].data.is, content |-> fs[i].data.content]
        BY <4>1 DEF Entry
      <4>. QED BY <4>2
    <3> HIDE DEF ts, fs
    <3>. QED BY <2>1, <3>1, <3>2, <3>3 DEF Entry
  <2>3. ts = [j \in 1..Len(fs) |-> ts[j]]
    BY <2>1
  <2>4. Ascends(fs) \/ Descends(fs)
    BY DEF DocumentOK
  <2> HIDE DEF ts, fs
  <2>5. ts \in Seq(Entry)
    <3>1. [j \in 1..Len(fs) |-> ts[j]] \in Seq(Entry)
      BY <2>1, <2>2, IsASeq
    <3>. QED BY <2>3, <3>1, Zenon
  <2>6. DOMAIN ts = DOMAIN fs
    BY <2>1, <2>3
  <2>7. Ascends(ts) \/ Descends(ts)
    BY <2>2, <2>4, <2>6 DEF Ascends, Descends
  <2>8. DocumentOK([old EXCEPT !.groups[g].m_features = ts])
    BY <2>1, <2>2, <2>5, <2>6, <2>7, FeaturesReplaced DEF fs
  <2>. QED BY <1>1, <2>8 DEF ts, fs
<1>2. ASSUME NEW g \in DOMAIN old.groups, old.groups[g].m_features # <<>>,
             EditFile([old EXCEPT !.groups[g].m_features = Tail(old.groups[g].m_features)])
      PROVE  \E d : DocumentOK(d) /\ EditFile(d)
  <2> DEFINE fs == old.groups[g].m_features
             ts == Tail(fs)
  <2>1. /\ fs \in Seq(Entry) /\ DOMAIN fs = 1..Len(fs) /\ Len(fs) \in Nat /\ fs # <<>>
        /\ \A j \in DOMAIN fs : fs[j].m_feature \in FeaturesOf(g)
    BY <1>2, DocumentFacts, LenProperties
  <2>2. Ascends(fs) \/ Descends(fs)
    BY DEF DocumentOK
  <2>3. ts \in Seq(Entry) /\ \A j \in DOMAIN ts : j + 1 \in DOMAIN fs /\ ts[j] = fs[j + 1] /\ j \in Nat
    <3> HIDE DEF fs
    <3>. QED BY <2>1, HeadTailProperties
  <2> HIDE DEF ts, fs
  <2>4. Ascends(ts) \/ Descends(ts)
    <3>1. \A i, j \in DOMAIN ts : i < j => i + 1 < j + 1
      BY <2>3
    <3>2. Ascends(fs) => Ascends(ts)
      BY <2>3, <3>1 DEF Ascends
    <3>3. Descends(fs) => Descends(ts)
      BY <2>3, <3>1 DEF Descends
    <3>. QED BY <2>2, <3>2, <3>3
  <2>5. \A j \in DOMAIN ts : ts[j].m_feature \in FeaturesOf(g)
    BY <2>1, <2>3
  <2>6. DocumentOK([old EXCEPT !.groups[g].m_features = ts])
    BY <2>3, <2>4, <2>5, FeaturesReplaced
  <2>. QED BY <1>2, <2>6 DEF ts, fs
<1>3. ASSUME NEW g \in DOMAIN old.groups,
             EditFile([old EXCEPT !.groups[g].m_features =
               [i \in DOMAIN old.groups[g].m_features |->
                  old.groups[g].m_features[Len(old.groups[g].m_features) + 1 - i]]])
      PROVE  \E d : DocumentOK(d) /\ EditFile(d)
  <2> DEFINE fs == old.groups[g].m_features
             n == Len(fs)
             ts == [i \in DOMAIN fs |-> fs[n + 1 - i]]
  <2>1. /\ fs \in Seq(Entry) /\ DOMAIN fs = 1..n /\ n \in Nat
        /\ \A j \in DOMAIN fs : fs[j] \in Entry /\ fs[j].m_feature \in FeaturesOf(g)
    BY DocumentFacts, LenProperties
  <2>2. Ascends(fs) \/ Descends(fs)
    BY DEF DocumentOK
  <2> HIDE DEF fs, n
  <2>3. \A i \in 1..n : n + 1 - i \in DOMAIN fs /\ ts[i] = fs[n + 1 - i]
    BY <2>1
  <2>4. ts \in Seq(Entry) /\ DOMAIN ts = 1..n
    <3>1. [i \in 1..n |-> fs[n + 1 - i]] \in Seq(Entry)
      BY <2>1, <2>3, IsASeq
    <3>. QED BY <2>1, <3>1
  <2> HIDE DEF ts
  <2>5. Ascends(fs) => Descends(ts)
    <3> SUFFICES ASSUME Ascends(fs), NEW i \in DOMAIN ts, NEW j \in DOMAIN ts, i < j
                 PROVE  getPriority(ts[j].m_feature) < getPriority(ts[i].m_feature)
      BY DEF Descends
    <3>1. n + 1 - j < n + 1 - i
      BY <2>1, <2>4
    <3>. QED BY <2>3, <2>4, <3>1 DEF Ascends
  <2>6. Descends(fs) => Ascends(ts)
    <3> SUFFICES ASSUME Descends(fs), NEW i \in DOMAIN ts, NEW j \in DOMAIN ts, i < j
                 PROVE  getPriority(ts[i].m_feature) < getPriority(ts[j].m_feature)
      BY DEF Ascends
    <3>1. n + 1 - j < n + 1 - i
      BY <2>1, <2>4
    <3>. QED BY <2>3, <2>4, <3>1 DEF Descends
  <2>7. DocumentOK([old EXCEPT !.groups[g].m_features = ts])
    BY <2>1, <2>2, <2>3, <2>4, <2>5, <2>6, FeaturesReplaced
  <2>. QED BY <1>3, <2>7 DEF ts, fs, n
<1>4. CASE old.kind = "payload" /\ EditFile([old EXCEPT !.version = "3.0"])
  BY <1>4, MixedDocument
<1>5. CASE \E kind \in {"mixed", "foreign"} : EditFile(Document(kind))
  BY <1>5, EmptyDocument
<1>. QED BY <1>1, <1>2, <1>3, <1>4, <1>5, Zenon DEF Edit

-----------------------------------------------------------------------------
(* What a restore makes of a document. *)

LEMMA DataForIs ==
  ASSUME NEW d, DocumentOK(d), NEW g \in DOMAIN d.groups, NEW f \in Carries(d, g)
  PROVE  \E i \in DOMAIN d.groups[g].m_features :
           /\ d.groups[g].m_features[i].m_feature = f
           /\ DataFor(d, g, f) = ReadData(d.groups[g].m_features[i].data)
<1> DEFINE ts == d.groups[g].m_features
           rs == ReadFeatures(ts)
           i == CHOOSE j \in DOMAIN rs : rs[j].m_feature = f
<1>1. /\ DOMAIN rs = DOMAIN ts
      /\ \A j \in DOMAIN ts : rs[j] = [m_feature |-> ts[j].m_feature, data |-> ReadData(ts[j].data)]
  BY DEF ReadFeatures
<1>2. \E j \in DOMAIN ts : ts[j].m_feature = f
  BY DEF Carries
<1>3. i \in DOMAIN rs /\ rs[i].m_feature = f
  <2>1. \E j \in DOMAIN rs : rs[j].m_feature = f
    <3>1. PICK j \in DOMAIN ts : ts[j].m_feature = f
      BY <1>2
    <3>2. j \in DOMAIN rs /\ rs[j] = [m_feature |-> f, data |-> ReadData(ts[j].data)]
      BY <1>1, <3>1
    <3> HIDE DEF rs, ts
    <3>3. rs[j].m_feature = f
      BY <3>2
    <3>. QED BY <3>2, <3>3
  <2> HIDE DEF rs
  <2>. QED BY <2>1
<1>4. DataFor(d, g, f) = rs[i].data
  BY DEF DataFor
<1>5. i \in DOMAIN ts /\ ts[i].m_feature = f /\ DataFor(d, g, f) = ReadData(ts[i].data)
  <2> HIDE DEF rs, i, ts
  <2>. QED BY <1>1, <1>3, <1>4
<1> HIDE DEF i
<1>. QED BY <1>5

(* What an agent gets of a payload it can read, and of a group nobody has        *)
(* changed it gets what was saved.                                            *)
LEMMA DataForGood ==
  ASSUME NEW d, DocumentOK(d), NEW g \in DOMAIN d.groups, NEW f \in Carries(d, g)
  PROVE  DataFor(d, g, f) \in FeatureData /\ f \in FeaturesOf(g) /\ f \in Feature
<1>1. PICK i \in DOMAIN d.groups[g].m_features :
        DataFor(d, g, f) = ReadData(d.groups[g].m_features[i].data)
  BY DataForIs
<1>2. d.groups[g].m_features[i].data \in Tree /\ g \in Group
  BY DocumentFacts
<1>3. f \in FeaturesOf(g)
  BY DEF DocumentOK
<1>. QED BY <1>1, <1>2, <1>3, ReadAndWritten, FeaturesOfGroups

LEMMA UnchangedData ==
  ASSUME NEW d, DocumentOK(d), NEW g \in DOMAIN d.groups \ Changed(d), NEW f \in FeaturesOf(g)
  PROVE  f \in Carries(d, g) /\ DataFor(d, g, f) = Respelled(d.of[f])
<1>1. {d.groups[g].m_features[i] : i \in DOMAIN d.groups[g].m_features}
        = {[m_feature |-> e, data |-> WriteData(d.of[e])] : e \in FeaturesOf(g)}
  BY DEF Changed
<1>2. f \in Carries(d, g)
  <2>1. PICK i \in DOMAIN d.groups[g].m_features :
          d.groups[g].m_features[i] = [m_feature |-> f, data |-> WriteData(d.of[f])]
    BY <1>1
  <2>. QED BY <2>1 DEF Carries
<1>3. PICK i \in DOMAIN d.groups[g].m_features :
        /\ d.groups[g].m_features[i].m_feature = f
        /\ DataFor(d, g, f) = ReadData(d.groups[g].m_features[i].data)
  BY <1>2, DataForIs
<1>4. PICK e \in FeaturesOf(g) : d.groups[g].m_features[i] = [m_feature |-> e, data |-> WriteData(d.of[e])]
  BY <1>1
<1>5. d.groups[g].m_features[i].data = WriteData(d.of[f])
  BY <1>3, <1>4
<1>. QED BY <1>2, <1>3, <1>5 DEF Respelled

LEMMA RefusalIs ==
  ASSUME NEW d, DocumentOK(d)
  PROVE  /\ Refusal(d) \in {"none", "FAILED", "UNKNOWN"}
         /\ Refusal(d) = "none" /\ ~option.force => Changed(d) = {}
         /\ Changed(d) = {} => Refusal(d) # "UNKNOWN"
<1>1. Changed(d) = {} <=> \A g \in DOMAIN d.groups : checkDataIntegrity(d.groups[g])
  <2>1. \A g \in DOMAIN d.groups : checkDataIntegrity(d.groups[g]) <=> g \notin Changed(d)
    BY DigestTells
  <2>2. Changed(d) \subseteq DOMAIN d.groups
    BY DEF Changed
  <2>. QED BY <2>1, <2>2
<1>. QED BY <1>1 DEF Refusal

-----------------------------------------------------------------------------
(* The invariant, part by part. *)

DocsOK == doc \in [Place -> {doc[p] : p \in Place}] /\ \A p \in Place : DocumentOK(doc[p])

OwedToUser == RestoredAsSaved /\ IntactAccepted /\ EditedKeptOut /\ NoSilentLoss /\ IncompleteIsTold

(* The types but for those of the documents and the jobs.                      *)
RunTypes ==
  /\ tool \in {"idle", "listing", "saving", "reading", "restoring", "done"}
  /\ option \in Options /\ groupList \subseteq Group \cup StrayGroup
  /\ shown \in [status : {"none", "SUCCESS", "PARTIAL_SUCCESS", "FAILED", "UNKNOWN"}, error : BOOLEAN]
  /\ exit \in {"none", "success", "failure", "aborted"}
  /\ device \in [Feature -> FeatureData] /\ before \in [Feature -> FeatureData]
  /\ alone \in BOOLEAN /\ turns \in 0..MaxTurns

LEMMA JobTypes ==
  ASSUME NEW j, JobOK(j)
  PROVE  /\ j.phase \in Phase /\ j.left \subseteq Group /\ j.todo \subseteq Feature
         /\ j.backup \in [DOMAIN j.backup -> FeatureData]
BY DEF JobOK, DocumentOK

LEMMA Parts == CommandInv <=> RunTypes /\ DocsOK /\ InProgress /\ JobsOK /\ OwedToUser
<1>1. DocsOK => \A p \in Place : /\ doc[p].kind \in {"empty", "mixed", "foreign", "payload"}
                                 /\ DOMAIN doc[p].groups \subseteq Group
  BY DEF DocsOK, DocumentOK
<1>2. JobsOK => \A j \in jobs : /\ j.phase \in Phase /\ j.left \subseteq Group /\ j.todo \subseteq Feature
                                /\ j.backup \in [DOMAIN j.backup -> FeatureData]
  BY JobTypes DEF JobsOK
<1>. QED BY <1>1, <1>2 DEF CommandInv, CommandTypeOK, RunTypes, DocsOK, OwedToUser

LEMMA PartsNext == RunTypes' /\ DocsOK' /\ InProgress' /\ JobsOK' /\ OwedToUser' => CommandInv'
<1>1. DocsOK' => \A p \in Place : /\ doc'[p].kind \in {"empty", "mixed", "foreign", "payload"}
                                  /\ DOMAIN doc'[p].groups \subseteq Group
  BY DEF DocsOK, DocumentOK
<1>2. JobsOK' => \A j \in jobs' : /\ j.phase \in Phase /\ j.left \subseteq Group /\ j.todo \subseteq Feature
                                  /\ j.backup \in [DOMAIN j.backup -> FeatureData]
  BY JobTypes DEF JobsOK
<1>. QED BY <1>1, <1>2 DEF CommandInv, CommandTypeOK, RunTypes, DocsOK, OwedToUser

LEMMA DocsStand ==
  ASSUME DocsOK, doc' = doc
  PROVE  DocsOK'
BY DEF DocsOK

LEMMA DocsWritten ==
  ASSUME DocsOK, NEW p \in Place, NEW d, DocumentOK(d), doc' = [doc EXCEPT ![p] = d]
  PROVE  DocsOK' /\ doc'[p] = d
<1>1. DOMAIN doc = Place /\ DOMAIN doc' = Place
  BY DEF DocsOK
<1>2. doc'[p] = d /\ \A q \in Place : q # p => doc'[q] = doc[q]
  BY <1>1
<1>3. \A q \in Place : DocumentOK(doc'[q])
  <2>1. \A q \in Place : DocumentOK(doc[q])
    BY DEF DocsOK
  <2>. QED BY <1>2, <2>1, Zenon
<1>4. doc' \in [Place -> {doc'[q] : q \in Place}]
  <2>1. doc' = [q \in Place |-> doc'[q]]
    BY <1>1
  <2>2. \A q \in Place : doc'[q] \in {doc'[r] : r \in Place}
    OBVIOUS
  <2>. QED BY <2>1, <2>2, Zenon
<1>. QED BY <1>2, <1>3, <1>4 DEF DocsOK

LEMMA SourceIsPlace == Source \in Place
BY DEF Source, Place

(* Between the runs, and during one, nothing is owed yet.                      *)
LEMMA NothingOwed ==
  ASSUME tool' # "done"
  PROVE  OwedToUser'
BY DEF OwedToUser, RestoredAsSaved, IntactAccepted, EditedKeptOut, NoSilentLoss, IncompleteIsTold, Finished

(* Until a run has read its payload it has no job.                             *)
LEMMA NoJobYet ==
  ASSUME JobsOK, tool \in {"listing", "saving", "reading"}
  PROVE  (\A j \in jobs : j.run # turns) /\ (alone => jobs = {})
BY DEF JobsOK

LEMMA JobsBeforeReading ==
  ASSUME JobsOK, tool \in {"listing", "saving", "reading"},
         jobs' = jobs, turns' = turns, alone' = alone
  PROVE  JobsOK'
BY NoJobYet DEF JobsOK

LEMMA JobsAtTurn ==
  ASSUME JobsOK, turns \in Nat, turns' = turns + 1, jobs' = jobs,
         alone' = (jobs = {}) \/ tool' = "idle"
  PROVE  JobsOK'
<1>1. \A j \in jobs : j.run \in Nat /\ j.run <= turns /\ JobOK(j)
  BY DEF JobsOK, JobOK
<1>2. \A j \in jobs : j.run <= turns' /\ j.run # turns'
  BY <1>1
<1>3. alone' /\ tool' # "idle" => jobs' = {}
  OBVIOUS
<1>. QED BY <1>1, <1>2, <1>3 DEF JobsOK

-----------------------------------------------------------------------------
(* The steps. *)

LEMMA BeginKeeps ==
  ASSUME CommandInv, NEW o \in Options, RunRefused(o) \/ RunReset(o) \/ RunList(o) \/ RunRestore(o)
  PROVE  CommandInv'
<1>1. /\ RunTypes /\ DocsOK /\ JobsOK
      /\ Begins(o) /\ groupList' = {} /\ doc' = doc
      /\ shown' \in {Quiet, [Quiet EXCEPT !.error = TRUE]} /\ exit' \in {"none", "success", "failure"}
      /\ tool' \in {"done", "listing", "reading"}
  BY Parts DEF RunRefused, RunReset, RunList, RunRestore, Ends
<1>2. RunTypes'
  <2>1. turns' \in 0..MaxTurns /\ alone' \in BOOLEAN
    BY <1>1, CommandAssumption DEF RunTypes, Begins, Turn
  <2>2. shown' \in [status : {"none", "SUCCESS", "PARTIAL_SUCCESS", "FAILED", "UNKNOWN"}, error : BOOLEAN]
    <3> DEFINE Ty == [status : {"none", "SUCCESS", "PARTIAL_SUCCESS", "FAILED", "UNKNOWN"}, error : BOOLEAN]
    <3>1. Quiet \in Ty
      BY DEF Quiet
    <3>2. [Quiet EXCEPT !.error = TRUE] \in Ty
      BY <3>1
    <3> HIDE DEF Ty
    <3>3. shown' \in Ty
      BY <1>1, <3>1, <3>2, Zenon
    <3>. QED BY <3>3 DEF Ty
  <2>3. option' \in Options /\ device' = device /\ before' = device
    BY <1>1 DEF Begins
  <2>. QED BY <1>1, <2>1, <2>2, <2>3 DEF RunTypes
<1>3. DocsOK'
  BY <1>1, DocsStand
<1>4. InProgress'
  <2>1. option' = o /\ device' = before' /\ shown'.status = "none" /\ KeptOut'
    BY <1>1 DEF Begins, Quiet, KeptOut
  <2>2. CASE tool' = "done"
    BY <2>1, <2>2 DEF InProgress, Resting
  <2>3. CASE RunList(o)
    <3>1. tool' = "listing" /\ o.operation = "list"
      BY <2>3 DEF RunList
    <3>2. ~Refused(option)'
      BY <2>1, <3>1 DEF Refused
    <3>. QED BY <2>1, <3>1, <3>2 DEF InProgress, Resting
  <2>4. CASE RunRestore(o)
    <3>1. tool' = "reading" /\ o.operation = "restore" /\ ~Refused(o)
      BY <2>4 DEF RunRestore
    <3>2. ~Refused(option)'
      BY <2>1, <3>1 DEF Refused
    <3>. QED BY <2>1, <3>1, <3>2 DEF InProgress, Resting
  <2>. QED BY <2>2, <2>3, <2>4 DEF RunRefused, RunReset, Ends
<1>5. JobsOK'
  BY <1>1, JobsAtTurn DEF RunTypes, Begins, Turn
<1>6. OwedToUser'
  <2>1. CASE tool' = "done"
    <3>1. shown'.status = "none" /\ shown'.error /\ device' = before'
      BY <1>1, <2>1 DEF RunRefused, RunReset, RunList, RunRestore, Begins, Quiet
    <3>. QED BY <3>1 DEF OwedToUser, RestoredAsSaved, IntactAccepted, EditedKeptOut, KeptOut, NoSilentLoss,
                         IncompleteIsTold
  <2>2. CASE tool' # "done"
    BY <2>2, NothingOwed
  <2>. QED BY <2>1, <2>2
<1>. QED BY <1>2, <1>3, <1>4, <1>5, <1>6, PartsNext

LEMMA RunSaveKeeps ==
  ASSUME CommandInv, NEW o \in Options, RunSave(o)
  PROVE  CommandInv'
<1>1. RunTypes /\ DocsOK /\ JobsOK /\ Begins(o) /\ tool' \in {"listing", "saving"}
  BY Parts DEF RunSave
<1>2. RunTypes'
  BY <1>1, CommandAssumption DEF RunTypes, Begins, Turn, Quiet, RunSave
<1>3. DocsOK'
  <2>1. DocumentOK(Document("empty")) /\ DocumentOK(Document("mixed"))
    BY EmptyDocument
  <2>2. CASE o.fileName = "good"
    BY <1>1, <2>1, <2>2, DocsWritten DEF RunSave, Place
  <2>3. CASE o.fileName # "good"
    BY <1>1, <2>1, <2>3, DocsWritten DEF RunSave, Place
  <2>. QED BY <2>2, <2>3
<1>4. InProgress'
  BY <1>1 DEF InProgress, Resting, Refused, RunSave, Begins, Quiet, AskedFor
<1>5. JobsOK'
  BY <1>1, JobsAtTurn DEF RunTypes, Begins, Turn
<1>6. OwedToUser'
  BY <1>1, NothingOwed
<1>. QED BY <1>2, <1>3, <1>4, <1>5, <1>6, PartsNext

LEMMA ListKeeps ==
  ASSUME CommandInv, Listed \/ ListFailed
  PROVE  CommandInv'
<1>1. /\ RunTypes /\ DocsOK /\ InProgress /\ JobsOK
      /\ tool = "listing" /\ doc' = doc /\ option' = option /\ device' = device /\ before' = before
      /\ jobs' = jobs /\ alone' = alone /\ turns' = turns
      /\ \/ option.operation = "list" /\ tool' = "done" /\ exit' = "success"
         \/ option.operation # "list" /\ tool' = "saving" /\ exit' = exit
      /\ \/ groupList' = Group /\ shown' = shown
         \/ groupList' = groupList /\ shown' = [shown EXCEPT !.error = TRUE]
  BY Parts DEF Listed, ListFailed, AfterList, Ends, getGroupList
<1>2. RunTypes'
  BY <1>1 DEF RunTypes
<1>3. DocsOK'
  BY <1>1, DocsStand
<1>4. InProgress'
  <2>1. option.operation # "list" => option.operation = "save" /\ option.groups = {}
    BY <1>1 DEF InProgress
  <2>2. AskedFor' = IF option.groups = {} THEN Group ELSE option.groups
    BY <1>1 DEF AskedFor
  <2>3. /\ shown'.status = shown.status
        /\ groupList' = Group \/ shown'.error
    BY <1>1 DEF RunTypes
  <2>. QED BY <1>1, <2>1, <2>2, <2>3 DEF InProgress, Resting, Refused
<1>5. JobsOK'
  BY <1>1, JobsBeforeReading
<1>6. OwedToUser'
  BY <1>1 DEF OwedToUser, RestoredAsSaved, IntactAccepted, EditedKeptOut, NoSilentLoss, IncompleteIsTold, Finished
<1>. QED BY <1>2, <1>3, <1>4, <1>5, <1>6, PartsNext

(* How a save ends: with the error it has printed, or with a payload that has  *)
(* all it was to have if it says so.                                          *)
LEMMA SaveEnds ==
  ASSUME CommandInv, SaveFails \/ SaveRefused \/ Saved
  PROVE  CommandInv'
<1>1. /\ RunTypes /\ DocsOK /\ InProgress /\ JobsOK
      /\ tool = "saving" /\ tool' = "done" /\ exit' = "success" /\ option' = option
      /\ groupList' = groupList /\ device' = device /\ before' = before
      /\ jobs' = jobs /\ alone' = alone /\ turns' = turns
      /\ option.operation = "save" /\ (groupList = AskedFor \/ shown.error)
      /\ AskedFor' = AskedFor /\ Source' = Source
  <2>1. RunTypes /\ DocsOK /\ InProgress /\ JobsOK
    BY Parts
  <2>. QED BY <2>1 DEF SaveFails, SaveRefused, Saved, Ends, InProgress, AskedFor, Source
<1> JobsOK'
  BY <1>1, JobsBeforeReading
<1>2. CASE SaveFails
  <2>1. doc' = doc /\ shown' = [shown EXCEPT !.error = TRUE] /\ shown'.error
    BY <1>1, <1>2 DEF SaveFails, RunTypes
  <2>2. RunTypes'
    BY <1>1, <2>1 DEF RunTypes
  <2>3. DocsOK' /\ InProgress'
    BY <1>1, <2>1, DocsStand DEF InProgress, Resting
  <2>4. OwedToUser'
    BY <1>1, <2>1 DEF OwedToUser, RestoredAsSaved, IntactAccepted, EditedKeptOut, NoSilentLoss,
                      IncompleteIsTold, Finished
  <2>. QED BY <2>2, <2>3, <2>4, PartsNext
<1>3. CASE SaveRefused \/ Saved
  <2>1. PICK d : /\ DocumentOK(d) /\ d.kind = "payload" /\ Written(d)
                 /\ shown'.status = "SUCCESS" /\ ~shown'.error => AskedFor \subseteq DOMAIN d.groups
                 /\ shown' \in [status : {"SUCCESS", "PARTIAL_SUCCESS", "FAILED"}, error : BOOLEAN]
    <3>1. CASE SaveRefused
      <4>1. DocumentOK(Document("payload")) /\ Document("payload").kind = "payload"
        BY EmptyDocument
      <4>. QED BY <3>1, <4>1 DEF SaveRefused
    <3>2. CASE Saved
      <4>1. PICK failed \in SUBSET Group :
              /\ shown' = [shown EXCEPT !.status = SaveStatus(groupList, failed)]
              /\ Written(SaveResponse(groupList, failed))
        BY <3>2 DEF Saved
      <4> DEFINE d == SaveResponse(groupList, failed)
      <4>2. DocumentOK(d) /\ d.kind = "payload" /\ DOMAIN d.groups = (groupList \cap Group) \ failed
        BY <1>1, ResponseOfSave DEF RunTypes
      <4>3. /\ shown'.status = SaveStatus(groupList, failed) /\ shown'.error = shown.error
            /\ shown' \in [status : {"SUCCESS", "PARTIAL_SUCCESS", "FAILED"}, error : BOOLEAN]
        BY <1>1, <4>1 DEF RunTypes, SaveStatus
      <4>4. shown'.status = "SUCCESS" => groupList \subseteq DOMAIN d.groups
        BY <4>2, <4>3 DEF SaveStatus
      <4> HIDE DEF d
      <4>5. shown'.status = "SUCCESS" /\ ~shown'.error => AskedFor \subseteq DOMAIN d.groups
        BY <1>1, <4>3, <4>4
      <4>. QED BY <4>1, <4>2, <4>3, <4>5 DEF d
    <3>. QED BY <1>3, <3>1, <3>2
  <2> DEFINE w == IF Source = "file" THEN d ELSE [d EXCEPT !.kind = "mixed"]
  <2>2. DocumentOK(w)
    BY <2>1, MixedDocument
  <2>3. DocsOK' /\ doc'[Source] = w
    <3>1. doc' = [doc EXCEPT ![Source] = w]
      BY <2>1 DEF Written
    <3> HIDE DEF w
    <3>. QED BY <1>1, <2>2, <3>1, DocsWritten, SourceIsPlace
  <2>4. RunTypes'
    BY <1>1, <2>1 DEF RunTypes
  <2>5. InProgress'
    BY <1>1 DEF InProgress, Resting
  <2>6. Source = "file" => doc'["file"].kind = "payload" /\ doc'["file"] = d
    BY <2>1, <2>3
  <2>7. OwedToUser'
    BY <1>1, <2>1, <2>6 DEF OwedToUser, RestoredAsSaved, IntactAccepted, EditedKeptOut, NoSilentLoss,
                            IncompleteIsTold, Finished
  <2>. QED BY <2>3, <2>4, <2>5, <2>7, PartsNext
<1>. QED BY <1>2, <1>3

LEMMA ReadKeeps ==
  ASSUME CommandInv, ReadFails \/ ReadAborts
  PROVE  CommandInv'
<1>1. /\ RunTypes /\ DocsOK /\ InProgress /\ JobsOK
      /\ tool = "reading" /\ tool' = "done" /\ option' = option /\ doc' = doc
      /\ groupList' = groupList /\ device' = device /\ before' = before
      /\ jobs' = jobs /\ alone' = alone /\ turns' = turns
      /\ exit' \in {exit, "success", "aborted"}
      /\ shown' \in {shown, [shown EXCEPT !.error = TRUE]}
  BY Parts DEF ReadFails, ReadAborts, Ends
<1>2. RunTypes' /\ shown'.status = "none"
  BY <1>1 DEF RunTypes, InProgress, Resting
<1>3. DocsOK' /\ JobsOK'
  BY <1>1, DocsStand, JobsBeforeReading
<1>4. InProgress' /\ option'.operation = "restore" /\ KeptOut'
  BY <1>1, <1>2 DEF InProgress, Resting, KeptOut, Source
<1>5. OwedToUser'
  BY <1>2, <1>4 DEF OwedToUser, RestoredAsSaved, IntactAccepted, EditedKeptOut, NoSilentLoss,
                    IncompleteIsTold, Finished
<1>. QED BY <1>2, <1>3, <1>4, <1>5, PartsNext

(* A request is of the run that makes it and of what that run has read.        *)
LEMMA RequestKeeps ==
  ASSUME CommandInv, Read
  PROVE  CommandInv'
<1>1. /\ RunTypes /\ DocsOK /\ InProgress /\ JobsOK
      /\ tool = "reading" /\ tool' = "restoring" /\ option' = option /\ doc' = doc /\ exit' = exit
      /\ groupList' = groupList /\ device' = device /\ before' = before /\ shown' = shown
      /\ alone' = alone /\ turns' = turns /\ Source' = Source /\ turns \in Nat
  BY Parts, CommandAssumption DEF Read, Source, RunTypes
<1>2. PICK d : d = doc[Source]
  OBVIOUS
<1>3. PICK j : j = Job(d)
  OBVIOUS
<1>4. DocumentOK(d) /\ jobs' \in {jobs, jobs \cup {j}}
  BY <1>1, <1>2, <1>3, SourceIsPlace, ForwardedIs DEF DocsOK, Read
<1>5. RunTypes' /\ DocsOK' /\ InProgress'
  BY <1>1, DocsStand DEF RunTypes, InProgress, Resting, Refused, KeptOut
<1>6. /\ j.run = turns /\ j.doc = d /\ j.refusal = Refusal(d)
      /\ j.left = DOMAIN j.doc.groups /\ JobOK(j) /\ Refusal(d)' = Refusal(d)
  <2>1. Refusal(d) \in {"none", "FAILED", "UNKNOWN"}
    BY <1>4, RefusalIs
  <2>2. NoBackup \in [DOMAIN NoBackup -> FeatureData]
    BY DEF NoBackup
  <2>3. Refusal(d)' = Refusal(d)
    BY <1>1 DEF Refusal
  <2>. QED BY <1>1, <1>3, <1>4, <2>1, <2>2, <2>3 DEF Job, JobOK, Phase
<1>7. JobsOK'
  <2>1. (\A k \in jobs : k.run # turns) /\ (alone => jobs = {})
    BY <1>1, NoJobYet
  <2>2. Held(j)'
    <3>1. DOMAIN j.doc.groups \ j.left = {}
      BY <1>6
    <3>. QED BY <3>1 DEF Held
  <2>3. \A k \in jobs' : k \in jobs \/ k = j
    BY <1>4
  <2>4. doc'[Source'] = d /\ option'.operation = "restore" /\ j.refusal = Refusal(j.doc)'
    BY <1>1, <1>2, <1>6 DEF InProgress
  <2>5. \A k \in jobs' : JobOK(k) /\ k.run <= turns'
    BY <1>1, <1>6, <2>1, <2>3 DEF JobsOK
  <2>6. \A k, l \in jobs' : k.run = l.run => k = l
    BY <1>1, <1>6, <2>1, <2>3 DEF JobsOK
  <2>7. \A k \in jobs' : k.run = turns' => k = j
    BY <1>1, <2>1, <2>3
  <2>8. alone' => \A k \in jobs' : k = j
    BY <1>1, <2>1, <2>3
  <2>. QED BY <1>1, <1>6, <2>2, <2>4, <2>5, <2>6, <2>7, <2>8 DEF JobsOK
<1>8. OwedToUser'
  BY <1>1, NothingOwed
<1>. QED BY <1>5, <1>7, <1>8, PartsNext

LEMMA GivingUpKeeps ==
  ASSUME CommandInv, RestoreUnanswered
  PROVE  CommandInv'
<1>1. /\ RunTypes /\ DocsOK /\ InProgress /\ JobsOK
      /\ tool = "restoring" /\ tool' = "done" /\ exit' = "success" /\ option' = option /\ doc' = doc
      /\ groupList' = groupList /\ device' = device /\ before' = before
      /\ jobs' = jobs /\ alone' = alone /\ turns' = turns
      /\ shown' = [shown EXCEPT !.error = TRUE] /\ Source' = Source
  BY Parts DEF RestoreUnanswered, Ends, Source
<1>2. RunTypes' /\ DocsOK' /\ shown'.status = "none"
  BY <1>1, DocsStand DEF RunTypes, InProgress, Resting
<1>3. InProgress' /\ option'.operation = "restore" /\ KeptOut'
  BY <1>1 DEF InProgress, Resting, KeptOut
<1>4. JobsOK'
  BY <1>1, <1>2, Zenon DEF JobsOK, Refusal
<1>5. OwedToUser'
  BY <1>2, <1>3 DEF OwedToUser, RestoredAsSaved, IntactAccepted, EditedKeptOut, NoSilentLoss,
                    IncompleteIsTold, Finished
<1>. QED BY <1>2, <1>3, <1>4, <1>5, PartsNext

-----------------------------------------------------------------------------
(* The steps of a job. *)

(* A job at work was not refused: it restores what nobody has changed, or is     *)
(* forced.                                                                    *)
LEMMA NotRefused ==
  ASSUME CommandInv, NEW j \in jobs, j.refusal = "none", tool # "idle", option.operation = "restore", alone
  PROVE  Changed(doc[Source]) = {} \/ option.force
<1>1. JobsOK /\ DocsOK
  BY Parts
<1>2. j.doc = doc[Source] /\ Refusal(doc[Source]) = "none"
  BY <1>1 DEF JobsOK
<1>. QED BY <1>1, <1>2, RefusalIs, SourceIsPlace DEF DocsOK

(* A job that goes on.                                                        *)
LEMMA JobGoesOn ==
  ASSUME CommandInv, NEW j \in jobs, NEW new, Becomes(j, new), JobOK(new),
         new.run = j.run, new.doc = j.doc, new.refusal = j.refusal,
         device' \in [Feature -> FeatureData], device' # device => j.refusal = "none",
         Held(j) => Held(new)'
  PROVE  CommandInv'
<1>1. /\ RunTypes /\ DocsOK /\ InProgress /\ JobsOK /\ OwedToUser
      /\ jobs' = (jobs \ {j}) \cup {new} /\ tool' = tool /\ option' = option /\ groupList' = groupList
      /\ doc' = doc /\ shown' = shown /\ exit' = exit /\ before' = before /\ alone' = alone /\ turns' = turns
  BY Parts DEF Becomes
<1>2. /\ Source' = Source /\ AskedFor' = AskedFor /\ Refused(option)' = Refused(option)
      /\ Resting' = Resting /\ doc'[Source'] = doc[Source]
      /\ \A d : Refusal(d)' = Refusal(d)
      /\ \A op : Finished(op)' <=> Finished(op)
  BY <1>1 DEF Source, AskedFor, Refused, Resting, Refusal, Finished
<1>3. RunTypes' /\ DocsOK'
  BY <1>1, DocsStand DEF RunTypes
<1>4. tool # "idle" /\ option.operation = "restore" => KeptOut'
  <2> SUFFICES ASSUME tool # "idle", option.operation = "restore", alone,
                      Changed(doc[Source]) # {}, ~option.force
               PROVE  device' = before
    BY <1>1, <1>2 DEF KeptOut
  <2>1. device' = device
    BY NotRefused
  <2>. QED BY <1>1, <2>1 DEF InProgress, KeptOut
<1>5. InProgress'
  BY <1>1, <1>2, <1>4 DEF InProgress
<1>6. JobsOK'
  <2>1. \A k \in jobs' : k = new \/ (k \in jobs /\ k # j /\ k.run # j.run)
    BY <1>1 DEF JobsOK
  <2>2. \A k \in jobs' : JobOK(k) /\ k.run <= turns
    BY <1>1, <2>1 DEF JobsOK
  <2>3. \A k, l \in jobs' : k.run = l.run => k = l
    BY <1>1, <2>1 DEF JobsOK
  <2>4. tool # "idle" => \A k \in jobs' : k.run = turns =>
          /\ tool \in {"restoring", "done"} /\ option.operation = "restore"
          /\ k.doc = doc[Source] /\ k.refusal = Refusal(k.doc)
    BY <1>1, <2>1 DEF JobsOK
  <2>5. alone /\ tool # "idle" => \A k \in jobs' : k = new /\ k.run = turns
    BY <1>1, <2>1 DEF JobsOK
  <2>6. alone /\ tool = "restoring" => \A k \in jobs' : Held(k)'
    BY <1>1, <2>5 DEF JobsOK
  <2>7. ~(alone /\ tool = "done" /\ shown.status # "none")
    BY <1>1 DEF JobsOK
  <2>. QED BY <1>1, <1>2, <2>2, <2>3, <2>4, <2>5, <2>6, <2>7 DEF JobsOK
<1>7. OwedToUser'
  <2>1. ~(alone /\ tool = "done" /\ shown.status = "SUCCESS")
    BY <1>1 DEF JobsOK
  <2>2. RestoredAsSaved'
    BY <1>1, <2>1 DEF RestoredAsSaved, Finished
  <2>3. EditedKeptOut'
    BY <1>1, <1>4 DEF EditedKeptOut, Finished
  <2>4. IntactAccepted' /\ NoSilentLoss' /\ IncompleteIsTold'
    BY <1>1, <1>2 DEF OwedToUser, IntactAccepted, NoSilentLoss, IncompleteIsTold
  <2>. QED BY <2>2, <2>3, <2>4 DEF OwedToUser
<1>. QED BY <1>3, <1>5, <1>6, <1>7, PartsNext

(* An answer, to the run that waits for it or to nobody.                        *)
LEMMA JobAnswers ==
  ASSUME CommandInv, NEW j \in jobs, NEW status \in {"SUCCESS", "PARTIAL_SUCCESS", "FAILED", "UNKNOWN"},
         Answers(j, status), status = "UNKNOWN" => j.refusal = "UNKNOWN",
         status = "SUCCESS" => j.left = {} /\ j.todo = {} /\ j.allGroupsRestored
  PROVE  CommandInv'
<1>1. /\ RunTypes /\ DocsOK /\ InProgress /\ JobsOK /\ OwedToUser
      /\ jobs' = jobs \ {j} /\ option' = option /\ groupList' = groupList
      /\ doc' = doc /\ device' = device /\ before' = before /\ alone' = alone /\ turns' = turns
      /\ Source' = Source /\ doc'[Source'] = doc[Source]
      /\ \A d : Refusal(d)' = Refusal(d)
  BY Parts DEF Answers, Source, Refusal
<1>2. DocsOK'
  BY <1>1, DocsStand
<1>3. CASE Awaited(j)
  <2>1. /\ tool = "restoring" /\ tool' = "done" /\ exit' = "success" /\ j.run = turns
        /\ shown' = [status |-> status, error |-> status \in {"FAILED", "UNKNOWN"}]
    BY <1>3 DEF Answers, Awaited, Ends
  <2>2. shown' \in [status : {"none", "SUCCESS", "PARTIAL_SUCCESS", "FAILED", "UNKNOWN"}, error : BOOLEAN]
        /\ shown'.status = status
    BY <2>1
  <2>3. /\ option.operation = "restore" /\ j.doc = doc[Source] /\ j.refusal = Refusal(doc[Source])
        /\ DocumentOK(doc[Source])
    BY <1>1, <2>1, SourceIsPlace DEF JobsOK, DocsOK
  <2>4. RunTypes'
    BY <1>1, <2>1, <2>2 DEF RunTypes
  <2>5. KeptOut'
    BY <1>1, <2>1, <2>3 DEF InProgress, KeptOut
  <2>6. InProgress'
    BY <2>1, <2>5 DEF InProgress, Resting
  <2>7. JobsOK'
    <3>1. alone => jobs' = {}
      BY <1>1, <2>1 DEF JobsOK
    <3>2. \A k \in jobs' : k \in jobs /\ k.run # turns
      BY <1>1, <2>1 DEF JobsOK
    <3>. QED BY <1>1, <2>1, <3>1, <3>2 DEF JobsOK
  <2>8. RestoredAsSaved'
    <3> SUFFICES ASSUME alone, status = "SUCCESS",
                        NEW g \in DOMAIN doc[Source].groups \ Changed(doc[Source]), NEW f \in FeaturesOf(g)
                 PROVE  device[f] = Respelled(doc[Source].of[f])
      BY <1>1, <2>2 DEF RestoredAsSaved
    <3>1. Held(j)
      BY <1>1, <2>1 DEF JobsOK
    <3>2. f \in Carries(doc[Source], g) /\ DataFor(doc[Source], g, f) = Respelled(doc[Source].of[f])
      BY <2>3, UnchangedData
    <3>. QED BY <2>3, <3>1, <3>2 DEF Held
  <2>9. IntactAccepted'
    BY <1>1, <2>2, <2>3, RefusalIs DEF IntactAccepted
  <2>10. EditedKeptOut' /\ NoSilentLoss' /\ IncompleteIsTold'
    BY <1>1, <2>3, <2>5 DEF EditedKeptOut, NoSilentLoss, IncompleteIsTold, Finished
  <2>. QED BY <1>2, <2>4, <2>6, <2>7, <2>8, <2>9, <2>10, PartsNext DEF OwedToUser
<1>4. CASE ~Awaited(j)
  <2>1. tool' = tool /\ exit' = exit /\ shown' = shown
    BY <1>4 DEF Answers
  <2>2. /\ AskedFor' = AskedFor /\ Refused(option)' = Refused(option) /\ Resting' = Resting
        /\ KeptOut' = KeptOut /\ \A op : Finished(op)' = Finished(op)
    BY <1>1, <2>1 DEF AskedFor, Refused, Resting, Finished, KeptOut
  <2>3. RunTypes' /\ InProgress'
    BY <1>1, <2>1, <2>2 DEF RunTypes, InProgress
  <2>4. JobsOK'
    <3>1. \A k \in jobs' : k \in jobs
      BY <1>1
    <3>2. \A k : Held(k)' = Held(k)
      BY <1>1 DEF Held
    <3>. QED BY <1>1, <2>1, <3>1, <3>2 DEF JobsOK
  <2>5. OwedToUser'
    BY <1>1, <2>1, <2>2 DEF OwedToUser, RestoredAsSaved, IntactAccepted, EditedKeptOut, NoSilentLoss, IncompleteIsTold
  <2>. QED BY <1>2, <2>3, <2>4, <2>5, PartsNext
<1>. QED BY <1>3, <1>4

(* The features of a group are of no other.                                    *)
LEMMA OtherGroups ==
  ASSUME NEW d, DocumentOK(d), NEW g \in DOMAIN d.groups, NEW h \in DOMAIN d.groups,
         NEW f \in FeaturesOf(g), f \in Carries(d, h)
  PROVE  h = g
<1>1. g \in Group /\ h \in Group /\ f \in FeaturesOf(h)
  BY DEF DocumentOK
<1>. QED BY <1>1, TablesAssumption

LEMMA AdmittedKeeps ==
  ASSUME CommandInv, NEW j \in jobs, Admitted(j) \/ RestoreBegins(j) \/ GroupEnds(j)
  PROVE  CommandInv'
<1>1. JobOK(j) /\ device \in [Feature -> FeatureData]
  BY Parts DEF JobsOK, RunTypes
<1>2. CASE Admitted(j)
  <2> DEFINE new == [j EXCEPT !.phase = "next"]
  <2>1. j.phase = "asked" /\ j.refusal = "none" /\ Becomes(j, new) /\ device' = device
    BY <1>2 DEF Admitted
  <2>2. JobOK(new) /\ new.run = j.run /\ new.doc = j.doc /\ new.refusal = j.refusal
    BY <1>1, <2>1 DEF JobOK, Phase
  <2>3. Held(j) => Held(new)'
    BY <1>1, <2>1 DEF Held, JobOK
  <2> HIDE DEF new
  <2>. QED BY <1>1, <2>1, <2>2, <2>3, JobGoesOn
<1>3. CASE RestoreBegins(j)
  <2> DEFINE new == [j EXCEPT !.phase = "restore"]
  <2>1. j.phase = "reset" /\ Becomes(j, new) /\ device' = device
    BY <1>3 DEF RestoreBegins
  <2>2. JobOK(new) /\ new.run = j.run /\ new.doc = j.doc /\ new.refusal = j.refusal
    BY <1>1, <2>1 DEF JobOK, Phase
  <2>3. Held(j) => Held(new)'
    BY <1>1, <2>1 DEF Held, JobOK
  <2> HIDE DEF new
  <2>. QED BY <1>1, <2>1, <2>2, <2>3, JobGoesOn
<1>4. CASE GroupEnds(j)
  <2> DEFINE new == [j EXCEPT !.phase = "next", !.group = "none", !.backup = NoBackup]
  <2>1. /\ j.phase \in {"restore", "rollback"} /\ j.todo = {} /\ Becomes(j, new) /\ device' = device
        /\ NoBackup \in [DOMAIN NoBackup -> FeatureData]
    BY <1>4 DEF GroupEnds, NoBackup
  <2>2. JobOK(new) /\ new.run = j.run /\ new.doc = j.doc /\ new.refusal = j.refusal
    BY <1>1, <2>1 DEF JobOK, Phase
  <2>3. Held(j) => Held(new)'
    BY <1>1, <2>1 DEF Held, JobOK
  <2> HIDE DEF new
  <2>. QED BY <1>1, <2>1, <2>2, <2>3, JobGoesOn
<1>. QED BY <1>2, <1>3, <1>4

LEMMA GroupBeginsKeeps ==
  ASSUME CommandInv, NEW j \in jobs, GroupBegins(j)
  PROVE  CommandInv'
<1>1. JobOK(j) /\ device \in [Feature -> FeatureData]
  BY Parts DEF JobsOK, RunTypes
<1>2. PICK g \in j.left :
        /\ j.phase = "next" /\ device' = device
        /\ Becomes(j, [j EXCEPT !.phase = "reset", !.left = @ \ {g}, !.group = g, !.todo = Carries(j.doc, g),
                                !.backup = [f \in FeaturesOf(g) |-> device[f]]])
  BY DEF GroupBegins, NextGroups
<1>3. PICK b : b = [f \in FeaturesOf(g) |-> device[f]]
  OBVIOUS
<1> DEFINE new == [j EXCEPT !.phase = "reset", !.left = @ \ {g}, !.group = g, !.todo = Carries(j.doc, g),
                            !.backup = b]
<1>4. Becomes(j, new)
  BY <1>2, <1>3
<1>5. /\ g \in DOMAIN j.doc.groups /\ g \in Group /\ Carries(j.doc, g) \subseteq FeaturesOf(g)
      /\ FeaturesOf(g) \subseteq Feature /\ b \in [DOMAIN b -> FeatureData] /\ DOMAIN b = FeaturesOf(g)
  <2>1. g \in DOMAIN j.doc.groups /\ g \in Group /\ Carries(j.doc, g) \subseteq FeaturesOf(g)
    BY <1>1 DEF JobOK, DocumentOK
  <2>. QED BY <1>1, <1>3, <2>1, FeaturesOfGroups
<1>6. /\ new.run = j.run /\ new.doc = j.doc /\ new.refusal = j.refusal /\ new.phase = "reset"
      /\ new.left = j.left \ {g} /\ new.group = g /\ new.todo = Carries(j.doc, g) /\ new.backup = b
      /\ new.allGroupsRestored = j.allGroupsRestored
      /\ new = [run |-> new.run, doc |-> new.doc, refusal |-> new.refusal, phase |-> new.phase,
                left |-> new.left, group |-> new.group, todo |-> new.todo, backup |-> new.backup,
                allGroupsRestored |-> new.allGroupsRestored]
  <2>1. j = [run |-> j.run, doc |-> j.doc, refusal |-> j.refusal, phase |-> j.phase, left |-> j.left,
             group |-> j.group, todo |-> j.todo, backup |-> j.backup,
             allGroupsRestored |-> j.allGroupsRestored]
    BY <1>1 DEF JobOK
  <2> DEFINE here == Carries(j.doc, g)
  <2> HIDE DEF here
  <2>2. new = [j EXCEPT !.phase = "reset", !.left = @ \ {g}, !.group = g, !.todo = here, !.backup = b]
    BY DEF here
  <2> HIDE DEF new
  <2>3. new = [run |-> j.run, doc |-> j.doc, refusal |-> j.refusal, phase |-> "reset", left |-> j.left \ {g},
               group |-> g, todo |-> here, backup |-> b, allGroupsRestored |-> j.allGroupsRestored]
    BY <2>1, <2>2
  <2>. QED BY <2>3 DEF here
<1> HIDE DEF new
<1>7. JobOK(new)
  BY <1>1, <1>2, <1>5, <1>6 DEF JobOK, Phase
<1>8. Held(j) => Held(new)'
  <2>1. DOMAIN j.doc.groups \ new.left \subseteq (DOMAIN j.doc.groups \ j.left) \cup {g}
    BY <1>6
  <2>2. j.todo = {}
    BY <1>1, <1>2 DEF JobOK
  <2>. QED BY <1>2, <1>6, <2>1, <2>2 DEF Held
<1>. QED BY <1>1, <1>2, <1>4, <1>6, <1>7, <1>8, JobGoesOn

(* A reset spoils nothing that was restored: no feature of the group is, before   *)
(* the restore, and in the roll-back no success is claimed.                     *)
LEMMA ResetsKeeps ==
  ASSUME CommandInv, NEW j \in jobs, Resets(j)
  PROVE  CommandInv'
<1>1. JobOK(j) /\ device \in [Feature -> FeatureData]
  BY Parts DEF JobsOK, RunTypes
<1>2. PICK f \in DOMAIN j.backup : device' = [device EXCEPT ![f] = Factory[f]]
  BY DEF Resets
<1>3. /\ j.phase = "reset" \/ j.phase = "rollback"
      /\ Becomes(j, j)
  BY DEF Resets, Resetting
<1>4. /\ j.group \in DOMAIN j.doc.groups /\ f \in FeaturesOf(j.group) /\ j.refusal = "none"
      /\ DocumentOK(j.doc)
  BY <1>1, <1>2, <1>3 DEF JobOK
<1>5. f \in Feature /\ Factory[f] \in FeatureData
  BY <1>4, FeaturesOfGroups, CommandAssumption DEF DocumentOK
<1>6. device' \in [Feature -> FeatureData] /\ \A e \in Feature : e # f => device'[e] = device[e]
  BY <1>1, <1>2, <1>5
<1>7. Held(j) => Held(j)'
  <2> SUFFICES ASSUME Held(j), j.allGroupsRestored, NEW h \in DOMAIN j.doc.groups \ j.left,
                      NEW e \in Carries(j.doc, h) \ j.todo
               PROVE  device'[e] = DataFor(j.doc, h, e)
    BY DEF Held
  <2>1. j.phase = "reset" /\ j.todo = Carries(j.doc, j.group)
    BY <1>1, <1>3 DEF JobOK
  <2>2. e # f
    <3> SUFFICES ASSUME e = f PROVE FALSE
      OBVIOUS
    <3>1. h = j.group
      BY <1>4, OtherGroups
    <3>. QED BY <2>1, <3>1
  <2>3. e \in Feature
    BY <1>4, DataForGood
  <2>. QED BY <1>6, <2>2, <2>3 DEF Held
<1>. QED BY <1>1, <1>3, <1>4, <1>6, <1>7, JobGoesOn

(* One feature more is as the payload has it.                                  *)
LEMMA FeatureRestoredKeeps ==
  ASSUME CommandInv, NEW j \in jobs, FeatureRestored(j)
  PROVE  CommandInv'
<1>1. JobOK(j) /\ device \in [Feature -> FeatureData]
  BY Parts DEF JobsOK, RunTypes
<1>2. PICK f \in j.todo : /\ j.phase = "restore"
                         /\ device' = [device EXCEPT ![f] = DataFor(j.doc, j.group, f)]
                         /\ Becomes(j, [j EXCEPT !.todo = @ \ {f}])
  BY DEF FeatureRestored, Lowest
<1> DEFINE new == [j EXCEPT !.todo = @ \ {f}]
<1>3. /\ j.group \in DOMAIN j.doc.groups \ j.left /\ f \in Carries(j.doc, j.group) /\ j.refusal = "none"
      /\ DocumentOK(j.doc)
  BY <1>1, <1>2 DEF JobOK
<1>4. DataFor(j.doc, j.group, f) \in FeatureData /\ f \in Feature /\ f \in FeaturesOf(j.group)
  BY <1>3, DataForGood
<1>5. /\ device' \in [Feature -> FeatureData] /\ device'[f] = DataFor(j.doc, j.group, f)
      /\ \A e \in Feature : e # f => device'[e] = device[e]
  BY <1>1, <1>2, <1>4
<1>6. /\ new.run = j.run /\ new.doc = j.doc /\ new.refusal = j.refusal /\ new.left = j.left
      /\ new.todo = j.todo \ {f} /\ new.allGroupsRestored = j.allGroupsRestored
      /\ JobOK(new)
  BY <1>1, <1>2 DEF JobOK, Phase
<1>7. Becomes(j, new)
  BY <1>2
<1> HIDE DEF new
<1>8. Held(j) => Held(new)'
  <2> SUFFICES ASSUME Held(j), j.allGroupsRestored, NEW h \in DOMAIN j.doc.groups \ j.left,
                      NEW e \in Carries(j.doc, h), e \notin j.todo \/ e = f
               PROVE  device'[e] = DataFor(j.doc, h, e)
    BY <1>6 DEF Held
  <2>1. CASE e = f
    <3>1. h = j.group
      BY <1>3, <1>4, <2>1, OtherGroups
    <3>. QED BY <1>5, <2>1, <3>1
  <2>2. CASE e # f
    <3>1. e \in Feature
      BY <1>3, DataForGood
    <3>. QED BY <1>5, <2>2, <3>1 DEF Held
  <2>. QED BY <2>1, <2>2
<1>. QED BY <1>3, <1>5, <1>6, <1>7, <1>8, JobGoesOn

LEMMA FailureKeeps ==
  ASSUME CommandInv, NEW j \in jobs, FeatureFails(j) \/ RollsBack(j)
  PROVE  CommandInv'
<1>1. JobOK(j) /\ device \in [Feature -> FeatureData]
  BY Parts DEF JobsOK, RunTypes
<1>2. CASE FeatureFails(j)
  <2> DEFINE new == [j EXCEPT !.phase = "rollback", !.todo = DOMAIN j.backup, !.allGroupsRestored = FALSE]
  <2>1. PICK f \in j.todo : /\ j.phase = "restore" /\ Becomes(j, new)
                           /\ device' \in {device, [device EXCEPT ![f] = DataFor(j.doc, j.group, f)]}
    BY <1>2 DEF FeatureFails, Lowest
  <2>2. /\ j.group \in DOMAIN j.doc.groups /\ f \in Carries(j.doc, j.group) /\ j.refusal = "none"
        /\ DocumentOK(j.doc) /\ FeaturesOf(j.group) \subseteq Feature /\ DOMAIN j.backup = FeaturesOf(j.group)
    BY <1>1, <2>1, FeaturesOfGroups DEF JobOK, DocumentOK
  <2>3. DataFor(j.doc, j.group, f) \in FeatureData /\ f \in Feature
    BY <2>2, DataForGood
  <2>4. device' \in [Feature -> FeatureData]
    BY <1>1, <2>1, <2>3
  <2>5. /\ new.run = j.run /\ new.doc = j.doc /\ new.refusal = j.refusal
        /\ ~new.allGroupsRestored /\ JobOK(new)
    BY <1>1, <2>1, <2>2 DEF JobOK, Phase
  <2> HIDE DEF new
  <2>. QED BY <2>1, <2>2, <2>4, <2>5, JobGoesOn DEF Held
<1>3. CASE RollsBack(j)
  <2>1. PICK f \in j.todo : /\ j.phase = "rollback" /\ Becomes(j, [j EXCEPT !.todo = @ \ {f}])
                           /\ device' \in {device, [device EXCEPT ![f] = j.backup[f]]}
    BY <1>3 DEF RollsBack, Lowest
  <2> DEFINE new == [j EXCEPT !.todo = @ \ {f}]
  <2>2. /\ f \in Feature /\ j.refusal = "none" /\ f \in DOMAIN j.backup
        /\ j.backup \in [DOMAIN j.backup -> FeatureData]
    BY <1>1, <2>1 DEF JobOK
  <2>3. device' \in [Feature -> FeatureData]
    BY <1>1, <2>1, <2>2
  <2>4. /\ new.run = j.run /\ new.doc = j.doc /\ new.refusal = j.refusal
        /\ ~new.allGroupsRestored /\ JobOK(new)
    BY <1>1, <2>1 DEF JobOK, Phase
  <2>5. Becomes(j, new)
    BY <2>1
  <2> HIDE DEF new
  <2>. QED BY <2>2, <2>3, <2>4, <2>5, JobGoesOn DEF Held
<1>. QED BY <1>2, <1>3

LEMMA AnswersKeep ==
  ASSUME CommandInv, NEW j \in jobs,
         LicenceRefuses(j) \/ RestoreRefused(j) \/ FeatureMissing(j) \/ BreaksOff(j) \/ RestoreAnswered(j)
  PROVE  CommandInv'
<1>1. JobOK(j)
  BY Parts DEF JobsOK
<1>2. CASE LicenceRefuses(j) \/ FeatureMissing(j) \/ BreaksOff(j)
  <2>1. Answers(j, "FAILED")
    BY <1>2 DEF LicenceRefuses, FeatureMissing, BreaksOff
  <2>. QED BY <2>1, JobAnswers
<1>3. CASE RestoreRefused(j)
  <2>1. Answers(j, j.refusal) /\ j.refusal \in {"FAILED", "UNKNOWN"}
    BY <1>1, <1>3 DEF RestoreRefused, JobOK
  <2>. QED BY <2>1, JobAnswers
<1>4. CASE RestoreAnswered(j)
  <2>1. PICK st \in {"SUCCESS", "PARTIAL_SUCCESS"} :
          /\ Answers(j, st) /\ j.left = {} /\ j.todo = {}
          /\ st = "SUCCESS" => j.allGroupsRestored
    BY <1>1, <1>4 DEF RestoreAnswered, JobOK
  <2>. QED BY <2>1, JobAnswers
<1>. QED BY <1>2, <1>3, <1>4

LEMMA DaemonEndsKeeps ==
  ASSUME CommandInv, DaemonEnds
  PROVE  CommandInv'
<1>1. /\ RunTypes /\ DocsOK /\ InProgress /\ JobsOK /\ OwedToUser
      /\ jobs' = {} /\ tool' = tool /\ option' = option /\ groupList' = groupList /\ doc' = doc
      /\ shown' = shown /\ exit' = exit /\ device' = device /\ before' = before /\ alone' = alone
      /\ turns' = turns
  BY Parts DEF DaemonEnds
<1>2. RunTypes' /\ DocsOK' /\ JobsOK'
  BY <1>1, DocsStand DEF RunTypes, JobsOK
<1>3. /\ AskedFor' = AskedFor /\ Refused(option)' = Refused(option) /\ Resting' = Resting
      /\ Source' = Source /\ KeptOut' = KeptOut /\ \A op : Finished(op)' = Finished(op)
  BY <1>1 DEF AskedFor, Refused, Resting, Finished, KeptOut, Source
<1>4. InProgress'
  BY <1>1, <1>3 DEF InProgress
<1>5. OwedToUser'
  BY <1>1, <1>3 DEF OwedToUser, RestoredAsSaved, IntactAccepted, EditedKeptOut, NoSilentLoss, IncompleteIsTold
<1>. QED BY <1>2, <1>4, <1>5, PartsNext

LEMMA BetweenKeeps ==
  ASSUME CommandInv, Edit \/ Configure
  PROVE  CommandInv'
<1>1. RunTypes /\ DocsOK /\ JobsOK
  BY Parts
<1>2. CASE Edit
  <2>1. DocumentOK(doc["file"]) /\ doc \in [Place -> {doc[p] : p \in Place}]
    BY <1>1 DEF DocsOK, Place
  <2>2. PICK d : DocumentOK(d) /\ EditFile(d)
    BY <1>2, <2>1, EditedDocument
  <2>3. DocsOK'
    BY <1>1, <2>2, DocsWritten DEF EditFile, Place
  <2>4. JobsOK'
    BY <1>1, <2>2, JobsAtTurn, CommandAssumption DEF EditFile, RunTypes, Turn
  <2>5. RunTypes' /\ InProgress' /\ OwedToUser'
    BY <1>1, <2>2, NothingOwed, CommandAssumption DEF EditFile, RunTypes, InProgress, Resting, Turn
  <2>. QED BY <2>3, <2>4, <2>5, PartsNext
<1>3. CASE Configure
  <2>1. device' \in [Feature -> FeatureData]
    BY <1>3, CommandAssumption DEF Configure
  <2>2. DocsOK' /\ JobsOK'
    BY <1>1, <1>3, DocsStand, JobsAtTurn, CommandAssumption DEF Configure, RunTypes, Turn
  <2>3. RunTypes' /\ InProgress' /\ OwedToUser'
    BY <1>1, <1>3, <2>1, NothingOwed, CommandAssumption DEF Configure, RunTypes, InProgress, Resting, Turn
  <2>. QED BY <2>2, <2>3, PartsNext
<1>. QED BY <1>2, <1>3

LEMMA InitCommand == CommandInit => CommandInv
<1> SUFFICES ASSUME CommandInit PROVE CommandInv
  OBVIOUS
<1>1. RunTypes
  BY CommandAssumption DEF CommandInit, RunTypes, Quiet
<1>2. DocsOK
  BY EmptyDocument DEF CommandInit, DocsOK
<1>3. InProgress /\ JobsOK /\ OwedToUser
  BY DEF CommandInit, InProgress, JobsOK, Resting, OwedToUser, RestoredAsSaved, IntactAccepted, EditedKeptOut,
         NoSilentLoss, IncompleteIsTold, Finished
<1>. QED BY <1>1, <1>2, <1>3, Parts

LEMMA StepKeepsCommand ==
  ASSUME CommandInv, [CommandNext]_commandVars
  PROVE  CommandInv'
<1>1. ASSUME NEW o \in Options, RunRefused(o) \/ RunReset(o) \/ RunList(o) \/ RunSave(o) \/ RunRestore(o)
      PROVE  CommandInv'
  BY <1>1, BeginKeeps, RunSaveKeeps
<1>2. CASE JobNext
  BY <1>2, AdmittedKeeps, GroupBeginsKeeps, ResetsKeeps, FeatureRestoredKeeps, FailureKeeps, AnswersKeep,
     DaemonEndsKeeps DEF JobNext
<1>3. CASE UNCHANGED commandVars
  <2>1. RunTypes /\ DocsOK /\ InProgress /\ JobsOK /\ OwedToUser
    BY Parts
  <2>2. /\ tool' = tool /\ option' = option /\ groupList' = groupList /\ doc' = doc /\ shown' = shown
        /\ exit' = exit /\ device' = device /\ before' = before /\ jobs' = jobs /\ alone' = alone
        /\ turns' = turns
    BY <1>3 DEF commandVars
  <2>3. RunTypes' /\ DocsOK'
    BY <2>1, <2>2, DocsStand DEF RunTypes
  <2>4. /\ Source' = Source /\ Refused(option)' = Refused(option) /\ AskedFor' = AskedFor
        /\ Resting' = Resting /\ KeptOut' = KeptOut /\ \A op : Finished(op)' = Finished(op)
        /\ \A j : Held(j)' = Held(j) /\ \A d : Refusal(d)' = Refusal(d)
    BY <2>2 DEF Source, Refused, AskedFor, Resting, KeptOut, Finished, Held, Refusal
  <2>5. InProgress' /\ JobsOK'
    BY <2>1, <2>2, <2>4 DEF InProgress, JobsOK
  <2>6. OwedToUser'
    BY <2>1, <2>2, <2>4 DEF OwedToUser, RestoredAsSaved, IntactAccepted, EditedKeptOut, NoSilentLoss,
                            IncompleteIsTold
  <2>. QED BY <2>3, <2>5, <2>6, PartsNext
<1>. QED BY <1>1, <1>2, <1>3, ListKeeps, SaveEnds, ReadKeeps, RequestKeeps, GivingUpKeeps, BetweenKeeps
     DEF CommandNext

-----------------------------------------------------------------------------
(* Theorems. *)

(* The tool, the file and the device agree with each other in every state, for *)
(* any number of runs of fty-srr-cmd and whatever happens between them.        *)
THEOREM CommandInvariant == CommandSpec => []CommandInv
<1>1. CommandInv /\ [CommandNext]_commandVars => CommandInv'
  BY StepKeepsCommand
<1>. QED BY InitCommand, <1>1, PTL DEF CommandSpec

(* The variables of the tool keep their types; in particular nothing unreadable *)
(* gets onto the device through a file.                                       *)
THEOREM CommandTypeCorrect == CommandSpec => []CommandTypeOK
<1>1. CommandInv => CommandTypeOK
  BY DEF CommandInv
<1>. QED BY <1>1, CommandInvariant, PTL

(* opSave and later opRestore of a file whose group nobody has changed: the     *)
(* group, if reported restored, is what it was.                               *)
THEOREM SavedComesBack == CommandSpec => []RestoredAsSaved
<1>1. CommandInv => RestoredAsSaved
  BY DEF CommandInv
<1>. QED BY <1>1, CommandInvariant, PTL

(* checkDataIntegrity never refuses what evalDataIntegrity has let out and      *)
(* nobody has changed, whatever else the restore of it may fail of.             *)
THEOREM IntactComesIn == CommandSpec => []IntactAccepted
<1>1. CommandInv => IntactAccepted
  BY DEF CommandInv
<1>. QED BY <1>1, CommandInvariant, PTL

(* ... and without force never lets in what somebody has changed.              *)
THEOREM EditedStaysOut == CommandSpec => []EditedKeptOut
<1>1. CommandInv => EditedKeptOut
  BY DEF CommandInv
<1>. QED BY <1>1, CommandInvariant, PTL

(* A save that empties the file and leaves nothing in it has printed an error.  *)
THEOREM LossIsTold == CommandSpec => []NoSilentLoss
<1>1. CommandInv => NoSilentLoss
  BY DEF CommandInv
<1>. QED BY <1>1, CommandInvariant, PTL

(* A save that has not all the groups it was to have says so.                  *)
THEOREM IncompletenessIsTold == CommandSpec => []IncompleteIsTold
<1>1. CommandInv => IncompleteIsTold
  BY DEF CommandInv
<1>. QED BY <1>1, CommandInvariant, PTL
=============================================================================
