---------------------------- MODULE StackTheorems ----------------------------
(***************************************************************************)
(* Sequences as call stacks: the head is the running activation, a step    *)
(* replaces it by a few frames, and a frame has a kind, its field k.       *)
(*                                                                         *)
(* The level of a frame is the number of frames of some kinds from it down *)
(* to the bottom of the stack: a step above it does not change it.         *)
(***************************************************************************)
EXTENDS Integers, Sequences, SequenceTheorems, FiniteSetTheorems, FunctionTheorems,
        WellFoundedInduction, TLAPS

(* A nonempty set of natural numbers has a least element.                  *)
LEMMA LeastNumber ==
    ASSUME NEW S, S \subseteq Nat, S # {}
    PROVE  \E x \in S : \A y \in S : x <= y
<1>. DEFINE R == OpToRel(<, Nat)
<1>1. IsWellFoundedOn(R, Nat) BY NatLessThanWellFounded
<1>2. \A x, y \in Nat : <<y, x>> \in R <=> y < x BY DEF OpToRel
<1>. HIDE DEF R
<1>3. PICK x \in S : \A y \in S : <<y, x>> \notin R BY <1>1, WFMin
<1>4. ASSUME NEW y \in S PROVE x <= y
  <2>1. ~(y < x) BY <1>2, <1>3
  <2>. QED BY <2>1
<1>. QED BY <1>4

(* The stack t after a step that replaces the head of s by the frames fs.  *)
LEMMA Replaced ==
    ASSUME NEW S, NEW s \in Seq(S), s # <<>>, NEW fs \in Seq(S), NEW t, t = fs \o Tail(s)
    PROVE  /\ t \in Seq(S)
           /\ Len(s) \in Nat \ {0} /\ Len(fs) \in Nat /\ Len(t) = Len(fs) + Len(s) - 1
           /\ DOMAIN s = 1 .. Len(s) /\ DOMAIN fs = 1 .. Len(fs) /\ DOMAIN t = 1 .. Len(t)
           /\ Head(s) = s[1]
           /\ \A i \in 1 .. Len(fs) : t[i] = fs[i]
           /\ \A i \in Len(fs) + 1 .. Len(t) : t[i] = s[i - Len(fs) + 1]
<1>1. Tail(s) \in Seq(S) /\ Len(Tail(s)) = Len(s) - 1
      /\ \A i \in 1 .. Len(Tail(s)) : Tail(s)[i] = s[i + 1]
  BY HeadTailProperties
<1>2. /\ t \in Seq(S) /\ Len(t) = Len(fs) + Len(Tail(s))
      /\ \A i \in 1 .. Len(fs) + Len(Tail(s)) :
            t[i] = IF i <= Len(fs) THEN fs[i] ELSE Tail(s)[i - Len(fs)]
  BY <1>1, ConcatProperties
<1>3. Len(s) \in Nat \ {0} /\ Len(fs) \in Nat /\ Head(s) = s[1]
      /\ DOMAIN s = 1 .. Len(s) /\ DOMAIN fs = 1 .. Len(fs) /\ DOMAIN t = 1 .. Len(t)
  BY <1>2, EmptySeq, LenProperties
<1>4. \A i \in 1 .. Len(fs) : t[i] = fs[i] BY <1>1, <1>2, <1>3
<1>5. ASSUME NEW i \in Len(fs) + 1 .. Len(t) PROVE t[i] = s[i - Len(fs) + 1]
  <2>1. i - Len(fs) \in 1 .. Len(Tail(s)) BY <1>1, <1>2, <1>3
  <2>2. t[i] = Tail(s)[i - Len(fs)] BY <1>1, <1>2, <1>3
  <2>. QED BY <1>1, <2>1, <2>2
<1>. QED BY <1>1, <1>2, <1>3, <1>4, <1>5

(* The stack s becomes t: what was below the head is d places further on.   *)
Steps(S, s, fs, t, d) ==
    s \in Seq(S) /\ s # <<>> /\ fs \in Seq(S) /\ t = fs \o Tail(s) /\ d = Len(fs) - 1

(* The frames of t.                                                        *)
LEMMA Shifted ==
    ASSUME NEW S, NEW s, NEW fs, NEW t, NEW d, Steps(S, s, fs, t, d)
    PROVE  /\ s \in Seq(S) /\ fs \in Seq(S) /\ t \in Seq(S)
           /\ Len(s) \in Nat \ {0} /\ d \in Int /\ d + 1 \in Nat /\ Len(fs) = d + 1
           /\ Len(t) = Len(s) + d
           /\ DOMAIN s = 1 .. Len(s) /\ DOMAIN t = 1 .. Len(s) + d /\ DOMAIN fs = 1 .. d + 1
           /\ Head(s) = s[1]
           /\ \A i \in 1 .. d + 1 : t[i] = fs[i]
           /\ \A i \in 2 .. Len(s) : t[i + d] = s[i]
<1>. DEFINE n == Len(s)
<1>0. s \in Seq(S) /\ fs \in Seq(S) /\ s # <<>> /\ t = fs \o Tail(s) /\ d = Len(fs) - 1 BY DEF Steps
<1>1. /\ t \in Seq(S)
      /\ n \in Nat \ {0} /\ Len(fs) \in Nat /\ Len(t) = Len(fs) + n - 1
      /\ DOMAIN s = 1 .. n /\ DOMAIN fs = 1 .. Len(fs) /\ DOMAIN t = 1 .. Len(t)
      /\ Head(s) = s[1]
      /\ \A i \in 1 .. Len(fs) : t[i] = fs[i]
      /\ \A i \in Len(fs) + 1 .. Len(t) : t[i] = s[i - Len(fs) + 1]
  BY <1>0, Replaced
<1>. HIDE DEF n
<1>2. d \in Int /\ d + 1 = Len(fs) /\ n + d = Len(t) BY <1>0, <1>1
<1>3. ASSUME NEW i \in 2 .. n PROVE t[i + d] = s[i]
  <2>1. i + d \in Len(fs) + 1 .. Len(t) /\ i + d - Len(fs) + 1 = i BY <1>0, <1>1, <1>2
  <2>. DEFINE x == i + d
  <2>. HIDE DEF x
  <2>2. x \in Len(fs) + 1 .. Len(t) /\ x - Len(fs) + 1 = i BY <1>0, <1>1, <1>2, <2>1 DEF x
  <2>3. t[x] = s[x - Len(fs) + 1] BY <1>1, <2>2
  <2>. QED BY <2>2, <2>3 DEF x
<1>. QED BY <1>0, <1>1, <1>2, <1>3 DEF n

-----------------------------------------------------------------------------
(* Levels.                                                                 *)
At(s, K)         == {j \in DOMAIN s : s[j].k \in K}
LevelIn(s, j, K) == Cardinality({i \in At(s, K) : i >= j})

(* A set of numbers is as large as the same numbers d further on.          *)
LEMMA ShiftedSet ==
    ASSUME NEW A, A \subseteq Int, IsFiniteSet(A), NEW d \in Int
    PROVE  LET B == {i + d : i \in A} IN IsFiniteSet(B) /\ Cardinality(B) = Cardinality(A)
<1>. DEFINE B == {i + d : i \in A}
            m == [i \in A |-> i + d]
<1>1. \A i, j \in A : i + d = j + d => i = j OBVIOUS
<1>2. m \in Bijection(A, B)
  <2>1. m \in [A -> B] OBVIOUS
  <2>2. \A i, j \in A : m[i] = m[j] => i = j BY <1>1
  <2>3. \A x \in B : \E j \in A : m[j] = x OBVIOUS
  <2>. HIDE DEF m, B
  <2>. QED BY <2>1, <2>2, <2>3, Fun_IsBij
<1>. HIDE DEF m, B
<1>3. ExistsBijection(A, B) BY <1>2 DEF ExistsBijection
<1>4. IsFiniteSet(B) /\ Cardinality(B) = Cardinality(A) BY <1>3, FS_Bijection
<1>. QED BY <1>4 DEF B

(* The frames of a kind are finitely many, and so are those from one on.   *)
LEMMA LevelType ==
    ASSUME NEW S, NEW s \in Seq(S), NEW K, NEW j
    PROVE  /\ At(s, K) \subseteq 1 .. Len(s)
           /\ IsFiniteSet(At(s, K)) /\ IsFiniteSet({i \in At(s, K) : i >= j})
           /\ Cardinality(At(s, K)) \in Nat /\ LevelIn(s, j, K) \in Nat
<1>1. Len(s) \in Nat /\ DOMAIN s = 1 .. Len(s) BY LenProperties
<1>2. IsFiniteSet(1 .. Len(s)) BY <1>1, FS_Interval
<1>3. At(s, K) \subseteq 1 .. Len(s) BY <1>1 DEF At
<1>4. IsFiniteSet(At(s, K)) BY <1>2, <1>3, FS_Subset
<1>5. IsFiniteSet({i \in At(s, K) : i >= j}) BY <1>4, FS_Subset
<1>. QED BY <1>3, <1>4, <1>5, FS_CardinalityType DEF LevelIn

(* One frame further up, the level grows by one if its kind is counted.    *)
LEMMA LevelStep ==
    ASSUME NEW S, NEW s \in Seq(S), NEW K, NEW j \in 1 .. Len(s)
    PROVE  LevelIn(s, j, K) = LevelIn(s, j + 1, K) + (IF s[j].k \in K THEN 1 ELSE 0)
<1>. DEFINE A == {i \in At(s, K) : i >= j}
            B == {i \in At(s, K) : i >= j + 1}
<1>1. /\ At(s, K) \subseteq 1 .. Len(s) /\ IsFiniteSet(A) /\ IsFiniteSet(B)
      /\ LevelIn(s, j, K) \in Nat /\ LevelIn(s, j + 1, K) \in Nat
  BY LevelType
<1>2. Len(s) \in Nat /\ DOMAIN s = 1 .. Len(s) BY LenProperties
<1>3. j \notin B BY <1>1
<1>4. CASE s[j].k \in K
  <2>1. j \in A BY <1>2, <1>4 DEF At
  <2>2. A = B \cup {j}
    <3>1. ASSUME NEW i \in A, i # j PROVE i >= j + 1 BY <1>1, <3>1
    <3>. QED BY <1>1, <2>1, <3>1
  <2>. HIDE DEF A, B
  <2>3. Cardinality(A) = Cardinality(B) + 1 BY <1>1, <1>3, <2>2, FS_AddElement
  <2>. QED BY <1>4, <2>3 DEF A, B, LevelIn
<1>5. CASE s[j].k \notin K
  <2>1. j \notin At(s, K) BY <1>5 DEF At
  <2>2. A = B
    <3>1. ASSUME NEW i \in A PROVE i >= j + 1 BY <1>1, <2>1, <3>1
    <3>2. ASSUME NEW i \in B PROVE i >= j BY <1>1, <3>2
    <3>. QED BY <3>1, <3>2
  <2>3. Cardinality(A) = Cardinality(B) BY <2>2
  <2>4. LevelIn(s, j, K) = LevelIn(s, j + 1, K) BY <2>3 DEF LevelIn
  <2>. HIDE DEF A, B
  <2>. QED BY <1>1, <1>5, <2>4
<1>. QED BY <1>4, <1>5

(* The level of the head is the number of all frames that are counted.     *)
LEMMA LevelOfHead ==
    ASSUME NEW S, NEW s \in Seq(S), NEW K
    PROVE  LevelIn(s, 1, K) = Cardinality(At(s, K))
<1>1. At(s, K) \subseteq 1 .. Len(s) /\ Len(s) \in Nat BY LevelType, LenProperties
<1>2. \A i \in At(s, K) : i >= 1 BY <1>1
<1>3. {i \in At(s, K) : i >= 1} = At(s, K) BY <1>2
<1>. QED BY <1>3 DEF LevelIn

(* A frame nearer to the bottom has no higher level; one that is counted   *)
(* counts itself.                                                          *)
LEMMA LevelOrder ==
    ASSUME NEW S, NEW s \in Seq(S), NEW K, NEW i \in Int, NEW j \in Int, i <= j
    PROVE  /\ LevelIn(s, j, K) <= LevelIn(s, i, K)
           /\ j \in At(s, K) => 1 <= LevelIn(s, j, K)
           /\ i \in At(s, K) /\ i < j => LevelIn(s, j, K) < LevelIn(s, i, K)
<1>. DEFINE A == {l \in At(s, K) : l >= i}
            B == {l \in At(s, K) : l >= j}
<1>1. /\ At(s, K) \subseteq 1 .. Len(s) /\ IsFiniteSet(A) /\ IsFiniteSet(B)
      /\ Cardinality(A) \in Nat /\ Cardinality(B) \in Nat
  BY LevelType DEF LevelIn
<1>2. B \subseteq A
  <2>1. \A l \in At(s, K) : l \in Int BY <1>1
  <2>. QED BY <2>1
<1>3. Cardinality(B) <= Cardinality(A) BY <1>1, <1>2, FS_Subset
<1>4. ASSUME j \in At(s, K) PROVE 1 <= Cardinality(B)
  <2>1. j \in B BY <1>4
  <2>2. Cardinality(B) # 0 BY <1>1, <2>1, FS_EmptySet
  <2>. QED BY <1>1, <2>2
<1>5. ASSUME i \in At(s, K), i < j PROVE Cardinality(B) < Cardinality(A)
  <2>1. i \in A /\ i \notin B BY <1>5
  <2>2. B # A BY <2>1
  <2>3. Cardinality(B) # Cardinality(A) BY <1>1, <1>2, <2>2, FS_Subset
  <2>. QED BY <1>1, <1>3, <2>3
<1>. QED BY <1>3, <1>4, <1>5 DEF LevelIn

(* A step changes the levels of the frames at the top alone.               *)
LEMMA LevelsAfter ==
    ASSUME NEW S, NEW s, NEW fs, NEW t, NEW d, Steps(S, s, fs, t, d), NEW K
    PROVE  /\ LevelIn(s, 2, K) \in Nat
           /\ \A j \in 2 .. Len(s) + 1 : LevelIn(t, j + d, K) = LevelIn(s, j, K)
           /\ Cardinality(At(s, K)) = LevelIn(s, 2, K) + (IF s[1].k \in K THEN 1 ELSE 0)
           /\ Cardinality(At(t, K)) = LevelIn(s, 2, K) + Cardinality(At(fs, K))
<1>. DEFINE n == Len(s)
<1>1. /\ s \in Seq(S) /\ fs \in Seq(S) /\ t \in Seq(S) /\ n \in Nat \ {0}
      /\ d \in Int /\ d + 1 \in Nat /\ Len(fs) = d + 1
      /\ DOMAIN s = 1 .. n /\ DOMAIN t = 1 .. n + d /\ DOMAIN fs = 1 .. d + 1
      /\ \A i \in 1 .. d + 1 : t[i] = fs[i]
      /\ \A i \in 2 .. n : t[i + d] = s[i]
  BY Shifted
<1>. HIDE DEF n
<1>2. ASSUME NEW j \in 2 .. n + 1 PROVE LevelIn(t, j + d, K) = LevelIn(s, j, K)
  <2>. DEFINE A == {i \in At(s, K) : i >= j}
              B == {i \in At(t, K) : i >= j + d}
  <2>1. A \subseteq Int /\ IsFiniteSet(A)
    <3>1. At(s, K) \subseteq 1 .. Len(s) /\ IsFiniteSet(A) BY <1>1, LevelType
    <3>. QED BY <3>1
  <2>5. j \in Int /\ 2 <= j /\ n \in Int /\ d \in Int BY <1>1
  <2>2. B = {i + d : i \in A}
    <3>1. ASSUME NEW x \in B PROVE \E i \in A : x = i + d
      <4>1. x \in 1 .. n + d /\ t[x].k \in K /\ x >= j + d BY <1>1 DEF At
      <4>2. x - d \in 2 .. n /\ x - d >= j /\ (x - d) + d = x
        <5>1. x \in Int /\ x <= n + d /\ x >= j + d BY <1>1, <4>1
        <5>. HIDE DEF A, B
        <5>. QED BY <2>5, <5>1
      <4>4. t[(x - d) + d] = s[x - d] BY <1>1, <4>2
      <4>5. s[x - d].k \in K /\ x - d \in DOMAIN s BY <1>1, <4>1, <4>2, <4>4
      <4>3. x - d \in A BY <4>2, <4>5 DEF At
      <4>. QED BY <4>2, <4>3
    <3>2. ASSUME NEW i \in A PROVE i + d \in B
      <4>1. i \in 1 .. n /\ s[i].k \in K /\ i >= j BY <1>1 DEF At
      <4>2. i \in 2 .. n /\ i + d \in 1 .. n + d /\ i + d >= j + d BY <1>1, <4>1
      <4>. QED BY <1>1, <4>1, <4>2 DEF At
    <3>. QED BY <3>1, <3>2
  <2>. HIDE DEF A, B
  <2>3. Cardinality(B) = Cardinality(A) BY <1>1, <2>1, <2>2, ShiftedSet
  <2>. QED BY <2>3 DEF A, B, LevelIn
<1>3. /\ LevelIn(s, 2, K) \in Nat /\ LevelIn(s, 1, K) = Cardinality(At(s, K))
      /\ LevelIn(s, 1, K) = LevelIn(s, 2, K) + (IF s[1].k \in K THEN 1 ELSE 0)
  <2>1. 1 \in 1 .. Len(s) /\ 1 + 1 = 2 BY <1>1 DEF n
  <2>2. LevelIn(s, 2, K) \in Nat BY <1>1, LevelType
  <2>3. LevelIn(s, 1, K) = Cardinality(At(s, K)) BY <1>1, LevelOfHead
  <2>4. LevelIn(s, 1, K) = LevelIn(s, 1 + 1, K) + (IF s[1].k \in K THEN 1 ELSE 0)
    <3>1. s \in Seq(S) /\ 1 \in 1 .. Len(s) BY <1>1, <2>1
    <3>. QED BY <3>1, LevelStep
  <2>. QED BY <2>1, <2>2, <2>3, <2>4
<1>4. Cardinality(At(t, K)) = LevelIn(s, 2, K) + Cardinality(At(fs, K))
  <2>. DEFINE B == {i \in At(t, K) : i >= 2 + d}
  <2>1. 2 \in 2 .. n + 1 BY <1>1
  <2>2. Cardinality(B) = LevelIn(s, 2, K) BY <1>2, <2>1 DEF LevelIn
  <2>3. IsFiniteSet(At(fs, K)) /\ At(fs, K) \subseteq 1 .. d + 1 BY <1>1, LevelType
  <2>4. IsFiniteSet(B) /\ At(t, K) \subseteq Int
    <3>1. At(t, K) \subseteq 1 .. Len(t) /\ IsFiniteSet(At(t, K)) BY <1>1, LevelType
    <3>2. IsFiniteSet(B) BY <3>1, FS_Subset
    <3>. QED BY <3>1, <3>2
  <2>5. At(t, K) = B \cup At(fs, K)
    <3>1. ASSUME NEW i \in At(t, K), i \notin B PROVE i \in At(fs, K)
      <4>1. i \in 1 .. n + d /\ t[i].k \in K /\ ~(i >= 2 + d) BY <1>1, <3>1 DEF At
      <4>2. i \in 1 .. d + 1 BY <1>1, <4>1
      <4>. QED BY <1>1, <4>1, <4>2 DEF At
    <3>2. ASSUME NEW i \in At(fs, K) PROVE i \in At(t, K)
      <4>1. i \in 1 .. d + 1 /\ fs[i].k \in K BY <1>1 DEF At
      <4>2. i \in 1 .. n + d BY <1>1, <4>1
      <4>. QED BY <1>1, <4>1, <4>2 DEF At
    <3>. QED BY <3>1, <3>2
  <2>6. B \cap At(fs, K) = {}
    <3>1. \A i \in At(fs, K) : ~(i >= 2 + d) BY <1>1, <2>3
    <3>. QED BY <3>1
  <2>. HIDE DEF B
  <2>7. Cardinality(B \cap At(fs, K)) = 0 BY <2>6, FS_EmptySet
  <2>8. Cardinality(At(fs, K)) \in Nat /\ Cardinality(B) \in Nat BY <2>3, <2>4, FS_CardinalityType
  <2>9. Cardinality(At(t, K)) = Cardinality(B) + Cardinality(At(fs, K)) - Cardinality(B \cap At(fs, K))
    BY <2>3, <2>4, <2>5, FS_Union
  <2>. QED BY <2>2, <2>7, <2>8, <2>9
<1>. QED BY <1>2, <1>3, <1>4 DEF n

(* The case of frames of which the last alone may be counted.              *)
LEMMA LevelOfLast ==
    ASSUME NEW S, NEW s, NEW fs, NEW t, NEW d, Steps(S, s, fs, t, d), NEW K,
           \A i \in DOMAIN fs : i <= d => fs[i].k \notin K
    PROVE  /\ fs = <<>> \/ fs[d + 1].k \notin K => Cardinality(At(fs, K)) = 0
           /\ fs # <<>> /\ fs[d + 1].k \in K =>
                 Cardinality(At(fs, K)) = 1 /\ LevelIn(t, d + 1, K) = LevelIn(s, 2, K) + 1
<1>1. /\ s \in Seq(S) /\ fs \in Seq(S) /\ t \in Seq(S) /\ Len(s) \in Nat \ {0}
      /\ d \in Int /\ d + 1 \in Nat /\ Len(fs) = d + 1
      /\ Len(t) = Len(s) + d
      /\ DOMAIN fs = 1 .. d + 1
      /\ \A i \in 1 .. d + 1 : t[i] = fs[i]
  BY Shifted
<1>2. \A i \in 1 .. d + 1 : i # d + 1 => i <= d BY <1>1
<1>3. At(fs, K) \subseteq {d + 1} BY <1>1, <1>2 DEF At
<1>4. ASSUME fs = <<>> \/ fs[d + 1].k \notin K PROVE Cardinality(At(fs, K)) = 0
  <2>1. d + 1 \notin At(fs, K) BY <1>4, <1>1, EmptySeq DEF At
  <2>2. At(fs, K) = {} BY <1>3, <2>1
  <2>. QED BY <2>2, FS_EmptySet
<1>5. ASSUME fs # <<>>, fs[d + 1].k \in K
      PROVE  Cardinality(At(fs, K)) = 1 /\ LevelIn(t, d + 1, K) = LevelIn(s, 2, K) + 1
  <2>1. d + 1 \in 1 .. d + 1 /\ d + 1 \in 1 .. Len(t) BY <1>1, <1>5, EmptySeq
  <2>2. At(fs, K) = {d + 1} BY <1>1, <1>3, <1>5, <2>1 DEF At
  <2>3. Cardinality(At(fs, K)) = 1 BY <2>2, FS_Singleton
  <2>4. LevelIn(t, d + 1, K) = LevelIn(t, (d + 1) + 1, K) + 1 BY <1>1, <1>5, <2>1, LevelStep
  <2>5. 2 \in 2 .. Len(s) + 1 /\ 2 + d = (d + 1) + 1 BY <1>1
  <2>6. LevelIn(t, 2 + d, K) = LevelIn(s, 2, K)
    <3>1. \A j \in 2 .. Len(s) + 1 : LevelIn(t, j + d, K) = LevelIn(s, j, K) BY LevelsAfter
    <3>. QED BY <2>5, <3>1
  <2>. QED BY <2>3, <2>4, <2>5, <2>6
<1>. QED BY <1>4, <1>5
=============================================================================
