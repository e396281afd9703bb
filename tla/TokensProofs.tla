---------------------------- MODULE TokensProofs ----------------------------
(***************************************************************************)
(* What strtok makes of a text of any length: the n-th field starts at the *)
(* n-th start, different fields at different starts. What Those selects,   *)
(* which fields a text has that is put together from parts, what           *)
(* FlattenSeq makes of a few lines, and which texts are regular.           *)
(*                                                                         *)
(* Fields, lines and what Those selects are told by ranks: the n-th place  *)
(* of a set of places is the one with n - 1 before it.                     *)
(***************************************************************************)
EXTENDS Tokens, FiniteSetTheorems, SequenceTheorems, TLAPS

Rank(S, i) == Cardinality({j \in S : j <= i})

\* The rank of an element is one of the numbers up to the size of the set.
LEMMA RankType ==
  ASSUME NEW S \in SUBSET Int, IsFiniteSet(S), NEW i \in S
  PROVE  Rank(S, i) \in 1 .. Cardinality(S)
<1> DEFINE T == {j \in S : j <= i}
<1>1. IsFiniteSet(T) /\ Cardinality(T) <= Cardinality(S)
  BY FS_Subset
<1>2. i \in T
  OBVIOUS
<1>3. Cardinality(T) \in Nat /\ Cardinality(S) \in Nat
  BY <1>1, FS_CardinalityType
<1>4. Cardinality(T) # 0
  BY <1>1, <1>2, FS_EmptySet
<1> QED BY <1>1, <1>3, <1>4 DEF Rank

\* A greater element has a greater rank.
LEMMA RankGrows ==
  ASSUME NEW S \in SUBSET Int, IsFiniteSet(S), NEW i \in S, NEW j \in S, i < j
  PROVE  Rank(S, i) < Rank(S, j)
<1> DEFINE T == {k \in S : k <= i}
           U == {k \in S : k <= j}
<1>1. IsFiniteSet(U)
  BY FS_Subset
<1>2. T \in SUBSET U /\ j \in U /\ j \notin T
  <2>1. \A k \in S : k <= i => k <= j
    OBVIOUS
  <2>2. j <= j /\ ~(j <= i)
    OBVIOUS
  <2> QED BY <2>1, <2>2
<1> HIDE DEF T, U
<1>3. Cardinality(T) <= Cardinality(U) /\ Cardinality(T) # Cardinality(U) /\ IsFiniteSet(T)
  BY <1>1, <1>2, FS_Subset
<1>4. Cardinality(T) \in Nat /\ Cardinality(U) \in Nat
  BY <1>1, <1>3, FS_CardinalityType
<1>5. Cardinality(T) < Cardinality(U)
  BY <1>3, <1>4
<1> QED BY <1>5 DEF Rank, T, U

\* Every number up to the size of the set is the rank of one element.
LEMMA RankOnce ==
  ASSUME NEW S \in SUBSET Int, IsFiniteSet(S), NEW n \in 1 .. Cardinality(S)
  PROVE  \E i \in S : Rank(S, i) = n /\ \A j \in S : Rank(S, j) = n => j = i
<1> DEFINE T == 1 .. Cardinality(S)
           f == [i \in S |-> Rank(S, i)]
<1>1. Cardinality(S) \in Nat
  BY FS_CardinalityType
<1>2. IsFiniteSet(T) /\ Cardinality(T) = Cardinality(S)
  BY <1>1, FS_Interval
<1>3. \A i, j \in S : Rank(S, i) = Rank(S, j) => i = j
  <2> SUFFICES ASSUME NEW i \in S, NEW j \in S, Rank(S, i) = Rank(S, j) PROVE i = j
    OBVIOUS
  <2>1. Rank(S, i) \in Int /\ Rank(S, j) \in Int
    BY RankType
  <2>2. ~(i < j) /\ ~(j < i)
    BY <2>1, RankGrows
  <2> QED BY <2>2
<1>4. f \in Injection(S, T)
  BY <1>3, RankType DEF Injection, IsInjective
<1>5. f \in Surjection(S, T)
  BY <1>2, <1>4, FS_Injection
<1>6. PICK i \in S : f[i] = n
  BY <1>5 DEF Surjection
<1> QED BY <1>3, <1>6

-----------------------------------------------------------------------------
\* A text has finitely many starts.
LEMMA StartsType ==
  ASSUME NEW W, NEW s \in Seq(W), NEW d
  PROVE  /\ Starts(s, d) \in SUBSET (1 .. Len(s))
         /\ Starts(s, d) \in SUBSET Int
         /\ IsFiniteSet(Starts(s, d))
<1>1. Starts(s, d) \in SUBSET (1 .. Len(s))
  BY DEF Starts
<1>2. IsFiniteSet(1 .. Len(s))
  BY FS_Interval
<1> QED BY <1>1, <1>2, FS_Subset

\* The n-th field is the one at the start of rank n.
LEMMA FieldOfRank ==
  ASSUME NEW W, NEW s \in Seq(W), NEW d, NEW i \in Starts(s, d)
  PROVE  /\ Rank(Starts(s, d), i) \in 1 .. Cardinality(Starts(s, d))
         /\ Fields(s, d)[Rank(Starts(s, d), i)] = FieldAt(s, d, i)
<1> DEFINE S == Starts(s, d)
<1>1. S \in SUBSET Int /\ IsFiniteSet(S)
  BY StartsType
<1>2. Rank(S, i) \in 1 .. Cardinality(S)
  BY <1>1, RankType
<1>3. \A j \in S : Rank(S, j) = Rank(S, i) => j = i
  BY <1>1, <1>2, RankOnce
<1>4. Nth(S, Rank(S, i)) = i
  BY <1>3 DEF Nth, Rank
<1>5. Fields(s, d) = [n \in 1 .. Cardinality(S) |-> FieldAt(s, d, Nth(S, n))]
  BY DEF Fields
<1> QED BY <1>2, <1>4, <1>5

\* Every field is at some start.
LEMMA FieldHasStart ==
  ASSUME NEW W, NEW s \in Seq(W), NEW d, NEW n \in 1 .. Cardinality(Starts(s, d))
  PROVE  \E i \in Starts(s, d) :
           Rank(Starts(s, d), i) = n /\ Fields(s, d)[n] = FieldAt(s, d, i)
<1>1. PICK i \in Starts(s, d) : Rank(Starts(s, d), i) = n
  BY StartsType, RankOnce
<1>2. Fields(s, d)[n] = FieldAt(s, d, i)
  BY <1>1, FieldOfRank
<1> QED BY <1>1, <1>2

\* A field is not empty, holds no delimiter, and ends at one or at the end of
\* the text: there is no other start in it.
LEMMA FieldAtIs ==
  ASSUME NEW W, NEW s \in Seq(W), NEW d, NEW i \in Starts(s, d)
  PROVE  /\ FieldAt(s, d, i) \in Seq(W)
         /\ Len(FieldAt(s, d, i)) \in 1 .. Len(s) + 1 - i
         /\ FieldAt(s, d, i)[1] = s[i]
         /\ FieldAt(s, d, i) = SubSeq(s, i, i + Len(FieldAt(s, d, i)) - 1)
         /\ \A k \in i .. i + Len(FieldAt(s, d, i)) - 1 : s[k] # d
         /\ i + Len(FieldAt(s, d, i)) <= Len(s) => s[i + Len(FieldAt(s, d, i))] = d
<1> DEFINE ends == {j \in i .. Len(s) : \A k \in i .. j : s[k] # d}
           n == Cardinality(ends)
<1>1. i \in 1 .. Len(s) /\ s[i] # d /\ Len(s) \in Nat
  BY DEF Starts
<1>2. IsFiniteSet(i .. Len(s)) /\ Cardinality(i .. Len(s)) = Len(s) - i + 1
  BY <1>1, FS_Interval
<1>3. IsFiniteSet(ends) /\ n <= Len(s) - i + 1
  BY <1>2, FS_Subset
<1>4. n \in Nat
  BY <1>3, FS_CardinalityType
<1>5. i \in ends
  BY <1>1
<1>6. n # 0
  BY <1>3, <1>5, FS_EmptySet
<1>7. ends \in SUBSET (i .. i + n - 1)
  <2> SUFFICES ASSUME NEW m \in ends PROVE m <= i + n - 1
    BY <1>1, <1>4
  <2>1. i .. m \in SUBSET ends
    BY <1>1
  <2>2. Cardinality(i .. m) <= n
    BY <1>3, <2>1, FS_Subset
  <2>3. Cardinality(i .. m) = m - i + 1
    BY <1>1, FS_Interval
  <2> QED BY <1>1, <1>4, <2>2, <2>3
<1> HIDE DEF n
<1>8. IsFiniteSet(i .. i + n - 1) /\ Cardinality(i .. i + n - 1) = n
  <2>1. i \in Int /\ i + n - 1 \in Int
    BY <1>1, <1>4
  <2>2. /\ IsFiniteSet(i .. i + n - 1)
        /\ Cardinality(i .. i + n - 1) =
             IF i > i + n - 1 THEN 0 ELSE (i + n - 1) - i + 1
    BY <2>1, FS_Interval
  <2> QED BY <1>1, <1>4, <2>2
<1>9. ends = i .. i + n - 1
  BY <1>7, <1>8, FS_Subset DEF n
<1>10. \A k \in i .. i + n - 1 : s[k] # d
  BY <1>1, <1>9
<1>11. FieldAt(s, d, i) = SubSeq(s, i, i + n - 1)
  BY DEF FieldAt, n
<1>12. i + n - 1 \in i .. Len(s)
  BY <1>1, <1>3, <1>4, <1>6
<1>13. /\ SubSeq(s, i, i + n - 1) \in Seq(W)
       /\ Len(SubSeq(s, i, i + n - 1)) = n
       /\ SubSeq(s, i, i + n - 1)[1] = s[i]
  <2> DEFINE e == i + n - 1
  <2>1. s \in Seq(W) /\ i \in 1 .. Len(s) /\ e \in i .. Len(s) /\ e - i + 1 = n
    BY <1>1, <1>4, <1>12
  <2> HIDE DEF e
  <2>2. /\ SubSeq(s, i, e) \in Seq(W)
        /\ Len(SubSeq(s, i, e)) = e - i + 1
        /\ SubSeq(s, i, e)[1] = s[i]
    BY ONLY <2>1
  <2> QED BY ONLY <2>1, <2>2 DEF e
<1>14. n \in 1 .. Len(s) + 1 - i
  BY <1>1, <1>3, <1>4, <1>6
<1>15. i + n <= Len(s) => s[i + n] = d
  <2> SUFFICES ASSUME i + n <= Len(s), s[i + n] # d PROVE FALSE
    OBVIOUS
  <2>1. \A k \in i .. i + n : k \in i .. i + n - 1 \/ k = i + n
    BY <1>1, <1>4
  <2>2. i + n \in ends
    BY <1>1, <1>4, <1>10, <2>1
  <2> QED BY <1>1, <1>4, <1>9, <2>2
<1> QED BY <1>10, <1>11, <1>13, <1>14, <1>15

\* The same with a name: the field that starts at i is the n words from there.
IsFieldAt(s, d, i, n) ==
  /\ n \in 1 .. Len(s) + 1 - i
  /\ FieldAt(s, d, i) = SubSeq(s, i, i + n - 1)
  /\ \A k \in i .. i + n - 1 : s[k] # d
  /\ i + n <= Len(s) => s[i + n] = d

LEMMA FieldAtSpan ==
  ASSUME NEW W, NEW s \in Seq(W), NEW d, NEW i \in Starts(s, d)
  PROVE  IsFieldAt(s, d, i, Len(FieldAt(s, d, i)))
  BY FieldAtIs DEF IsFieldAt

\* The fields are a sequence.
LEMMA FieldsType ==
  ASSUME NEW W, NEW s \in Seq(W), NEW d
  PROVE  /\ Fields(s, d) \in Seq(Seq(W))
         /\ Len(Fields(s, d)) = Cardinality(Starts(s, d))
<1>1. Cardinality(Starts(s, d)) \in Nat
  BY StartsType, FS_CardinalityType
<1>2. \A n \in 1 .. Cardinality(Starts(s, d)) : Fields(s, d)[n] \in Seq(W)
  BY FieldHasStart, FieldAtIs
<1>3. DOMAIN Fields(s, d) = 1 .. Cardinality(Starts(s, d))
  BY DEF Fields
<1>4. Fields(s, d) = [n \in 1 .. Cardinality(Starts(s, d)) |-> Fields(s, d)[n]]
  BY DEF Fields
<1>5. Fields(s, d) \in [1 .. Cardinality(Starts(s, d)) -> Seq(W)]
  BY <1>2, <1>4
<1> QED BY <1>1, <1>5

-----------------------------------------------------------------------------
\* Nth finds the element of a rank.
LEMMA NthIs ==
  ASSUME NEW S \in SUBSET Int, IsFiniteSet(S), NEW n \in 1 .. Cardinality(S)
  PROVE  /\ Nth(S, n) \in S /\ Rank(S, Nth(S, n)) = n
         /\ \A i \in S : Rank(S, i) = n => Nth(S, n) = i
<1>1. PICK i \in S : Rank(S, i) = n /\ \A j \in S : Rank(S, j) = n => j = i
  BY RankOnce
<1>2. Nth(S, n) = i
  BY <1>1 DEF Nth, Rank
<1> QED BY <1>1, <1>2

Moved(T, m) == {m + j : j \in T}

\* A set that is moved keeps its size.
LEMMA MovedSize ==
  ASSUME NEW T \in SUBSET Int, IsFiniteSet(T), NEW m \in Int
  PROVE  /\ Moved(T, m) \in SUBSET Int /\ IsFiniteSet(Moved(T, m))
         /\ Cardinality(Moved(T, m)) = Cardinality(T)
<1> DEFINE f == [j \in T |-> m + j]
<1>1. f \in Bijection(T, Moved(T, m))
  <2>1. \A j \in T : m + j \in Moved(T, m)
    BY DEF Moved
  <2>2. \A i, j \in T : m + i = m + j => i = j
    OBVIOUS
  <2>3. \A k \in Moved(T, m) : \E j \in T : f[j] = k
    BY DEF Moved
  <2> QED BY <2>1, <2>2, <2>3 DEF Bijection, Injection, Surjection, IsInjective
<1>2. ExistsBijection(T, Moved(T, m))
  BY <1>1 DEF ExistsBijection
<1> QED BY <1>2, FS_Bijection DEF Moved

\* Two sets of places, of a text and of the one behind it.
LEMMA RankJoin ==
  ASSUME NEW m \in Nat, NEW S \in SUBSET (1 .. m), IsFiniteSet(S),
         NEW T \in SUBSET Int, IsFiniteSet(T), \A j \in T : j > 0
  PROVE  LET U == S \cup Moved(T, m)
         IN  /\ U \in SUBSET Int /\ IsFiniteSet(U)
             /\ Cardinality(U) = Cardinality(S) + Cardinality(T)
             /\ \A i \in S : Rank(U, i) = Rank(S, i)
             /\ \A j \in T : Rank(U, m + j) = Cardinality(S) + Rank(T, j)
<1> DEFINE U == S \cup Moved(T, m)
<1>1. ASSUME NEW R \in SUBSET T
      PROVE  /\ IsFiniteSet(R) /\ IsFiniteSet(S \cup Moved(R, m))
             /\ Cardinality(S \cup Moved(R, m)) = Cardinality(S) + Cardinality(R)
  <2>1. IsFiniteSet(R) /\ R \in SUBSET Int
    <3>1. R \in SUBSET Int
      OBVIOUS
    <3> QED BY <3>1, FS_Subset
  <2>2. IsFiniteSet(Moved(R, m)) /\ Cardinality(Moved(R, m)) = Cardinality(R)
    BY <2>1, MovedSize
  <2>3. S \cap Moved(R, m) = {}
    BY DEF Moved
  <2>4. Cardinality({}) = 0
    BY FS_EmptySet
  <2>5. Cardinality(S) \in Nat /\ Cardinality(R) \in Nat
    BY <2>1, FS_CardinalityType
  <2>6. /\ IsFiniteSet(S \cup Moved(R, m))
        /\ Cardinality(S \cup Moved(R, m)) = Cardinality(S) + Cardinality(Moved(R, m))
                                             - Cardinality(S \cap Moved(R, m))
    BY <2>2, FS_Union
  <2>7. Cardinality(S) + Cardinality(R) - 0 = Cardinality(S) + Cardinality(R)
    BY <2>5
  <2> QED BY <2>1, <2>2, <2>3, <2>4, <2>6, <2>7
<1>2. U \in SUBSET Int
  <2>1. S \in SUBSET Int
    OBVIOUS
  <2>2. Moved(T, m) \in SUBSET Int
    BY MovedSize
  <2> QED BY <2>1, <2>2
<1>3. ASSUME NEW i \in S PROVE Rank(U, i) = Rank(S, i)
  <2>1. {k \in U : k <= i} = {k \in S : k <= i}
    BY DEF Moved
  <2> QED BY <2>1 DEF Rank
<1>4. ASSUME NEW j \in T PROVE Rank(U, m + j) = Cardinality(S) + Rank(T, j)
  <2> DEFINE R == {k \in T : k <= j}
  <2>1. {k \in U : k <= m + j} = S \cup Moved(R, m)
    <3>1. ASSUME NEW k \in S PROVE k \in U /\ k <= m + j
      OBVIOUS
    <3>2. ASSUME NEW k \in T PROVE m + k <= m + j <=> k <= j
      OBVIOUS
    <3>3. Moved(R, m) = {k \in Moved(T, m) : k <= m + j}
      BY <3>2 DEF Moved
    <3> QED BY <3>1, <3>3
  <2>2. R \in SUBSET T
    OBVIOUS
  <2> QED BY <1>1, <2>1, <2>2 DEF Rank
<1> QED BY <1>1, <1>2, <1>3, <1>4

\* Counted in both sets together, those of the first come first.
LEMMA NthJoin ==
  ASSUME NEW m \in Nat, NEW S \in SUBSET (1 .. m), IsFiniteSet(S),
         NEW T \in SUBSET Int, IsFiniteSet(T), \A j \in T : j > 0
  PROVE  LET U == S \cup Moved(T, m)
         IN  /\ \A n \in 1 .. Cardinality(S) : Nth(U, n) = Nth(S, n)
             /\ \A n \in 1 .. Cardinality(T) : Nth(U, Cardinality(S) + n) = m + Nth(T, n)
<1> DEFINE U == S \cup Moved(T, m)
<1>1. /\ U \in SUBSET Int /\ IsFiniteSet(U)
      /\ Cardinality(U) = Cardinality(S) + Cardinality(T)
      /\ \A i \in S : Rank(U, i) = Rank(S, i)
      /\ \A j \in T : Rank(U, m + j) = Cardinality(S) + Rank(T, j)
  BY RankJoin
<1>2. Cardinality(S) \in Nat /\ Cardinality(T) \in Nat
  BY FS_CardinalityType
<1>3. \A i \in S : i \in U
  OBVIOUS
<1>4. \A j \in T : m + j \in U
  BY DEF Moved
<1> HIDE DEF U
<1>5. ASSUME NEW n \in 1 .. Cardinality(S) PROVE Nth(U, n) = Nth(S, n)
  <2>1. Nth(S, n) \in S /\ Rank(S, Nth(S, n)) = n
    BY NthIs
  <2>2. Rank(U, Nth(S, n)) = n
    BY <1>1, <2>1
  <2>3. n \in 1 .. Cardinality(U)
    BY <1>1, <1>2
  <2>4. Nth(S, n) \in U
    BY <1>3, <2>1
  <2>5. \A i \in U : Rank(U, i) = n => Nth(U, n) = i
    BY <1>1, <2>3, NthIs
  <2> QED BY <2>2, <2>4, <2>5
<1>6. ASSUME NEW n \in 1 .. Cardinality(T) PROVE Nth(U, Cardinality(S) + n) = m + Nth(T, n)
  <2>1. Nth(T, n) \in T /\ Rank(T, Nth(T, n)) = n
    BY NthIs
  <2>2. Rank(U, m + Nth(T, n)) = Cardinality(S) + n
    BY <1>1, <2>1
  <2>3. Cardinality(S) + n \in 1 .. Cardinality(U)
    BY <1>1, <1>2
  <2>4. m + Nth(T, n) \in U
    BY <1>4, <2>1
  <2>5. \A i \in U : Rank(U, i) = Cardinality(S) + n => Nth(U, Cardinality(S) + n) = i
    BY <1>1, <2>3, NthIs
  <2> QED BY <2>2, <2>4, <2>5
<1> QED BY <1>5, <1>6 DEF U

-----------------------------------------------------------------------------
PlacesOf(s, S) == {i \in DOMAIN s : s[i] \in S}

\* A text has finitely many places.
LEMMA PlacesOfType ==
  ASSUME NEW W, NEW s \in Seq(W), NEW S
  PROVE  /\ PlacesOf(s, S) \in SUBSET (1 .. Len(s))
         /\ IsFiniteSet(PlacesOf(s, S)) /\ Cardinality(PlacesOf(s, S)) \in Nat
<1>1. PlacesOf(s, S) \in SUBSET (1 .. Len(s))
  BY DEF PlacesOf
<1>2. IsFiniteSet(1 .. Len(s))
  BY FS_Interval
<1> QED BY <1>1, <1>2, FS_Subset, FS_CardinalityType

\* What is found is in the text and in the set looked for.
LEMMA ThoseType ==
  ASSUME NEW W, NEW s \in Seq(W), NEW S
  PROVE  /\ Those(s, S) \in Seq(W)
         /\ \A n \in DOMAIN Those(s, S) : Those(s, S)[n] \in S
         /\ Len(Those(s, S)) = Cardinality(PlacesOf(s, S))
         /\ \A n \in 1 .. Cardinality(PlacesOf(s, S)) : Those(s, S)[n] = s[Nth(PlacesOf(s, S), n)]
         /\ Len(Those(s, S)) <= Len(s)
<1> DEFINE P == PlacesOf(s, S)
           N == Cardinality(P)
<1>1. P \in SUBSET Int /\ P \in SUBSET (1 .. Len(s)) /\ IsFiniteSet(P) /\ N \in Nat
  BY PlacesOfType
<1>2. \A n \in 1 .. N : Nth(P, n) \in P
  BY <1>1, NthIs
<1>3. \A i \in P : s[i] \in W /\ s[i] \in S
  BY DEF PlacesOf
<1>4. Those(s, S) = [n \in 1 .. N |-> s[Nth(P, n)]]
  BY DEF Those, PlacesOf
<1>5. IsFiniteSet(1 .. Len(s)) /\ Cardinality(1 .. Len(s)) = Len(s)
  <2>1. 1 \in Int /\ Len(s) \in Int /\ Len(s) \in Nat
    OBVIOUS
  <2>2. /\ IsFiniteSet(1 .. Len(s))
        /\ Cardinality(1 .. Len(s)) = IF 1 > Len(s) THEN 0 ELSE Len(s) - 1 + 1
    BY <2>1, FS_Interval
  <2> QED BY <2>1, <2>2
<1>6. N <= Len(s)
  BY <1>1, <1>5, FS_Subset
<1> HIDE DEF P, N
<1>7. Those(s, S) \in [1 .. N -> W]
  BY <1>2, <1>3, <1>4
<1>8. Those(s, S) \in Seq(W) /\ Len(Those(s, S)) = N
  BY <1>1, <1>7
<1>9. \A n \in DOMAIN Those(s, S) : Those(s, S)[n] \in S
  BY <1>2, <1>3, <1>4
<1> QED BY <1>4, <1>6, <1>8, <1>9 DEF P, N

\* One text after the other.
LEMMA ThoseConcat ==
  ASSUME NEW W, NEW a \in Seq(W), NEW b \in Seq(W), NEW S
  PROVE  Those(a \o b, S) = Those(a, S) \o Those(b, S)
<1> DEFINE c == a \o b
           A == PlacesOf(a, S)
           B == PlacesOf(b, S)
           C == PlacesOf(c, S)
<1>1. /\ c \in Seq(W) /\ Len(c) = Len(a) + Len(b) /\ Len(a) \in Nat /\ Len(b) \in Nat
      /\ \A i \in 1 .. Len(a) : c[i] = a[i]
      /\ \A i \in 1 .. Len(b) : c[Len(a) + i] = b[i]
  OBVIOUS
<1> HIDE DEF c
<1>2. /\ A \in SUBSET (1 .. Len(a)) /\ IsFiniteSet(A) /\ Cardinality(A) \in Nat
      /\ B \in SUBSET (1 .. Len(b)) /\ IsFiniteSet(B) /\ Cardinality(B) \in Nat
      /\ B \in SUBSET Int /\ \A j \in B : j > 0
  BY PlacesOfType
<1>3. C = A \cup Moved(B, Len(a))
  <2>1. ASSUME NEW i \in 1 .. Len(a) PROVE i \in C <=> i \in A
    BY <1>1 DEF PlacesOf
  <2>2. ASSUME NEW i \in 1 .. Len(b) PROVE Len(a) + i \in C <=> i \in B
    BY <1>1 DEF PlacesOf
  <2>3. C \in SUBSET (1 .. Len(a) + Len(b))
    BY <1>1, PlacesOfType
  <2>4. ASSUME NEW k \in 1 .. Len(a) + Len(b), ~(k <= Len(a))
        PROVE  \E i \in 1 .. Len(b) : k = Len(a) + i
    <3>1. k - Len(a) \in 1 .. Len(b) /\ k = Len(a) + (k - Len(a))
      BY <1>1, <2>4
    <3> QED BY <3>1
  <2> HIDE DEF A, B, C
  <2>5. ASSUME NEW k \in C PROVE k \in A \cup Moved(B, Len(a))
    <3>1. CASE k <= Len(a)
      BY <1>1, <2>1, <2>3, <3>1
    <3>2. CASE ~(k <= Len(a))
      <4>1. PICK i \in 1 .. Len(b) : k = Len(a) + i
        BY <2>3, <2>4, <3>2
      <4> QED BY <2>2, <4>1 DEF Moved
    <3> QED BY <3>1, <3>2
  <2>6. ASSUME NEW k \in A \cup Moved(B, Len(a)) PROVE k \in C
    BY <1>2, <2>1, <2>2 DEF Moved
  <2> QED BY <2>5, <2>6
<1> HIDE DEF A, B, C
<1>4. /\ Cardinality(C) = Cardinality(A) + Cardinality(B)
      /\ \A n \in 1 .. Cardinality(A) : Nth(C, n) = Nth(A, n)
      /\ \A n \in 1 .. Cardinality(B) : Nth(C, Cardinality(A) + n) = Len(a) + Nth(B, n)
  <2>1. Len(a) \in Nat
    OBVIOUS
  <2>2. Cardinality(A \cup Moved(B, Len(a))) = Cardinality(A) + Cardinality(B)
    BY <1>2, <2>1, RankJoin
  <2>3. /\ \A n \in 1 .. Cardinality(A) : Nth(A \cup Moved(B, Len(a)), n) = Nth(A, n)
        /\ \A n \in 1 .. Cardinality(B) :
             Nth(A \cup Moved(B, Len(a)), Cardinality(A) + n) = Len(a) + Nth(B, n)
    BY <1>2, <2>1, NthJoin
  <2> QED BY <1>3, <2>2, <2>3
<1>5. ASSUME NEW t \in Seq(W)
      PROVE  /\ Those(t, S) \in Seq(W) /\ Len(Those(t, S)) = Cardinality(PlacesOf(t, S))
             /\ \A n \in 1 .. Cardinality(PlacesOf(t, S)) : Those(t, S)[n] = t[Nth(PlacesOf(t, S), n)]
  BY ThoseType
<1>6. /\ Those(a, S) \in Seq(W) /\ Len(Those(a, S)) = Cardinality(A)
      /\ \A n \in 1 .. Cardinality(A) : Those(a, S)[n] = a[Nth(A, n)]
      /\ Those(b, S) \in Seq(W) /\ Len(Those(b, S)) = Cardinality(B)
      /\ \A n \in 1 .. Cardinality(B) : Those(b, S)[n] = b[Nth(B, n)]
  BY <1>5 DEF A, B
<1> DEFINE l == Those(c, S)
           r == Those(a, S) \o Those(b, S)
<1>7. /\ l \in Seq(W) /\ Len(l) = Cardinality(C)
      /\ \A n \in 1 .. Cardinality(C) : l[n] = c[Nth(C, n)]
  BY <1>1, <1>5 DEF C
<1>8. \A n \in 1 .. Cardinality(A) : Nth(A, n) \in 1 .. Len(a)
  <2>1. A \in SUBSET Int
    BY <1>2
  <2> QED BY <1>2, <2>1, NthIs
<1>9. \A n \in 1 .. Cardinality(B) : Nth(B, n) \in 1 .. Len(b)
  <2>1. B \in SUBSET Int
    BY <1>2
  <2> QED BY <1>2, <2>1, NthIs
<1>10. /\ r \in Seq(W) /\ Len(r) = Cardinality(C)
       /\ \A n \in 1 .. Cardinality(A) : r[n] = a[Nth(A, n)]
       /\ \A n \in 1 .. Cardinality(B) : r[Cardinality(A) + n] = b[Nth(B, n)]
  <2>1. r \in Seq(W) /\ Len(r) = Cardinality(A) + Cardinality(B)
    BY <1>6, ConcatProperties
  <2>2. \A n \in 1 .. Cardinality(A) + Cardinality(B) :
          r[n] = IF n <= Cardinality(A) THEN Those(a, S)[n] ELSE Those(b, S)[n - Cardinality(A)]
    <3> DEFINE x == Those(a, S)
               y == Those(b, S)
    <3>1. x \in Seq(W) /\ y \in Seq(W) /\ Len(x) = Cardinality(A) /\ Len(y) = Cardinality(B)
      BY <1>6
    <3> HIDE DEF x, y
    <3>2. \A n \in 1 .. Len(x) + Len(y) : (x \o y)[n] = IF n <= Len(x) THEN x[n] ELSE y[n - Len(x)]
      BY <3>1, ConcatProperties
    <3>3. \A n \in 1 .. Cardinality(A) + Cardinality(B) :
            (x \o y)[n] = IF n <= Cardinality(A) THEN x[n] ELSE y[n - Cardinality(A)]
      BY <3>1, <3>2
    <3> QED BY <3>3 DEF x, y
  <2>3. ASSUME NEW n \in 1 .. Cardinality(A) PROVE r[n] = a[Nth(A, n)]
    BY <1>2, <1>6, <2>2
  <2>4. ASSUME NEW n \in 1 .. Cardinality(B) PROVE r[Cardinality(A) + n] = b[Nth(B, n)]
    <3>1. /\ Cardinality(A) + n \in 1 .. Cardinality(A) + Cardinality(B)
          /\ ~(Cardinality(A) + n <= Cardinality(A)) /\ Cardinality(A) + n - Cardinality(A) = n
      BY <1>2
    <3> QED BY <1>6, <2>2, <3>1
  <2> QED BY <1>4, <2>1, <2>3, <2>4
<1> HIDE DEF l, r
<1>11. ASSUME NEW n \in 1 .. Cardinality(C) PROVE l[n] = r[n]
  <2>1. CASE n <= Cardinality(A)
    <3>1. n \in 1 .. Cardinality(A)
      BY <1>2, <1>4, <2>1
    <3>2. l[n] = c[Nth(A, n)]
      BY <1>4, <1>7, <3>1
    <3> QED BY <1>1, <1>8, <1>10, <3>1, <3>2
  <2>2. CASE ~(n <= Cardinality(A))
    <3> DEFINE k == n - Cardinality(A)
    <3>1. k \in 1 .. Cardinality(B) /\ n = Cardinality(A) + k
      BY <1>2, <1>4, <2>2
    <3> HIDE DEF k
    <3>2. l[n] = c[Len(a) + Nth(B, k)]
      BY <1>4, <1>7, <3>1
    <3>3. c[Len(a) + Nth(B, k)] = b[Nth(B, k)]
      BY <1>1, <1>9, <3>1
    <3> QED BY <1>10, <3>1, <3>2, <3>3
  <2> QED BY <2>1, <2>2
<1>12. l = r
  BY <1>7, <1>10, <1>11, SeqEqual
<1> QED BY <1>12 DEF l, r, c

\* All of a text, none of it, a text of one, and sets that agree on it.
LEMMA ThoseAll ==
  ASSUME NEW W, NEW s \in Seq(W), NEW S, \A i \in DOMAIN s : s[i] \in S
  PROVE  Those(s, S) = s
<1> DEFINE P == PlacesOf(s, S)
<1>1. P = 1 .. Len(s) /\ Len(s) \in Nat
  BY DEF PlacesOf
<1>2. ASSUME NEW n \in 0 .. Len(s)
      PROVE  IsFiniteSet(1 .. n) /\ Cardinality(1 .. n) = n
  <2>1. 1 \in Int /\ n \in Int /\ n \in Nat
    OBVIOUS
  <2>2. IsFiniteSet(1 .. n) /\ Cardinality(1 .. n) = IF 1 > n THEN 0 ELSE n - 1 + 1
    BY <2>1, FS_Interval
  <2> QED BY <2>1, <2>2
<1> DEFINE m == Len(s)
<1>3. P = 1 .. m /\ m \in Nat /\ m \in 0 .. Len(s)
  BY <1>1
<1> HIDE DEF m
<1>4. P \in SUBSET Int /\ IsFiniteSet(P) /\ Cardinality(P) = m
  BY <1>2, <1>3
<1> HIDE DEF P
<1>5. ASSUME NEW n \in 1 .. m PROVE Nth(P, n) = n
  <2>1. n \in P /\ {j \in P : j <= n} = 1 .. n /\ n \in 0 .. Len(s)
    BY <1>3 DEF m
  <2>2. Rank(P, n) = n
    BY <1>2, <2>1 DEF Rank
  <2> QED BY <1>4, <2>1, <2>2, NthIs
<1>6. /\ Those(s, S) \in Seq(W) /\ Len(Those(s, S)) = m
      /\ \A n \in 1 .. m : Those(s, S)[n] = s[n]
  BY <1>4, <1>5, ThoseType DEF P
<1> QED BY <1>6, SeqEqual DEF m

LEMMA ThoseNone ==
  ASSUME NEW W, NEW s \in Seq(W), NEW S, \A i \in DOMAIN s : s[i] \notin S
  PROVE  Those(s, S) = <<>>
<1>1. PlacesOf(s, S) = {}
  BY DEF PlacesOf
<1>2. Cardinality(PlacesOf(s, S)) = 0
  BY <1>1, FS_EmptySet
<1>3. Those(s, S) \in Seq(W) /\ Len(Those(s, S)) = 0
  BY <1>2, ThoseType
<1> QED BY <1>3

LEMMA ThoseOne ==
  ASSUME NEW x, NEW S
  PROVE  Those(<<x>>, S) = IF x \in S THEN <<x>> ELSE <<>>
<1>1. <<x>> \in Seq({x}) /\ \A i \in DOMAIN <<x>> : <<x>>[i] = x
  OBVIOUS
<1> QED BY <1>1, ThoseAll, ThoseNone

LEMMA ThoseSame ==
  ASSUME NEW s, NEW S, NEW T, \A i \in DOMAIN s : s[i] \in S <=> s[i] \in T
  PROVE  Those(s, S) = Those(s, T)
<1>1. {i \in DOMAIN s : s[i] \in S} = {i \in DOMAIN s : s[i] \in T}
  OBVIOUS
<1> QED BY <1>1 DEF Those

-----------------------------------------------------------------------------
\* A field ends where the first delimiter is.
LEMMA FieldAtEnd ==
  ASSUME NEW W, NEW s \in Seq(W), NEW d, NEW i \in 1 .. Len(s), NEW n \in 1 .. Len(s) + 1 - i,
         \A k \in i .. i + n - 1 : s[k] # d,
         i + n <= Len(s) => s[i + n] = d
  PROVE  FieldAt(s, d, i) = SubSeq(s, i, i + n - 1)
<1> DEFINE ends == {j \in i .. Len(s) : \A k \in i .. j : s[k] # d}
<1>1. ends = i .. i + n - 1
  <2>1. ASSUME NEW j \in i .. i + n - 1 PROVE j \in ends
    BY <2>1
  <2>2. ASSUME NEW j \in ends, ~(j <= i + n - 1) PROVE FALSE
    <3>1. i + n \in i .. j /\ i + n <= Len(s)
      BY <2>2
    <3> QED BY <2>2, <3>1
  <2>3. ends \in SUBSET (i .. i + n - 1)
    BY <2>2
  <2> QED BY <2>1, <2>3
<1>2. Cardinality(i .. i + n - 1) = n
  <2>1. i \in Int /\ i + n - 1 \in Int /\ n \in Nat /\ n > 0
    OBVIOUS
  <2>2. Cardinality(i .. i + n - 1) = IF i > i + n - 1 THEN 0 ELSE (i + n - 1) - i + 1
    BY <2>1, FS_Interval
  <2> QED BY <2>1, <2>2
<1> QED BY <1>1, <1>2 DEF FieldAt

\* A text without delimiter is one field, also with a delimiter behind it.
LEMMA FieldsOne ==
  ASSUME NEW W, NEW s \in Seq(W), s # <<>>, NEW d, \A i \in DOMAIN s : s[i] # d
  PROVE  Fields(s, d) = <<s>> /\ Fields(Append(s, d), d) = <<s>>
<1>1. ASSUME NEW V, NEW t \in Seq(V), Starts(t, d) = {1}, FieldAt(t, d, 1) = s
      PROVE  Fields(t, d) = <<s>>
  <2>1. IsFiniteSet({1}) /\ Cardinality({1}) = 1
    BY FS_Singleton
  <2>2. 1 \in 1 .. Cardinality({1}) /\ {1} \in SUBSET Int
    BY <2>1
  <2>3. Nth({1}, 1) = 1
    BY <2>1, <2>2, NthIs
  <2>4. Fields(t, d) = [n \in 1 .. 1 |-> FieldAt(t, d, Nth({1}, n))]
    BY <1>1, <2>1 DEF Fields
  <2>5. \A n \in 1 .. 1 : n = 1
    OBVIOUS
  <2>6. Fields(t, d) = [n \in 1 .. 1 |-> s]
    BY <1>1, <2>3, <2>4, <2>5
  <2> QED BY <2>6
<1>2. Len(s) \in Nat \ {0} /\ DOMAIN s = 1 .. Len(s)
  OBVIOUS
<1>3. Fields(s, d) = <<s>>
  <2>1. Starts(s, d) = {1}
    BY <1>2 DEF Starts
  <2>2. FieldAt(s, d, 1) = SubSeq(s, 1, Len(s))
    <3>1. /\ 1 \in 1 .. Len(s) /\ Len(s) \in 1 .. Len(s) + 1 - 1 /\ 1 + Len(s) - 1 = Len(s)
          /\ ~(1 + Len(s) <= Len(s))
      BY <1>2
    <3> QED BY <1>2, <3>1, FieldAtEnd
  <2>3. SubSeq(s, 1, Len(s)) = s
    OBVIOUS
  <2> QED BY <1>1, <2>1, <2>2, <2>3
<1>4. Fields(Append(s, d), d) = <<s>>
  <2> DEFINE t == Append(s, d)
             V == W \cup {d}
  <2>1. /\ t \in Seq(V) /\ Len(t) = Len(s) + 1 /\ DOMAIN t = 1 .. Len(s) + 1
        /\ \A i \in 1 .. Len(s) : t[i] = s[i]
        /\ t[Len(s) + 1] = d
        /\ SubSeq(t, 1, Len(s)) = s
    <3>1. s \in Seq(V) /\ d \in V
      OBVIOUS
    <3>2. t \in Seq(V) /\ Len(t) = Len(s) + 1 /\ DOMAIN t = 1 .. Len(s) + 1
          /\ \A i \in 1 .. Len(s) : t[i] = s[i]
          /\ t[Len(s) + 1] = d
      BY <3>1
    <3> HIDE DEF t
    <3>3. /\ SubSeq(t, 1, Len(s)) \in Seq(V) /\ Len(SubSeq(t, 1, Len(s))) = Len(s)
          /\ \A i \in 1 .. Len(s) : SubSeq(t, 1, Len(s))[i] = s[i]
      BY <1>2, <3>2
    <3>4. SubSeq(t, 1, Len(s)) = s
      BY <3>1, <3>3, SeqEqual
    <3> QED BY <3>2, <3>4
  <2> HIDE DEF t
  <2>2. Starts(t, d) = {1}
    <3>1. ASSUME NEW i \in Starts(t, d) PROVE i = 1
      <4>1. i \in 1 .. Len(s) /\ (i = 1 \/ t[i - 1] = d)
        BY <2>1 DEF Starts
      <4>2. i # 1 => i - 1 \in 1 .. Len(s)
        BY <1>2, <4>1
      <4> QED BY <1>2, <2>1, <4>1, <4>2
    <3>2. 1 \in Starts(t, d)
      BY <1>2, <2>1 DEF Starts
    <3> QED BY <3>1, <3>2
  <2>3. FieldAt(t, d, 1) = SubSeq(t, 1, Len(s))
    <3>1. /\ 1 \in 1 .. Len(t) /\ Len(s) \in 1 .. Len(t) + 1 - 1 /\ 1 + Len(s) - 1 = Len(s)
          /\ 1 + Len(s) = Len(s) + 1
      BY <1>2, <2>1
    <3>2. \A k \in 1 .. 1 + Len(s) - 1 : t[k] # d
      BY <1>2, <2>1, <3>1
    <3> QED BY <2>1, <3>1, <3>2, FieldAtEnd
  <2>4. Fields(t, d) = <<s>>
    BY <1>1, <2>1, <2>2, <2>3
  <2> QED BY <2>4 DEF t
<1> QED BY <1>3, <1>4

\* A text that ends with a delimiter is cut on its own.
LEMMA FieldsConcat ==
  ASSUME NEW W, NEW a \in Seq(W), NEW b \in Seq(W), NEW d, a # <<>> => a[Len(a)] = d
  PROVE  Fields(a \o b, d) = Fields(a, d) \o Fields(b, d)
<1> DEFINE c == a \o b
           m == Len(a)
           A == Starts(a, d)
           B == Starts(b, d)
           C == Starts(c, d)
<1>1. /\ c \in Seq(W) /\ Len(c) = m + Len(b) /\ m \in Nat /\ Len(b) \in Nat
      /\ \A i \in 1 .. m : c[i] = a[i]
      /\ \A i \in 1 .. Len(b) : c[m + i] = b[i]
      /\ DOMAIN a = 1 .. m /\ DOMAIN b = 1 .. Len(b) /\ DOMAIN c = 1 .. m + Len(b)
  OBVIOUS
<1>2. m > 0 => a[m] = d
  OBVIOUS
<1> HIDE DEF c, m
<1>3. /\ A \in SUBSET (1 .. m) /\ IsFiniteSet(A) /\ Cardinality(A) \in Nat /\ A \in SUBSET Int
      /\ B \in SUBSET (1 .. Len(b)) /\ IsFiniteSet(B) /\ Cardinality(B) \in Nat
      /\ B \in SUBSET Int /\ \A j \in B : j > 0
  BY StartsType, FS_CardinalityType DEF m
<1>4. C = A \cup Moved(B, m)
  <2>1. ASSUME NEW i \in 1 .. m PROVE i \in C <=> i \in A
    <3>1. i # 1 => i - 1 \in 1 .. m
      BY <1>1
    <3>2. i \in DOMAIN c /\ i \in DOMAIN a
      BY <1>1
    <3> QED BY <1>1, <3>1, <3>2 DEF Starts
  <2>2. ASSUME NEW i \in 1 .. Len(b) PROVE m + i \in C <=> i \in B
    <3>1. m + i \in DOMAIN c /\ i \in DOMAIN b /\ c[m + i] = b[i]
      BY <1>1
    <3>4. m + i \in C <=> b[i] # d /\ (m + i = 1 \/ c[m + i - 1] = d)
      <4> DEFINE e == m + i
      <4>1. e \in DOMAIN c /\ c[e] = b[i]
        BY <3>1
      <4> HIDE DEF e
      <4>2. e \in C <=> b[i] # d /\ (e = 1 \/ c[e - 1] = d)
        BY <4>1 DEF Starts
      <4> HIDE DEF C
      <4> QED BY <1>1, <4>2 DEF e
    <3>5. i \in B <=> b[i] # d /\ (i = 1 \/ b[i - 1] = d)
      BY <3>1 DEF Starts
    <3> HIDE DEF B, C
    <3>2. CASE i = 1
      <4>1. m + i = 1 \/ (m + i - 1 = m /\ m \in 1 .. m /\ m > 0)
        BY <1>1, <3>2
      <4>2. m + i = 1 \/ c[m + i - 1] = d
        BY <1>1, <1>2, <4>1
      <4> QED BY <3>2, <3>4, <3>5, <4>2
    <3>3. CASE i # 1
      <4>1. i - 1 \in 1 .. Len(b) /\ m + i - 1 = m + (i - 1) /\ m + i # 1
        BY <1>1, <3>3
      <4>2. c[m + i - 1] = b[i - 1]
        BY <1>1, <4>1
      <4> QED BY <3>3, <3>4, <3>5, <4>1, <4>2
    <3> QED BY <3>2, <3>3
  <2>3. C \in SUBSET (1 .. m + Len(b))
    BY <1>1 DEF Starts
  <2> HIDE DEF A, B, C
  <2>4. ASSUME NEW k \in C PROVE k \in A \cup Moved(B, m)
    <3>1. CASE k <= m
      BY <1>1, <2>1, <2>3, <3>1
    <3>2. CASE ~(k <= m)
      <4>1. k - m \in 1 .. Len(b) /\ m + (k - m) = k
        BY <1>1, <2>3, <3>2
      <4>2. k - m \in B
        BY <2>2, <4>1
      <4> QED BY <4>1, <4>2 DEF Moved
    <3> QED BY <3>1, <3>2
  <2>5. ASSUME NEW k \in A \cup Moved(B, m) PROVE k \in C
    BY <1>3, <2>1, <2>2 DEF Moved
  <2> QED BY <2>4, <2>5
<1>5. ASSUME NEW i \in A PROVE FieldAt(c, d, i) = FieldAt(a, d, i)
  <2> DEFINE n == Len(FieldAt(a, d, i))
  <2>1. /\ n \in 1 .. m + 1 - i /\ i \in 1 .. m
        /\ FieldAt(a, d, i) = SubSeq(a, i, i + n - 1)
        /\ \A k \in i .. i + n - 1 : a[k] # d
        /\ i + n <= m => a[i + n] = d
    BY <1>3, FieldAtIs DEF m
  <2> HIDE DEF n
  <2>2. i + n <= m
    <3>1. i + n - 1 \in i .. i + n - 1 /\ i + n - 1 <= m /\ m > 0
      BY <1>1, <2>1
    <3>2. i + n - 1 # m
      BY <1>2, <2>1, <3>1
    <3> QED BY <1>1, <2>1, <3>1, <3>2
  <2>3. /\ i \in 1 .. Len(c) /\ n \in 1 .. Len(c) + 1 - i
        /\ \A k \in i .. i + n - 1 : k \in 1 .. m
        /\ i + n \in 1 .. m
    BY <1>1, <2>1, <2>2
  <2>4. FieldAt(c, d, i) = SubSeq(c, i, i + n - 1)
    <3>1. \A k \in i .. i + n - 1 : c[k] # d
      BY <1>1, <2>1, <2>3
    <3>2. c[i + n] = d
      BY <1>1, <2>1, <2>2, <2>3
    <3>3. c \in Seq(W)
      BY <1>1
    <3> QED BY <2>3, <3>1, <3>2, <3>3, FieldAtEnd
  <2>5. SubSeq(c, i, i + n - 1) = SubSeq(a, i, i + n - 1)
    <3>1. i \in 1 .. Len(a) /\ i + n - 1 \in 1 .. Len(a)
      BY <2>1, <2>3 DEF m
    <3> QED BY <3>1, SubSeqOfConcat1 DEF c
  <2> QED BY <2>1, <2>4, <2>5
<1>6. ASSUME NEW i \in B PROVE FieldAt(c, d, m + i) = FieldAt(b, d, i)
  <2> DEFINE n == Len(FieldAt(b, d, i))
  <2>1. /\ n \in 1 .. Len(b) + 1 - i /\ i \in 1 .. Len(b)
        /\ FieldAt(b, d, i) = SubSeq(b, i, i + n - 1)
        /\ \A k \in i .. i + n - 1 : b[k] # d
        /\ i + n <= Len(b) => b[i + n] = d
    <3>1. b \in Seq(W) /\ i \in Starts(b, d) /\ i \in 1 .. Len(b)
      BY <1>3
    <3>2. IsFieldAt(b, d, i, n)
      BY ONLY <3>1, FieldAtSpan
    <3> QED BY ONLY <3>1, <3>2 DEF IsFieldAt
  <2> HIDE DEF n
  <2>2. m + i \in 1 .. Len(c) /\ n \in 1 .. Len(c) + 1 - (m + i)
    <3>1. m \in Nat /\ Len(b) \in Nat /\ Len(c) = m + Len(b)
      BY <1>1
    <3> QED BY ONLY <2>1, <3>1
  <2>3. FieldAt(c, d, m + i) = SubSeq(c, m + i, (m + i) + n - 1)
    <3>1. ASSUME NEW k \in m + i .. (m + i) + n - 1 PROVE c[k] # d
      <4>1. k - m \in i .. i + n - 1 /\ k - m \in 1 .. Len(b) /\ m + (k - m) = k
        BY <1>1, <2>1
      <4>2. c[k] = b[k - m]
        BY <1>1, <4>1
      <4> QED BY <2>1, <4>1, <4>2
    <3>2. ASSUME (m + i) + n <= Len(c) PROVE c[(m + i) + n] = d
      <4>1. i + n \in 1 .. Len(b) /\ (m + i) + n = m + (i + n)
        BY <1>1, <2>1, <3>2
      <4> QED BY <1>1, <2>1, <4>1
    <3>3. c \in Seq(W)
      BY <1>1
    <3> DEFINE e == m + i
    <3> HIDE DEF e
    <3>4. /\ e \in 1 .. Len(c) /\ n \in 1 .. Len(c) + 1 - e
          /\ \A k \in e .. e + n - 1 : c[k] # d
          /\ e + n <= Len(c) => c[e + n] = d
      BY <2>2, <3>1, <3>2 DEF e
    <3>5. FieldAt(c, d, e) = SubSeq(c, e, e + n - 1)
      BY <3>3, <3>4, FieldAtEnd
    <3> QED BY <3>5 DEF e
  <2>4. SubSeq(c, m + i, (m + i) + n - 1) = SubSeq(b, i, i + n - 1)
    <3>1. /\ m + i \in Len(a) + 1 .. Len(a) + Len(b)
          /\ (m + i) + n - 1 \in Len(a) + 1 .. Len(a) + Len(b)
          /\ m + i - Len(a) = i /\ (m + i) + n - 1 - Len(a) = i + n - 1
      BY <1>1, <2>1 DEF m
    <3> DEFINE e == m + i
               f == (m + i) + n - 1
    <3> HIDE DEF e, f
    <3>2. SubSeq(a \o b, e, f) = SubSeq(b, e - Len(a), f - Len(a))
      BY <3>1, SubSeqOfConcat2 DEF e, f
    <3>3. e - Len(a) = i /\ f - Len(a) = i + n - 1
      BY <1>1, <2>1 DEF e, f, m
    <3>4. SubSeq(a \o b, e, f) = SubSeq(b, i, i + n - 1)
      BY <3>2, <3>3
    <3> QED BY <3>4 DEF c, e, f
  <2> QED BY <2>1, <2>3, <2>4
<1> HIDE DEF A, B, C
<1>7. /\ Cardinality(C) = Cardinality(A) + Cardinality(B)
      /\ \A n \in 1 .. Cardinality(A) : Nth(C, n) = Nth(A, n)
      /\ \A n \in 1 .. Cardinality(B) : Nth(C, Cardinality(A) + n) = m + Nth(B, n)
  <2>1. Cardinality(A \cup Moved(B, m)) = Cardinality(A) + Cardinality(B)
    BY <1>1, <1>3, RankJoin
  <2>2. /\ \A n \in 1 .. Cardinality(A) : Nth(A \cup Moved(B, m), n) = Nth(A, n)
        /\ \A n \in 1 .. Cardinality(B) :
             Nth(A \cup Moved(B, m), Cardinality(A) + n) = m + Nth(B, n)
    BY <1>1, <1>3, NthJoin
  <2> QED BY <1>4, <2>1, <2>2
<1>8. ASSUME NEW t \in Seq(W)
      PROVE  /\ Fields(t, d) \in Seq(Seq(W)) /\ Len(Fields(t, d)) = Cardinality(Starts(t, d))
             /\ \A n \in 1 .. Cardinality(Starts(t, d)) :
                  Fields(t, d)[n] = FieldAt(t, d, Nth(Starts(t, d), n))
  BY FieldsType DEF Fields
<1> DEFINE x == Fields(a, d)
           y == Fields(b, d)
           l == Fields(c, d)
<1>9. /\ x \in Seq(Seq(W)) /\ Len(x) = Cardinality(A)
      /\ \A n \in 1 .. Cardinality(A) : x[n] = FieldAt(a, d, Nth(A, n))
      /\ y \in Seq(Seq(W)) /\ Len(y) = Cardinality(B)
      /\ \A n \in 1 .. Cardinality(B) : y[n] = FieldAt(b, d, Nth(B, n))
      /\ l \in Seq(Seq(W)) /\ Len(l) = Cardinality(C)
      /\ \A n \in 1 .. Cardinality(C) : l[n] = FieldAt(c, d, Nth(C, n))
  BY <1>1, <1>8 DEF A, B, C
<1> HIDE DEF x, y, l
<1>10. /\ \A n \in 1 .. Cardinality(A) : Nth(A, n) \in A
       /\ \A n \in 1 .. Cardinality(B) : Nth(B, n) \in B
  BY <1>3, NthIs
<1>11. /\ x \o y \in Seq(Seq(W)) /\ Len(x \o y) = Cardinality(C)
       /\ \A n \in 1 .. Cardinality(C) :
            (x \o y)[n] = IF n <= Cardinality(A) THEN x[n] ELSE y[n - Cardinality(A)]
  <2>1. /\ x \o y \in Seq(Seq(W)) /\ Len(x \o y) = Len(x) + Len(y)
        /\ \A n \in 1 .. Len(x) + Len(y) : (x \o y)[n] = IF n <= Len(x) THEN x[n] ELSE y[n - Len(x)]
    BY <1>9, ConcatProperties
  <2> QED BY <1>7, <1>9, <2>1
<1>12. ASSUME NEW n \in 1 .. Cardinality(C) PROVE l[n] = (x \o y)[n]
  <2>1. CASE n <= Cardinality(A)
    <3>1. n \in 1 .. Cardinality(A)
      BY <1>3, <1>7, <2>1
    <3>2. l[n] = FieldAt(c, d, Nth(A, n))
      BY <1>7, <1>9, <3>1
    <3>3. x[n] = FieldAt(a, d, Nth(A, n))
      BY <1>9, <3>1
    <3>4. l[n] = x[n]
      BY <1>5, <1>10, <3>1, <3>2, <3>3
    <3> QED BY <1>11, <2>1, <3>4
  <2>2. CASE ~(n <= Cardinality(A))
    <3> DEFINE k == n - Cardinality(A)
    <3>1. k \in 1 .. Cardinality(B) /\ n = Cardinality(A) + k
      BY <1>3, <1>7, <2>2
    <3>2. (x \o y)[n] = y[k]
      BY <1>11, <2>2
    <3> HIDE DEF k
    <3>3. Nth(C, n) = m + Nth(B, k)
      BY <1>7, <3>1
    <3>4. l[n] = FieldAt(c, d, m + Nth(B, k))
      BY <1>9, <3>3
    <3>5. y[k] = FieldAt(b, d, Nth(B, k))
      BY <1>9, <3>1
    <3>6. FieldAt(c, d, m + Nth(B, k)) = FieldAt(b, d, Nth(B, k))
      BY <1>6, <1>10, <3>1
    <3> QED BY <3>2, <3>4, <3>5, <3>6
  <2> QED BY <2>1, <2>2
<1>13. l = x \o y
  BY <1>9, <1>11, <1>12, SeqEqual
<1> QED BY <1>13 DEF l, x, y, c

-----------------------------------------------------------------------------
\* A finite set of integers that is not empty has a least element.
LEMMA LeastIs ==
  ASSUME NEW S \in SUBSET Int, IsFiniteSet(S), S # {}
  PROVE  Min(S) \in S /\ \A y \in S : Min(S) <= y
<1>1. Cardinality(S) \in Nat /\ Cardinality(S) # 0
  BY FS_CardinalityType, FS_EmptySet
<1>2. PICK x \in S : Rank(S, x) = 1
  BY <1>1, RankOnce
<1>3. \A y \in S : x <= y
  <2> SUFFICES ASSUME NEW y \in S, y < x PROVE FALSE
    OBVIOUS
  <2>1. Rank(S, y) < 1 /\ Rank(S, y) \in 1 .. Cardinality(S)
    BY <1>2, RankGrows, RankType
  <2> QED BY <1>1, <2>1
<1> QED BY <1>3 DEF Min

-----------------------------------------------------------------------------
\* No texts, one text, two texts after each other.
LEMMA FlattenFew ==
  /\ FlattenSeq(<<>>) = <<>>
  /\ \A x : FlattenSeq(<<x>>) = x
  /\ \A x, y : FlattenSeq(<<x, y>>) = x \o y
<1>1. FlattenSeq(<<>>) = <<>>
  BY DEF FlattenSeq
<1>2. ASSUME NEW x PROVE FlattenSeq(<<x>>) = x
  <2> DEFINE q == <<x>>
             Step(g, i) == IF i = 1 THEN q[i] ELSE g[i - 1] \o q[i]
             at == CHOOSE g : g = [i \in 1 .. Len(q) |-> Step(g, i)]
             f == [i \in 1 .. 1 |-> x]
  <2>1. Len(q) = 1 /\ q[1] = x /\ \A i \in 1 .. 1 : i = 1
    OBVIOUS
  <2>2. FlattenSeq(q) = at[1]
    BY <2>1 DEF FlattenSeq
  <2>3. f = [i \in 1 .. Len(q) |-> Step(f, i)]
    BY <2>1
  <2>4. at = [i \in 1 .. Len(q) |-> Step(at, i)]
    BY <2>3
  <2> HIDE DEF at
  <2>5. at[1] = x
    BY <2>1, <2>4
  <2> QED BY <2>2, <2>5
<1>3. ASSUME NEW x, NEW y PROVE FlattenSeq(<<x, y>>) = x \o y
  <2> DEFINE q == <<x, y>>
             Step(g, i) == IF i = 1 THEN q[i] ELSE g[i - 1] \o q[i]
             at == CHOOSE g : g = [i \in 1 .. Len(q) |-> Step(g, i)]
             f == [i \in 1 .. 2 |-> IF i = 1 THEN x ELSE x \o y]
  <2>1. Len(q) = 2 /\ q[1] = x /\ q[2] = y
    OBVIOUS
  <2>2. \A i \in 1 .. 2 : i = 1 \/ i = 2
    OBVIOUS
  <2>3. FlattenSeq(q) = at[2]
    BY <2>1 DEF FlattenSeq
  <2> HIDE DEF q
  <2>4. \A i \in 1 .. 2 : f[i] = Step(f, i)
    BY <2>1, <2>2
  <2>5. f = [i \in 1 .. Len(q) |-> Step(f, i)]
    BY <2>1, <2>4
  <2>6. at = [i \in 1 .. Len(q) |-> Step(at, i)]
    BY <2>5
  <2> HIDE DEF at
  <2>7. at[1] = x /\ at[2] = at[1] \o y
    <3>1. \A i \in 1 .. 2 : at[i] = Step(at, i)
      BY <2>1, <2>6
    <3>2. 1 \in 1 .. 2 /\ 2 \in 1 .. 2 /\ 2 - 1 = 1 /\ 2 # 1
      OBVIOUS
    <3>3. at[1] = q[1]
      BY <3>1, <3>2
    <3>4. at[2] = at[2 - 1] \o q[2]
      BY <3>1, <3>2
    <3> QED BY <2>1, <3>2, <3>3, <3>4
  <2> QED BY <2>3, <2>7 DEF q
<1> QED BY <1>1, <1>2, <1>3

\* Texts after each other are a text.
LEMMA FlattenType ==
  ASSUME NEW W, NEW q \in Seq(Seq(W))
  PROVE  FlattenSeq(q) \in Seq(W)
<1> DEFINE N == Len(q)
           Step(g, i) == IF i = 1 THEN q[i] ELSE g[i - 1] \o q[i]
           at == CHOOSE g : g = [i \in 1 .. N |-> Step(g, i)]
           Fits(n) == \E g \in [1 .. n -> Seq(W)] : \A i \in 1 .. n : g[i] = Step(g, i)
<1>1. N \in Nat /\ \A i \in 1 .. N : q[i] \in Seq(W)
  OBVIOUS
<1>2. CASE N = 0
  BY <1>2 DEF FlattenSeq
<1>3. CASE N # 0
  <2>1. FlattenSeq(q) = at[N]
    BY <1>3 DEF FlattenSeq
  <2> HIDE DEF N
  <2>2. Fits(N)
    <3> SUFFICES ASSUME ~Fits(N) PROVE FALSE
      OBVIOUS
    <3> DEFINE T == {n \in 1 .. N : ~Fits(n)}
    <3> HIDE DEF Fits
    <3>1. T \in SUBSET Int /\ N \in T
      BY <1>1, <1>3
    <3>2. IsFiniteSet(1 .. N)
      <4>1. 1 \in Int /\ N \in Int
        BY <1>1
      <4> QED BY <4>1, FS_Interval
    <3>3. IsFiniteSet(T)
      BY <3>2, FS_Subset
    <3> DEFINE n == Min(T)
    <3>4. n \in T /\ \A y \in T : n <= y
      BY <3>1, <3>3, LeastIs
    <3> HIDE DEF n
    <3>5. n \in 1 .. N /\ ~Fits(n)
      BY <3>4
    <3>6. CASE n = 1
      <4> DEFINE g == [i \in 1 .. 1 |-> q[1]]
      <4>1. g \in [1 .. 1 -> Seq(W)] /\ \A i \in 1 .. 1 : g[i] = Step(g, i)
        BY <1>1, <3>5, <3>6
      <4> QED BY <3>5, <3>6, <4>1 DEF Fits
    <3>7. CASE n # 1
      <4>1. n - 1 \in 1 .. N /\ n - 1 \notin T
        BY <1>1, <3>4, <3>5, <3>7
      <4>2. PICK g \in [1 .. n - 1 -> Seq(W)] : \A i \in 1 .. n - 1 : g[i] = Step(g, i)
        BY <4>1 DEF Fits
      <4> DEFINE h == [i \in 1 .. n |-> IF i = n THEN g[n - 1] \o q[n] ELSE g[i]]
      <4>3. g[n - 1] \in Seq(W) /\ q[n] \in Seq(W)
        BY <1>1, <3>5, <3>7, <4>1, <4>2
      <4>4. g[n - 1] \o q[n] \in Seq(W)
        BY <4>3
      <4>5. \A i \in 1 .. n : i # n => i \in 1 .. n - 1 /\ g[i] \in Seq(W)
        BY <3>5, <4>2
      <4>6. h \in [1 .. n -> Seq(W)]
        BY <4>4, <4>5
      <4>7. ASSUME NEW i \in 1 .. n PROVE h[i] = Step(h, i)
        <5>1. CASE i = n
          <6>1. h[i] = g[n - 1] \o q[n] /\ h[n - 1] = g[n - 1]
            <7>1. n \in 1 .. n /\ n - 1 \in 1 .. n /\ n - 1 # n
              BY <3>5, <3>7, <4>1
            <7>2. h[n] = g[n - 1] \o q[n] /\ h[n - 1] = g[n - 1]
              BY <7>1
            <7> QED BY <5>1, <7>2
          <6> QED BY <3>7, <5>1, <6>1
        <5>2. CASE i # n /\ i = 1
          <6>1. h[i] = g[i] /\ i \in 1 .. n - 1 /\ g[i] = q[i]
            BY <4>2, <4>5, <5>2
          <6> QED BY <5>2, <6>1
        <5>3. CASE i # n /\ i # 1
          <6>1. h[i] = g[i] /\ i \in 1 .. n - 1 /\ i - 1 \in 1 .. n /\ i - 1 # n
            BY <3>5, <4>5, <5>3
          <6>2. h[i - 1] = g[i - 1] /\ g[i] = g[i - 1] \o q[i]
            BY <4>2, <5>3, <6>1
          <6> QED BY <5>3, <6>1, <6>2
        <5> QED BY <5>1, <5>2, <5>3
      <4> HIDE DEF h
      <4> QED BY <3>5, <4>6, <4>7 DEF Fits
    <3> QED BY <3>6, <3>7
  <2>3. PICK f \in [1 .. N -> Seq(W)] : \A i \in 1 .. N : f[i] = Step(f, i)
    BY <2>2
  <2>4. f = [i \in 1 .. N |-> Step(f, i)]
    BY <2>3
  <2>5. at = [i \in 1 .. N |-> Step(at, i)]
    BY <2>4
  <2> HIDE DEF at
  <2>6. ASSUME NEW k \in 1 .. N, at[k] # f[k] PROVE FALSE
    <3> DEFINE T == {i \in 1 .. N : at[i] # f[i]}
    <3>1. T \in SUBSET Int /\ T # {}
      BY <2>6
    <3>2. IsFiniteSet(1 .. N)
      <4>1. 1 \in Int /\ N \in Int
        BY <1>1
      <4> QED BY <4>1, FS_Interval
    <3>3. IsFiniteSet(T)
      BY <3>2, FS_Subset
    <3> DEFINE n == Min(T)
    <3>4. n \in T /\ \A y \in T : n <= y
      BY <3>1, <3>3, LeastIs
    <3> HIDE DEF n
    <3>5. n \in 1 .. N /\ at[n] # f[n]
      BY <3>4
    <3>6. n # 1 => n - 1 \in 1 .. N /\ n - 1 \notin T
      BY <1>1, <3>4, <3>5
    <3>7. n # 1 => at[n - 1] = f[n - 1]
      BY <3>6
    <3>8. at[n] = Step(at, n) /\ f[n] = Step(f, n)
      BY <2>3, <2>5, <3>5
    <3> QED BY <3>5, <3>7, <3>8
  <2>7. N \in 1 .. N
    BY <1>1, <1>3
  <2>8. at[N] = f[N]
    BY <2>6, <2>7
  <2> QED BY <2>1, <2>3, <2>7, <2>8
<1> QED BY <1>2, <1>3

-----------------------------------------------------------------------------
\* A text behind a delimiter, where no field is empty.
LEMMA RegularJoin ==
  ASSUME NEW W, NEW a \in Seq(W), a # <<>>, NEW s \in Seq(W), s # <<>>, NEW d \in W,
         Regular(a, d), \A i \in DOMAIN s : s[i] # d
  PROVE  Regular(a \o s, d) /\ (a \o s)[Len(a \o s)] # d
<1> DEFINE b == a \o s
<1>1. /\ b \in Seq(W) /\ Len(b) = Len(a) + Len(s) /\ Len(a) \in Nat \ {0} /\ Len(s) \in Nat \ {0}
      /\ \A i \in 1 .. Len(a) : b[i] = a[i]
      /\ \A i \in 1 .. Len(s) : b[Len(a) + i] = s[i]
  OBVIOUS
<1> HIDE DEF b
<1>2. /\ a[1] # d /\ \A i \in 2 .. Len(a) : a[i - 1] = d => a[i] # d
      /\ \A i \in 1 .. Len(s) : s[i] # d
  BY DEF Regular
<1>3. b[1] # d /\ b # <<>>
  BY <1>1, <1>2
<1>4. ASSUME NEW i \in 2 .. Len(b), b[i - 1] = d PROVE b[i] # d
  <2>1. CASE i <= Len(a)
    <3>1. i - 1 \in 1 .. Len(a) /\ i \in 2 .. Len(a) /\ i \in 1 .. Len(a)
      BY <1>1, <2>1
    <3> QED BY <1>1, <1>2, <1>4, <3>1
  <2>2. CASE i > Len(a)
    <3>1. i - Len(a) \in 1 .. Len(s) /\ Len(a) + (i - Len(a)) = i
      BY <1>1, <2>2
    <3>2. b[i] = s[i - Len(a)]
      BY <1>1, <3>1
    <3> QED BY <1>2, <3>1, <3>2
  <2> QED BY <1>1, <2>1, <2>2
<1>5. b[Len(b)] # d
  <2>1. Len(s) \in 1 .. Len(s)
    BY <1>1
  <2> QED BY <1>1, <1>2, <2>1
<1> QED BY <1>3, <1>4, <1>5 DEF Regular, b

\* A delimiter behind a text, where no field is empty.
LEMMA RegularEnd ==
  ASSUME NEW W, NEW a \in Seq(W), NEW d \in W, Regular(a, d), a[Len(a)] # d
  PROVE  Regular(Append(a, d), d)
<1> DEFINE b == Append(a, d)
<1>1. /\ b \in Seq(W) /\ Len(b) = Len(a) + 1 /\ Len(a) \in Nat \ {0} /\ b[Len(a) + 1] = d
      /\ \A i \in 1 .. Len(a) : b[i] = a[i]
  BY DEF Regular
<1> HIDE DEF b
<1>2. a[1] # d /\ \A i \in 2 .. Len(a) : a[i - 1] = d => a[i] # d
  BY DEF Regular
<1>3. b[1] # d /\ b # <<>>
  BY <1>1, <1>2
<1>4. ASSUME NEW i \in 2 .. Len(b), b[i - 1] = d PROVE b[i] # d
  <2>1. CASE i <= Len(a)
    <3>1. i - 1 \in 1 .. Len(a) /\ i \in 2 .. Len(a) /\ i \in 1 .. Len(a)
      BY <1>1, <2>1
    <3> QED BY <1>1, <1>2, <1>4, <3>1
  <2>2. CASE i > Len(a)
    <3>1. i - 1 = Len(a) /\ Len(a) \in 1 .. Len(a)
      BY <1>1, <2>2
    <3>2. b[i - 1] # d
      BY <1>1, <3>1
    <3> QED BY <1>4, <3>2
  <2> QED BY <1>1, <2>1, <2>2
<1> QED BY <1>3, <1>4 DEF Regular, b

\* A text without delimiter has no empty field.
LEMMA RegularOne ==
  ASSUME NEW W, NEW s \in Seq(W), s # <<>>, NEW d, \A i \in DOMAIN s : s[i] # d
  PROVE  Regular(s, d) /\ s[Len(s)] # d
<1>1. 1 \in DOMAIN s /\ Len(s) \in DOMAIN s /\ \A i \in 2 .. Len(s) : i - 1 \in DOMAIN s
  OBVIOUS
<1> QED BY <1>1 DEF Regular

\* The same text twice, and six times, between delimiters.
Two(p, d) == p \o <<d>> \o p
Six(p, d) == p \o <<d>> \o p \o <<d>> \o p \o <<d>> \o p \o <<d>> \o p \o <<d>> \o p
LEMMA RegularRow ==
  ASSUME NEW W, NEW p \in Seq(W), p # <<>>, NEW d \in W, \A i \in DOMAIN p : p[i] # d
  PROVE  /\ Two(p, d) \in Seq(W) /\ Regular(Two(p, d), d) /\ Fields(Two(p, d), d) = <<p, p>>
         /\ Six(p, d) \in Seq(W) /\ Regular(Six(p, d), d)
         /\ Fields(Six(p, d), d) = [i \in 1 .. 6 |-> p]
<1> DEFINE S == Seq(W)
           F(a) == Fields(a, d)
           e == <<d>>
           x == p \o e
           f == <<p>>
           Good(a) == a \in S /\ a # <<>> /\ Regular(a, d) /\ a[Len(a)] # d
           Row(a, q) == Good(a) /\ F(a) = q /\ F(a \o e) = q
<1>1. Good(p) /\ F(p) = f /\ F(p \o e) = f
  <2>1. Append(p, d) = p \o e
    OBVIOUS
  <2> QED BY <2>1, FieldsOne, RegularOne
<1>2. ASSUME NEW a, Good(a)
      PROVE  /\ a \o e \in S /\ a \o e # <<>> /\ Regular(a \o e, d)
             /\ (a \o e)[Len(a \o e)] = d
  <2>1. /\ Append(a, d) \in S /\ Append(a, d) # <<>> /\ Append(a, d)[Len(Append(a, d))] = d
        /\ Append(a, d) = a \o e
    BY <1>2
  <2>2. Regular(Append(a, d), d)
    BY <1>2, RegularEnd
  <2> QED BY <2>1, <2>2
<1>3. e \in S /\ p \in S /\ x \in S
  OBVIOUS
<1>4. ASSUME NEW a, NEW q, Row(a, q) PROVE Row(a \o e \o p, q \o f)
  <2> DEFINE b == a \o e
             c == b \o p
  <2>1. b \in S /\ b # <<>> /\ Regular(b, d) /\ b[Len(b)] = d /\ F(b) = q
    BY <1>2, <1>4
  <2> HIDE DEF b
  <2>2. c \in S /\ c # <<>>
    BY <1>3, <2>1
  <2>3. Regular(c, d) /\ c[Len(c)] # d
    BY <2>1, RegularJoin
  <2>4. \A y \in S : F(b \o y) = F(b) \o F(y)
    <3>1. b \in Seq(W) /\ b[Len(b)] = d
      BY <2>1
    <3> QED BY <3>1, FieldsConcat
  <2>5. c \o e = b \o x
    <3>1. \A u, v, w \in S : (u \o v) \o w = u \o (v \o w)
      BY ConcatAssociative
    <3> HIDE DEF S, e
    <3> QED BY <1>3, <2>1, <3>1
  <2>6. F(c) = q \o f /\ F(c \o e) = q \o f
    <3> HIDE DEF F, f, x, e, S
    <3> QED BY <1>1, <1>3, <2>1, <2>4, <2>5 DEF x
  <2> QED BY <2>2, <2>3, <2>6 DEF b
<1> DEFINE a2 == p \o e \o p
           a3 == a2 \o e \o p
           a4 == a3 \o e \o p
           a5 == a4 \o e \o p
           a6 == a5 \o e \o p
           q2 == f \o f
           q3 == q2 \o f
           q4 == q3 \o f
           q5 == q4 \o f
           q6 == q5 \o f
<1>5. Row(p, f)
  BY <1>1
<1> HIDE DEF Row, e, f
<1>6. Row(a2, q2)
  BY <1>4, <1>5
<1> HIDE DEF a2, q2
<1>7. Row(a3, q3)
  BY <1>4, <1>6
<1> HIDE DEF a3, q3
<1>8. Row(a4, q4)
  BY <1>4, <1>7
<1> HIDE DEF a4, q4
<1>9. Row(a5, q5)
  BY <1>4, <1>8
<1> HIDE DEF a5, q5
<1>10. Row(a6, q6)
  BY <1>4, <1>9
<1> HIDE DEF a6
<1>11. q2 = <<p, p>> /\ q6 = [i \in 1 .. 6 |-> p]
  <2> DEFINE T == {p}
             Copies(q, n) == q \in Seq(T) /\ Len(q) = n
  <2>1. f \in Seq(T) /\ Len(f) = 1
    BY DEF f
  <2> HIDE DEF T
  <2>2. ASSUME NEW q, NEW n \in Nat, Copies(q, n) PROVE Copies(q \o f, n + 1)
    <3>1. q \in Seq(T) /\ Len(q) = n
      BY <2>2
    <3>2. q \o f \in Seq(T) /\ Len(q \o f) = Len(q) + Len(f)
      BY ONLY <2>1, <3>1, ConcatProperties
    <3> QED BY <2>1, <3>1, <3>2
  <2>3. Copies(f, 1)
    BY <2>1
  <2>4. 1 + 1 = 2 /\ 2 + 1 = 3 /\ 3 + 1 = 4 /\ 4 + 1 = 5 /\ 5 + 1 = 6
    OBVIOUS
  <2> HIDE DEF Copies
  <2>5. Copies(q2, 2)
    BY <2>2, <2>3, <2>4 DEF q2
  <2>6. Copies(q3, 3)
    BY <2>2, <2>4, <2>5 DEF q3
  <2>7. Copies(q4, 4)
    BY <2>2, <2>4, <2>6 DEF q4
  <2>8. Copies(q5, 5)
    BY <2>2, <2>4, <2>7 DEF q5
  <2>9. Copies(q6, 6)
    BY <2>2, <2>4, <2>8
  <2> HIDE DEF q6
  <2>10. ASSUME NEW q, NEW n \in Nat, Copies(q, n) PROVE q = [i \in 1 .. n |-> p]
    <3>1. q \in Seq(T) /\ Len(q) = n
      BY <2>10 DEF Copies
    <3>2. q = [i \in 1 .. n |-> q[i]] /\ \A i \in 1 .. n : q[i] \in T
      BY <3>1
    <3> QED BY <3>2 DEF T
  <2>11. q2 = [i \in 1 .. 2 |-> p] /\ q6 = [i \in 1 .. 6 |-> p]
    BY <2>5, <2>9, <2>10
  <2>12. <<p, p>> = [i \in 1 .. 2 |-> p]
    OBVIOUS
  <2> QED BY <2>11, <2>12
<1>12. Row(a2, <<p, p>>) /\ Row(a6, [i \in 1 .. 6 |-> p])
  BY <1>6, <1>10, <1>11
<1>13. /\ a2 \in S /\ Regular(a2, d) /\ Fields(a2, d) = <<p, p>>
       /\ a6 \in S /\ Regular(a6, d) /\ Fields(a6, d) = [i \in 1 .. 6 |-> p]
  BY <1>12 DEF Row
<1>14. a2 = Two(p, d) /\ a6 = Six(p, d)
  BY DEF a2, a3, a4, a5, a6, e, Two, Six
<1> QED BY <1>13, <1>14
=============================================================================
