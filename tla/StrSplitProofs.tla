--------------------------- MODULE StrSplitProofs ---------------------------
(***************************************************************************)
(* str_split on texts of any length: the array has room, a result is the   *)
(* fields of the text, and the assertions fail on the texts with an empty  *)
(* field and on no others.                                                 *)
(*                                                                         *)
(* The first loop counts the places after which a field may start: the     *)
(* beginning, and every delimiter but one at the very end.  The second     *)
(* finds the starts.  Each start has its place, so there are no more of    *)
(* them, and as many just when no place is left without one.               *)
(***************************************************************************)
EXTENDS StrSplit, TokensProofs

Delims(s) == {k \in DOMAIN s : s[k] = Delim}
Places(s) == {0} \cup (Delims(s) \ {Len(s)})

\* Both kinds of places are finitely many.
LEMMA PlacesType ==
  ASSUME NEW s \in Seq(Words)
  PROVE  /\ IsFiniteSet(Delims(s)) /\ Delims(s) \in SUBSET (1 .. Len(s))
         /\ IsFiniteSet(Places(s)) /\ Cardinality(Places(s)) \in Nat
         /\ Cardinality(Delims(s)) \in Nat
         /\ Cardinality(Places(s)) =
              Cardinality(Delims(s)) + (IF Len(s) \in Delims(s) THEN 0 ELSE 1)
<1>1. IsFiniteSet(1 .. Len(s))
  BY FS_Interval
<1>2. Delims(s) \in SUBSET (1 .. Len(s))
  BY DEF Delims
<1>3. IsFiniteSet(Delims(s))
  BY <1>1, <1>2, FS_Subset
<1> DEFINE D == Delims(s) \ {Len(s)}
<1>4. /\ IsFiniteSet(D)
      /\ Cardinality(D) = IF Len(s) \in Delims(s) THEN Cardinality(Delims(s)) - 1
                          ELSE Cardinality(Delims(s))
  BY <1>3, FS_RemoveElement
<1>5. 0 \notin D
  BY <1>2
<1>6. /\ IsFiniteSet(D \cup {0})
      /\ Cardinality(D \cup {0}) = Cardinality(D) + 1
  BY <1>4, <1>5, FS_AddElement
<1>7. Places(s) = D \cup {0}
  BY DEF Places
<1>8. Cardinality(Delims(s)) \in Nat /\ Cardinality(Places(s)) \in Nat
  BY <1>3, <1>6, <1>7, FS_CardinalityType
<1> QED BY <1>2, <1>3, <1>4, <1>6, <1>7, <1>8

\* The tokens of a text are no more than its places, and as many exactly when
\* it has no empty field.
LEMMA StartsArePlaced ==
  ASSUME NEW s \in Seq(Words)
  PROVE  /\ Cardinality(Starts(s, Delim)) <= Cardinality(Places(s))
         /\ Cardinality(Starts(s, Delim)) = Cardinality(Places(s)) <=> Regular(s, Delim)
<1> DEFINE S == Starts(s, Delim)
           f == [i \in S |-> i - 1]
<1>1. S \in SUBSET (1 .. Len(s)) /\ IsFiniteSet(S) /\ Len(s) \in Nat
  BY StartsType
<1>2. \A i \in S : i - 1 \in Places(s)
  BY <1>1 DEF Starts, Places, Delims
<1>3. f \in Injection(S, Places(s))
  BY <1>1, <1>2 DEF Injection, IsInjective
<1>4. /\ Cardinality(S) <= Cardinality(Places(s))
      /\ Cardinality(S) = Cardinality(Places(s)) <=> f \in Surjection(S, Places(s))
  BY <1>3, PlacesType, FS_Injection
<1>5. f \in Surjection(S, Places(s)) <=> \A k \in Places(s) : k + 1 \in S
  <2>1. ASSUME f \in Surjection(S, Places(s)), NEW k \in Places(s) PROVE k + 1 \in S
    <3>1. PICK i \in S : f[i] = k
      BY <2>1 DEF Surjection
    <3> QED BY <1>1, <3>1
  <2>2. ASSUME \A k \in Places(s) : k + 1 \in S PROVE f \in Surjection(S, Places(s))
    <3>1. \A k \in Places(s) : k \in Int
      BY PlacesType DEF Places
    <3>2. \A k \in Places(s) : k + 1 \in S /\ f[k + 1] = k
      BY <2>2, <3>1
    <3> QED BY <1>3, <3>2 DEF Surjection, Injection
  <2> QED BY <2>1, <2>2
<1>6. (\A k \in Places(s) : k + 1 \in S) <=> Regular(s, Delim)
  <2>1. ASSUME \A k \in Places(s) : k + 1 \in S PROVE Regular(s, Delim)
    <3>1. 1 \in S
      BY <2>1 DEF Places
    <3>2. s # <<>> /\ s[1] # Delim
      BY <3>1 DEF Starts
    <3>3. ASSUME NEW i \in 2 .. Len(s), s[i - 1] = Delim PROVE s[i] # Delim
      <4>1. i - 1 \in Places(s)
        BY <1>1, <3>3 DEF Places, Delims
      <4>2. (i - 1) + 1 \in S
        BY <2>1, <4>1
      <4> QED BY <1>1, <4>2 DEF Starts
    <3> QED BY <3>2, <3>3 DEF Regular
  <2>2. ASSUME Regular(s, Delim), NEW k \in Places(s) PROVE k + 1 \in S
    <3>1. CASE k = 0
      BY <1>1, <2>2, <3>1 DEF Regular, Starts
    <3>2. CASE k # 0
      <4>1. k \in 1 .. Len(s) - 1 /\ s[k] = Delim
        BY <1>1, <3>2 DEF Places, Delims
      <4>2. k + 1 \in 2 .. Len(s) /\ (k + 1) - 1 = k
        BY <1>1, <4>1
      <4>3. s[k + 1] # Delim
        BY <2>2, <4>1, <4>2 DEF Regular
      <4> QED BY <1>1, <4>1, <4>2, <4>3 DEF Starts
    <3> QED BY <3>1, <3>2
  <2> QED BY <2>1, <2>2
<1> QED BY <1>4, <1>5, <1>6

-----------------------------------------------------------------------------
Counted == {k \in Delims(input) : k < tmp}
Taken == {i \in Starts(input, Delim) : i < lasts}

LastComma ==
  \/ last_comma = NullPointer /\ Counted = {}
  \/ last_comma \in Counted /\ \A k \in Counted : k <= last_comma

\* The array is as long as there are places, and holds the fields before lasts.
SplitInv ==
  /\ input \in Seq(Words) /\ Len(input) <= MaxLen
  /\ pc \in {"count", "tokens", "done", "abort", "no_memory"}
  /\ tmp \in 1 .. Len(input) + 1 /\ lasts \in 1 .. Len(input) + 1
  /\ LastComma
  /\ count = IF pc = "count" THEN Cardinality(Counted) ELSE Cardinality(Places(input)) + 1
  /\ result \in Seq(Seq(Words)) /\ idx = Cardinality(Taken)
  /\ \A n \in 1 .. idx : result[n] = Fields(input, Delim)[n]
  /\ pc \in {"done", "abort"} => Taken = Starts(input, Delim)
  /\ pc = "done" => idx = count - 1
  /\ pc = "abort" => idx # count - 1

\* Every text there is at the start is a sequence.
LEMMA SplitInit == Init => SplitInv
<1> SUFFICES ASSUME Init PROVE SplitInv
  OBVIOUS
<1> USE SplitAssumption DEF Init
<1>1. input \in Seq(Words) /\ Len(input) <= MaxLen /\ Len(input) \in Nat
  <2>1. PICK n \in 0 .. MaxLen : input \in [1 .. n -> Words]
    BY DEF Texts
  <2> QED BY <2>1
<1>2. Counted = {}
  BY PlacesType, <1>1 DEF Counted
<1>3. Taken = {}
  BY StartsType, <1>1 DEF Taken
<1>4. Cardinality({}) = 0
  BY FS_EmptySet
<1>5. result \in Seq(Seq(Words)) /\ idx = 0
  BY DEF idx
<1> QED BY <1>1, <1>2, <1>3, <1>4, <1>5 DEF SplitInv, LastComma

\* What the invariant says of the sets it counts.
LEMMA SplitSets ==
  ASSUME SplitInv
  PROVE  /\ IsFiniteSet(Starts(input, Delim)) /\ Starts(input, Delim) \in SUBSET (1 .. Len(input))
         /\ Starts(input, Delim) \in SUBSET Int
         /\ IsFiniteSet(Taken) /\ IsFiniteSet(Counted)
         /\ Cardinality(Taken) \in Nat /\ Cardinality(Counted) \in Nat
         /\ Cardinality(Starts(input, Delim)) \in Nat /\ Cardinality(Places(input)) \in Nat
         /\ Cardinality(Taken) <= Cardinality(Starts(input, Delim))
         /\ Cardinality(Starts(input, Delim)) <= Cardinality(Places(input))
<1>1. input \in Seq(Words)
  BY DEF SplitInv
<1>2. /\ IsFiniteSet(Starts(input, Delim)) /\ Starts(input, Delim) \in SUBSET (1 .. Len(input))
      /\ Starts(input, Delim) \in SUBSET Int
  BY <1>1, StartsType
<1>3. IsFiniteSet(Taken) /\ Cardinality(Taken) <= Cardinality(Starts(input, Delim))
  BY <1>2, FS_Subset DEF Taken
<1>4. IsFiniteSet(Counted)
  BY <1>1, PlacesType, FS_Subset DEF Counted
<1>5. /\ Cardinality(Taken) \in Nat /\ Cardinality(Counted) \in Nat
      /\ Cardinality(Starts(input, Delim)) \in Nat
  BY <1>2, <1>3, <1>4, FS_CardinalityType
<1> QED BY <1>1, <1>2, <1>3, <1>4, <1>5, PlacesType, StartsArePlaced

\* The first loop counts one more delimiter, or passes a word.
LEMMA CountKeeps == SplitInv /\ CountDelim => SplitInv'
<1> SUFFICES ASSUME SplitInv, CountDelim PROVE SplitInv'
  OBVIOUS
<1> USE DEF CountDelim
<1>1. UNCHANGED <<input, pc, result, lasts>> /\ pc = "count" /\ Taken' = Taken
  BY DEF Taken
<1>2. tmp \in 1 .. Len(input) /\ tmp' = tmp + 1 /\ Len(input) \in Nat /\ input \in Seq(Words)
  BY DEF SplitInv
<1>3. IsFiniteSet(Counted) /\ Cardinality(Counted) \in Nat
  BY SplitSets
<1>4. tmp \notin Counted /\ \A k \in Counted : k \in Int
  BY <1>2, PlacesType DEF Counted
<1>5. CASE input[tmp] = Delim
  <2>1. Counted' = Counted \cup {tmp}
    BY <1>1, <1>2, <1>5, PlacesType DEF Counted, Delims
  <2>2. Cardinality(Counted') = Cardinality(Counted) + 1
    BY <1>3, <1>4, <2>1, FS_AddElement
  <2>3. last_comma' = tmp /\ count' = count + 1
    BY <1>5
  <2>4. last_comma' \in Counted' /\ \A k \in Counted' : k <= last_comma'
    BY <1>2, <1>4, <2>1, <2>3 DEF Counted
  <2>5. LastComma'
    BY <2>4 DEF LastComma
  <2> QED BY <1>1, <1>2, <1>3, <2>2, <2>3, <2>5 DEF SplitInv, idx
<1>6. CASE input[tmp] # Delim
  <2>1. Counted' = Counted
    BY <1>1, <1>2, <1>6, PlacesType DEF Counted, Delims
  <2>2. last_comma' = last_comma /\ count' = count
    BY <1>6
  <2>3. LastComma'
    BY <2>1, <2>2 DEF LastComma, SplitInv
  <2> QED BY <1>1, <1>2, <2>1, <2>2, <2>3 DEF SplitInv, idx
<1> QED BY <1>5, <1>6

\* The array gets one element for each place, and one for the null.
LEMMA AllocateKeeps == SplitInv /\ Allocate => SplitInv'
<1> SUFFICES ASSUME SplitInv, Allocate PROVE SplitInv'
  OBVIOUS
<1> USE DEF Allocate
<1>1. UNCHANGED <<input, tmp, last_comma, result, lasts>> /\ pc = "count"
      /\ pc' \in {"tokens", "no_memory"}
  OBVIOUS
<1>2. Taken' = Taken /\ Counted' = Counted /\ Places(input)' = Places(input)
  BY <1>1 DEF Taken, Counted, Places, Delims
<1>3. tmp = Len(input) + 1 /\ Len(input) \in Nat /\ input \in Seq(Words)
  BY DEF SplitInv
<1>4. Delims(input) \in SUBSET (1 .. Len(input))
  BY <1>3, PlacesType
<1>5. Counted = Delims(input)
  BY <1>3, <1>4 DEF Counted
<1>6. last_comma < Len(input) <=> Len(input) \notin Delims(input)
  BY <1>3, <1>4, <1>5 DEF SplitInv, LastComma, NullPointer
<1>7. count' = Cardinality(Places(input)) + 1
  BY <1>3, <1>5, <1>6, PlacesType DEF SplitInv
<1>8. LastComma'
  BY <1>1, <1>2 DEF SplitInv, LastComma
<1> QED BY <1>1, <1>2, <1>7, <1>8 DEF SplitInv, idx

\* strtok takes the next field.
LEMMA StoreKeeps == SplitInv /\ StoreToken => SplitInv'
<1> SUFFICES ASSUME SplitInv, StoreToken PROVE SplitInv'
  OBVIOUS
<1> DEFINE S == Starts(input, Delim)
           i == Min(NextStarts)
           token == FieldAt(input, Delim, i)
<1>1. input \in Seq(Words) /\ Len(input) \in Nat /\ lasts \in 1 .. Len(input) + 1
  BY DEF SplitInv
<1>2. pc = "tokens" /\ NextStarts # {} /\ UNCHANGED <<input, tmp, last_comma, count>>
  BY DEF StoreToken
<1>3. idx < count /\ idx \in Nat
  BY <1>2, SplitSets DEF SplitInv
<1>4. result' = Append(result, token) /\ lasts' = i + Len(token) /\ UNCHANGED pc
  BY <1>3 DEF StoreToken
<1>5. NextStarts \in SUBSET Int /\ IsFiniteSet(NextStarts)
  BY SplitSets, FS_Subset DEF NextStarts
<1>6. i \in NextStarts /\ \A y \in NextStarts : i <= y
  BY <1>2, <1>5, LeastIs
<1>7. i \in S /\ lasts <= i /\ i \in 1 .. Len(input)
  BY <1>6, SplitSets DEF NextStarts
<1>8. /\ token \in Seq(Words) /\ Len(token) \in 1 .. Len(input) + 1 - i
      /\ \A k \in i .. i + Len(token) - 1 : input[k] # Delim
  BY <1>1, <1>7, FieldAtIs
<1> HIDE DEF i, token
<1>9. \A j \in S : j < lasts' <=> j <= i
  <2> SUFFICES ASSUME NEW j \in S PROVE j < lasts' <=> j <= i
    OBVIOUS
  <2>1. j \in 1 .. Len(input) /\ (j = 1 \/ input[j - 1] = Delim)
    BY <1>1 DEF Starts
  <2>2. ASSUME j > i, j < i + Len(token) PROVE FALSE
    <3>1. j - 1 \in i .. i + Len(token) - 1
      BY <1>7, <1>8, <2>1, <2>2
    <3>2. input[j - 1] # Delim /\ j # 1
      BY <1>7, <1>8, <2>1, <2>2, <3>1
    <3> QED BY <2>1, <3>2
  <2> QED BY <1>4, <1>7, <1>8, <2>1, <2>2
<1>10. \A j \in S : j <= i <=> j < lasts \/ j = i
  <2> SUFFICES ASSUME NEW j \in S PROVE j <= i <=> j < lasts \/ j = i
    OBVIOUS
  <2>1. j \in Int
    BY SplitSets
  <2>2. j < lasts \/ j \in NextStarts
    BY <1>1, <2>1 DEF NextStarts
  <2> QED BY <1>1, <1>6, <1>7, <2>1, <2>2
<1>11. Taken' = Taken \cup {i} /\ i \notin Taken /\ Taken' = {j \in S : j <= i}
  <2>1. Taken' = {j \in S : j < lasts'} /\ Taken = {j \in S : j < lasts}
    BY <1>2 DEF Taken
  <2>2. {j \in S : j < lasts'} = {j \in S : j <= i}
    BY <1>9
  <2>3. {j \in S : j <= i} = {j \in S : j < lasts} \cup {i}
    BY <1>7, <1>10
  <2>4. i \notin {j \in S : j < lasts}
    BY <1>1, <1>7
  <2> QED BY <2>1, <2>2, <2>3, <2>4
<1>12. Cardinality(Taken') = idx + 1 /\ Rank(S, i) = idx + 1
  <2>1. idx = Cardinality(Taken)
    BY DEF SplitInv
  <2>2. Cardinality(Taken \cup {i}) = Cardinality(Taken) + 1
    BY <1>11, SplitSets, FS_AddElement
  <2> QED BY <1>11, <2>1, <2>2 DEF Rank
<1>13. Fields(input, Delim)[idx + 1] = token
  BY <1>1, <1>7, <1>12, FieldOfRank DEF token
<1>14. /\ result' \in Seq(Seq(Words)) /\ idx' = idx + 1
       /\ \A n \in 1 .. idx : result'[n] = result[n]
       /\ result'[idx + 1] = token
  BY <1>4, <1>8 DEF SplitInv, idx
<1>15. \A n \in 1 .. idx' : result'[n] = Fields(input, Delim)[n]
  <2> SUFFICES ASSUME NEW n \in 1 .. idx + 1 PROVE result'[n] = Fields(input, Delim)[n]
    BY <1>14
  <2>1. n \in 1 .. idx \/ n = idx + 1
    BY <1>3
  <2> QED BY <1>13, <1>14, <2>1 DEF SplitInv
<1>16. lasts' \in 1 .. Len(input) + 1
  BY <1>1, <1>4, <1>7, <1>8
<1>17. LastComma' /\ Places(input)' = Places(input) /\ Counted' = Counted
  BY <1>2 DEF SplitInv, LastComma, Counted, Places, Delims
<1> QED BY <1>2, <1>4, <1>12, <1>14, <1>15, <1>16, <1>17 DEF SplitInv

\* No token is left.
LEMMA TerminateKeeps == SplitInv /\ Terminate => SplitInv'
<1> SUFFICES ASSUME SplitInv, Terminate PROVE SplitInv'
  OBVIOUS
<1>1. /\ pc = "tokens" /\ NextStarts = {} /\ UNCHANGED <<input, tmp, last_comma, count, result, lasts>>
      /\ pc' = IF idx = count - 1 THEN "done" ELSE "abort"
  BY DEF Terminate
<1>2. Taken = Starts(input, Delim)
  <2>1. \A j \in Starts(input, Delim) : j < lasts
    BY <1>1, SplitSets DEF NextStarts, SplitInv
  <2> QED BY <2>1 DEF Taken
<1>3. /\ Taken' = Taken /\ Counted' = Counted /\ Places(input)' = Places(input)
      /\ idx' = idx /\ LastComma'
  BY <1>1 DEF Taken, Counted, Places, Delims, LastComma, SplitInv, idx
<1> QED BY <1>1, <1>2, <1>3 DEF SplitInv

\* SplitInv in every state of a behaviour.
LEMMA SplitInvariant == Spec => []SplitInv
<1>1. SplitInv /\ UNCHANGED vars => SplitInv'
  BY DEF SplitInv, LastComma, Counted, Taken, Places, Delims, idx, vars
<1>2. SplitInv /\ [Next]_vars => SplitInv'
  BY <1>1, CountKeeps, AllocateKeeps, StoreKeeps, TerminateKeeps DEF Next
<1> QED BY <1>2, SplitInit, PTL DEF Spec

-----------------------------------------------------------------------------
\* Every variable of str_split has its type for texts of any length (21-67).
THEOREM SplitTypeCorrect == Spec => []TypeOK
<1> DEFINE Bounded == input \in Texts
<1>1. Init => Bounded
  BY DEF Init
<1>2. Bounded /\ [Next]_vars => Bounded'
  BY DEF Next, CountDelim, Allocate, StoreToken, Terminate, vars
<1>3. Bounded /\ SplitInv => TypeOK
  <2> SUFFICES ASSUME input \in Texts, SplitInv PROVE TypeOK
    OBVIOUS
  <2>1. MaxLen \in Nat /\ Len(input) \in 0 .. MaxLen /\ input \in Seq(Words)
    BY SplitAssumption DEF SplitInv
  <2>2. /\ Cardinality(Starts(input, Delim)) <= Len(input)
        /\ Cardinality(Delims(input)) <= Len(input)
    <3> DEFINE n == Len(input)
    <3>1. n \in Nat
      BY <2>1
    <3>2. Starts(input, Delim) \in SUBSET (1 .. n) /\ Delims(input) \in SUBSET (1 .. n)
      BY <2>1, StartsType, PlacesType
    <3> HIDE DEF n
    <3>3. IsFiniteSet(1 .. n) /\ Cardinality(1 .. n) = n
      BY <3>1, FS_Interval
    <3>4. \A T \in SUBSET (1 .. n) : Cardinality(T) <= n
      <4>1. ASSUME NEW T \in SUBSET (1 .. n) PROVE Cardinality(T) <= Cardinality(1 .. n)
        BY <3>3, FS_Subset
      <4> QED BY <3>3, <4>1
    <3> QED BY <3>2, <3>4 DEF n
  <2>3. Cardinality(Counted) <= Cardinality(Delims(input))
    BY <2>1, PlacesType, FS_Subset DEF Counted
  <2>4. count \in 0 .. MaxLen + 2
    <3>1. /\ Cardinality(Delims(input)) \in Nat /\ Cardinality(Counted) \in Nat
          /\ Cardinality(Places(input)) \in Nat
      BY <2>1, SplitSets, PlacesType
    <3>2. Cardinality(Places(input)) <= Cardinality(Delims(input)) + 1
      BY <2>1, <3>1, PlacesType
    <3>3. count \in {Cardinality(Counted), Cardinality(Places(input)) + 1}
      BY DEF SplitInv
    <3> QED BY <2>1, <2>2, <2>3, <3>1, <3>2, <3>3
  <2>5. last_comma \in {NullPointer} \cup 1 .. MaxLen
    BY <2>1, PlacesType DEF SplitInv, LastComma, Counted
  <2>6. idx <= MaxLen
    BY <2>1, <2>2, SplitSets DEF SplitInv
  <2> QED BY <2>1, <2>4, <2>5, <2>6 DEF SplitInv, TypeOK
<1> HIDE DEF Bounded
<1> QED BY <1>1, <1>2, <1>3, SplitInvariant, PTL DEF Spec

\* The array of str_split has room for every token and the final null (48, 55).
THEOREM SplitInBounds == Spec => []ResultInBounds
<1>1. SplitInv => ResultInBounds
  <2> SUFFICES ASSUME SplitInv, pc \in {"tokens", "done"} PROVE idx < count
    BY DEF ResultInBounds
  <2>1. idx = Cardinality(Taken) /\ count = Cardinality(Places(input)) + 1
    BY DEF SplitInv
  <2> QED BY <2>1, SplitSets
<1> QED BY <1>1, SplitInvariant, PTL

\* What str_split returns are the fields of the text, in order (51-63).
THEOREM SplitIsFields == Spec => []ResultIsFields
<1>1. SplitInv => ResultIsFields
  <2> SUFFICES ASSUME SplitInv, pc = "done"
               PROVE  result = Fields(input, Delim) /\ count = idx + 1
    BY DEF ResultIsFields
  <2>1. idx = Cardinality(Starts(input, Delim)) /\ idx = count - 1 /\ idx \in Nat
    BY SplitSets DEF SplitInv
  <2>2. count = Cardinality(Places(input)) + 1 /\ Cardinality(Places(input)) \in Nat
    BY SplitSets DEF SplitInv
  <2>3. Fields(input, Delim) \in Seq(Seq(Words)) /\ Len(Fields(input, Delim)) = idx
    BY <2>1, FieldsType DEF SplitInv
  <2>4. result \in Seq(Seq(Words)) /\ Len(result) = idx
        /\ \A n \in 1 .. idx : result[n] = Fields(input, Delim)[n]
    BY DEF SplitInv, idx
  <2> QED BY <2>1, <2>2, <2>3, <2>4
<1> QED BY <1>1, SplitInvariant, PTL

\* The assertions of str_split fail exactly on texts with an empty field (55, 62).
THEOREM SplitAborts == Spec => []AbortsOnEmptyField
<1>1. SplitInv => AbortsOnEmptyField
  <2> SUFFICES ASSUME SplitInv, pc \in {"done", "abort"}
               PROVE  pc = "done" <=> Regular(input, Delim)
    BY DEF AbortsOnEmptyField
  <2>1. idx = Cardinality(Starts(input, Delim)) /\ (pc = "done" <=> idx = count - 1)
    BY DEF SplitInv
  <2>2. count = Cardinality(Places(input)) + 1 /\ Cardinality(Places(input)) \in Nat
    BY SplitSets DEF SplitInv
  <2>3. Cardinality(Starts(input, Delim)) = Cardinality(Places(input)) <=> Regular(input, Delim)
    BY StartsArePlaced DEF SplitInv
  <2> QED BY <2>1, <2>2, <2>3
<1> QED BY <1>1, SplitInvariant, PTL
=============================================================================
