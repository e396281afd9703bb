---------------------------- MODULE StackProofs ----------------------------
(***************************************************************************)
(* One thread on a stack of any size: the list never runs through freed    *)
(* memory or in a circle, nothing is lost, and it is the stack stack.h     *)
(* promises.                                                               *)
(*                                                                         *)
(* What next and head spell is a sequence of different entries, IsList.    *)
(* Reach follows the pointers by recursion, and ReachIs turns it into that *)
(* sequence once and for all; the steps are then told of sequences: a push *)
(* puts an entry in front when head is stored, a pop takes the front off   *)
(* when head moves on, and no other step touches the list.                 *)
(***************************************************************************)
EXTENDS Stack, FiniteSetTheorems, SequenceTheorems, WellFoundedInduction, TLAPS

Elements(s) == {s[i] : i \in 1 .. Len(s)}
Different(s) == \A i, j \in 1 .. Len(s) : s[i] = s[j] => i = j
Linked(s) == \A i \in 1 .. Len(s) : next[s[i]] = IF i = Len(s) THEN NULL ELSE s[i + 1]
IsList(s) ==
  /\ s \in Seq(Nodes) /\ Different(s) /\ Linked(s)
  /\ head = IF s = <<>> THEN NULL ELSE s[1]

\* Different entries are no more than there are.
LEMMA ListIsShort ==
  ASSUME NEW s \in Seq(Nodes), Different(s)
  PROVE  Len(s) \in 0 .. Cardinality(Nodes) /\ Cardinality(Nodes) \in Nat
<1>1. Cardinality(Nodes) \in Nat /\ IsFiniteSet(Nodes)
  BY StackAssumption, FS_CardinalityType
<1>2. Len(s) \in Nat /\ IsFiniteSet(1 .. Len(s)) /\ Cardinality(1 .. Len(s)) = Len(s)
  <2>1. Len(s) \in Nat /\ 1 \in Int /\ Len(s) \in Int
    OBVIOUS
  <2>2. /\ IsFiniteSet(1 .. Len(s))
        /\ Cardinality(1 .. Len(s)) = IF 1 > Len(s) THEN 0 ELSE Len(s) - 1 + 1
    BY <2>1, FS_Interval
  <2> QED BY <2>1, <2>2
<1>3. s \in Injection(1 .. Len(s), Nodes)
  BY DEF Different, Injection, IsInjective
<1>4. Cardinality(1 .. Len(s)) <= Cardinality(Nodes)
  BY <1>1, <1>3, FS_Injection
<1> QED BY <1>1, <1>2, <1>4

\* A set of numbers that is not empty has a least one.
LEMMA LeastNumber ==
  ASSUME NEW T \in SUBSET Nat, T # {}
  PROVE  \E n \in T : \A m \in T : ~(m < n)
<1>1. PICK n \in T : \A m \in T : ~(<<m, n>> \in OpToRel(<, Nat))
  BY NatLessThanWellFounded, WFMin
<1> QED BY <1>1 DEF OpToRel

\* Reach follows the list and then stands at NULL.
LEMMA ReachIs ==
  \A s : IsList(s) =>
    Reach = [k \in 0 .. Cardinality(Nodes) |-> IF k < Len(s) THEN s[k + 1] ELSE NULL]
<1> SUFFICES ASSUME NEW s, IsList(s)
             PROVE  Reach = [k \in 0 .. Cardinality(Nodes) |->
                               IF k < Len(s) THEN s[k + 1] ELSE NULL]
  OBVIOUS
<1> DEFINE Step(g, k) == IF k = 0 THEN head ELSE IF g[k - 1] = NULL THEN NULL ELSE next[g[k - 1]]
           f == [k \in Nat |-> IF k < Len(s) THEN s[k + 1] ELSE NULL]
           at == CHOOSE g : g = [k \in Nat |-> Step(g, k)]
<1>1. Reach = [k \in 0 .. Cardinality(Nodes) |-> at[k]]
  BY DEF Reach
<1>2. Len(s) \in Nat /\ NULL \notin Nodes /\ Cardinality(Nodes) \in Nat
  BY StackAssumption, ListIsShort DEF IsList
<1>3. ASSUME NEW k \in Nat PROVE f[k] = Step(f, k)
  <2>1. CASE k = 0
    BY <1>2, <2>1 DEF IsList
  <2>2. CASE k # 0 /\ k - 1 < Len(s)
    <3>1. k \in 1 .. Len(s) /\ k - 1 \in Nat /\ f[k - 1] = s[k] /\ s[k] \in Nodes
      BY <1>2, <2>2 DEF IsList
    <3>2. next[s[k]] = IF k = Len(s) THEN NULL ELSE s[k + 1]
      BY <3>1 DEF IsList, Linked
    <3> QED BY <1>2, <2>2, <3>1, <3>2
  <2>3. CASE k # 0 /\ ~(k - 1 < Len(s))
    <3>1. k - 1 \in Nat /\ f[k - 1] = NULL /\ ~(k < Len(s))
      BY <1>2, <2>3
    <3> QED BY <2>3, <3>1
  <2> QED BY <2>1, <2>2, <2>3
<1>4. f = [k \in Nat |-> Step(f, k)]
  BY <1>3
<1>5. at = [k \in Nat |-> Step(at, k)]
  BY <1>4
<1> HIDE DEF at, f
<1>6. ASSUME NEW n \in Nat, at[n] # f[n] PROVE FALSE
  <2> DEFINE T == {k \in Nat : at[k] # f[k]}
  <2>1. PICK k \in T : \A m \in T : ~(m < k)
    BY <1>6, LeastNumber
  <2>2. k # 0 => k - 1 \in Nat /\ at[k - 1] = f[k - 1]
    BY <2>1
  <2>3. at[k] = Step(at, k) /\ f[k] = Step(f, k)
    BY <1>3, <1>5, <2>1
  <2> QED BY <2>1, <2>2, <2>3
<1>7. \A k \in 0 .. Cardinality(Nodes) : at[k] = IF k < Len(s) THEN s[k + 1] ELSE NULL
  BY <1>2, <1>6 DEF f
<1> QED BY <1>1, <1>7

\* What the properties say of Reach, said of the list.
ReachIsList ==
  \A s : IsList(s) => /\ Reach[Cardinality(Nodes)] = NULL
                      /\ Chain = Elements(s)
                      /\ Depth = Len(s)
                      /\ Contents = [i \in 1 .. Len(s) |-> data[s[i]]]
LEMMA ListIs == ReachIsList
<1> SUFFICES ASSUME NEW s, IsList(s)
             PROVE  /\ Reach[Cardinality(Nodes)] = NULL
                    /\ Chain = Elements(s)
                    /\ Depth = Len(s)
                    /\ Contents = [i \in 1 .. Len(s) |-> data[s[i]]]
  BY DEF ReachIsList
<1> DEFINE N == Cardinality(Nodes)
<1>1. N \in Nat /\ Len(s) \in 0 .. N
  BY ListIsShort DEF IsList
<1>2. DOMAIN Reach = 0 .. N /\ \A k \in 0 .. N : Reach[k] = IF k < Len(s) THEN s[k + 1] ELSE NULL
  BY ReachIs
<1>3. \A i \in 1 .. Len(s) : s[i] \in Nodes /\ s[i] # NULL
  BY StackAssumption DEF IsList
<1> HIDE DEF N
<1>4. Reach[N] = NULL
  BY <1>1, <1>2
<1>5. \A i \in 1 .. Len(s) : i - 1 \in 0 .. N /\ Reach[i - 1] = s[i]
  BY <1>1, <1>2
<1>6. Chain = Elements(s)
  <2>1. Elements(s) \subseteq Chain
    BY <1>2, <1>3, <1>5 DEF Chain, Elements
  <2>2. ASSUME NEW k \in 0 .. N, Reach[k] # NULL PROVE Reach[k] \in Elements(s)
    <3>1. k + 1 \in 1 .. Len(s) /\ Reach[k] = s[k + 1]
      BY <1>1, <1>2, <2>2
    <3> QED BY <3>1 DEF Elements
  <2> QED BY <1>2, <2>1, <2>2 DEF Chain
<1>7. Depth = Len(s)
  <2>1. {k \in DOMAIN Reach : Reach[k] # NULL} = 0 .. Len(s) - 1
    <3>1. \A k \in 0 .. Len(s) - 1 : k \in 0 .. N /\ k < Len(s) /\ k + 1 \in 1 .. Len(s)
      BY <1>1
    <3>2. \A k \in 0 .. N : k < Len(s) => k \in 0 .. Len(s) - 1
      BY <1>1
    <3> QED BY <1>2, <1>3, <3>1, <3>2
  <2>2. Cardinality(0 .. Len(s) - 1) = Len(s)
    <3>1. 0 \in Int /\ Len(s) - 1 \in Int
      BY <1>1
    <3>2. Cardinality(0 .. Len(s) - 1) = IF 0 > Len(s) - 1 THEN 0 ELSE (Len(s) - 1) - 0 + 1
      BY <3>1, FS_Interval
    <3> QED BY <1>1, <3>2
  <2> QED BY <2>1, <2>2 DEF Depth
<1>8. Contents = [i \in 1 .. Len(s) |-> data[s[i]]]
  BY <1>5, <1>7 DEF Contents
<1> QED BY <1>4, <1>6, <1>7, <1>8 DEF N

-----------------------------------------------------------------------------
\* Where the only thread is, and what the list is there.
Local(t, s) ==
  /\ pc[t] \in {"copy", "link", "publish", "release"} =>
       /\ entry[t] \in Nodes /\ entry[t] \notin Elements(s)
       /\ allocated = Elements(s) \cup {entry[t]}
  /\ pc[t] \notin {"copy", "link", "publish", "release"} => allocated = Elements(s)
  /\ pc[t] = "publish" => next[entry[t]] = head
  /\ pc[t] = "unlink" => entry[t] = head /\ s # <<>>
  /\ pc[t] = "free" => s = <<>>
  /\ pc[t] \in {"release", "decrement"} => stackSize = Len(s) + 1
  /\ pc[t] = "increment" => stackSize = Len(s) - 1 /\ s # <<>>
  /\ pc[t] \notin {"release", "decrement", "increment"} => stackSize = Len(s)
  /\ ~exists => s = <<>> /\ pc[t] \in {"idle", "fault"}
  /\ pc[t] = "fault" => ~exists

ListInv(t, s) == TypeOK /\ IsList(s) /\ Local(t, s)

\* At the start there is no stack.
LEMMA ListInit ==
  ASSUME NEW t \in Threads, Init
  PROVE  ListInv(t, <<>>)
<1>1. <<>> \in Seq(Nodes) /\ Len(<<>>) = 0 /\ 1 .. 0 = {}
  OBVIOUS
<1>2. TypeOK
  BY DEF Init, TypeOK
<1>3. IsList(<<>>)
  BY <1>1 DEF Init, IsList, Different, Linked
<1>4. Elements(<<>>) = {}
  BY <1>1 DEF Elements
<1> QED BY <1>1, <1>2, <1>3, <1>4 DEF ListInv, Local, Init

\* The steps that leave the list as it is.
Still(t) ==
  \/ newStack(t) \/ Push(t) \/ CopyString(t) \/ LinkNext(t) \/ IncrementSize(t)
  \/ (\E caller \in {"pop", "clear", "destroy"} : StartPop(t, caller)) \/ DestroyNothing(t)
  \/ Empty(t) \/ SaveHead(t) \/ Release(t) \/ DecrementSize(t) \/ FreeStack(t)

LEMMA TypeStep ==
  ASSUME NEW t, Threads = {t}, NEW s, ListInv(t, s), [Next]_vars
  PROVE  TypeOK'
<1>1. TypeOK /\ t \in Threads
  BY DEF ListInv
<1>2. CASE newStack(t) \/ Push(t) \/ CopyString(t) \/ LinkNext(t) \/ PublishHead(t)
  <2>1. pc[t] \in {"copy", "link", "publish"} => entry[t] \in Nodes
    BY DEF ListInv, Local
  <2>2. CASE newStack(t)
    BY <1>1, <2>2 DEF TypeOK, newStack
  <2>3. CASE Push(t)
    BY <1>1, <2>3 DEF TypeOK, Goto, list, Push
  <2>4. CASE CopyString(t)
    BY <1>1, <2>1, <2>4 DEF TypeOK, Goto, CopyString
  <2>5. CASE LinkNext(t)
    BY <1>1, <2>1, <2>5 DEF TypeOK, Goto, LinkNext
  <2>6. CASE PublishHead(t)
    BY <1>1, <2>1, <2>6 DEF TypeOK, Goto, PublishHead
  <2> QED BY <1>2, <2>2, <2>3, <2>4, <2>5, <2>6
<1>3. CASE IncrementSize(t) \/ DecrementSize(t)
  <2>1. stackSize' \in Nat
    <3>1. stackSize \in Nat /\ (pc[t] = "decrement" => stackSize = Len(s) + 1) /\ s \in Seq(Nodes)
      BY DEF ListInv, Local, TypeOK, IsList
    <3> QED BY <1>3, <3>1 DEF IncrementSize, DecrementSize, Goto
  <2> QED BY <1>1, <1>3, <2>1 DEF TypeOK, Goto, IncrementSize, DecrementSize
<1>4. CASE \E caller \in {"pop", "clear", "destroy"} : StartPop(t, caller)
  BY <1>1, <1>4 DEF TypeOK, Goto, list, StartPop
<1>5. CASE DestroyNothing(t) \/ Empty(t) \/ SaveHead(t) \/ Unlink(t) \/ Release(t) \/ FreeStack(t)
  <2>1. CASE DestroyNothing(t) \/ Empty(t)
    BY <1>1, <2>1 DEF TypeOK, Goto, list, DestroyNothing, Empty
  <2>2. CASE SaveHead(t)
    BY <1>1, <2>2 DEF TypeOK, Goto, list, SaveHead
  <2>3. CASE Unlink(t)
    BY <1>1, <2>3 DEF TypeOK, Goto, list, Unlink
  <2>4. CASE Release(t)
    BY <1>1, <2>4 DEF TypeOK, Goto, list, Release
  <2>5. CASE FreeStack(t)
    BY <1>1, <2>5 DEF TypeOK, Goto, list, FreeStack
  <2> QED BY <1>5, <2>1, <2>2, <2>3, <2>4, <2>5
<1>6. CASE UNCHANGED vars
  BY <1>1, <1>6 DEF TypeOK, vars
<1> QED BY <1>2, <1>3, <1>4, <1>5, <1>6 DEF Next

\* They do, and keep what is said of the place of the thread.
LEMMA StillStep ==
  ASSUME NEW t, Threads = {t}, NEW s, ListInv(t, s), Still(t)
  PROVE  IsList(s)' /\ Local(t, s)'
<1>1. /\ t \in Threads /\ TypeOK /\ IsList(s) /\ Local(t, s) /\ s \in Seq(Nodes) /\ Len(s) \in Nat
      /\ \A i \in 1 .. Len(s) : s[i] \in Elements(s) /\ s[i] \in Nodes
      /\ NULL \notin Nodes
      /\ (s # <<>> => Len(s) # 0)
  BY StackAssumption DEF ListInv, IsList, Elements
<1>2. CASE newStack(t)
  BY <1>1, <1>2 DEF newStack, IsList, Local, Linked
<1>3. CASE Push(t)
  <2>1. PICK n \in Nodes \ allocated :
          entry' = [entry EXCEPT ![t] = n] /\ allocated' = allocated \cup {n}
    BY <1>3 DEF Push
  <2>2. UNCHANGED <<exists, list>> /\ exists /\ pc[t] = "idle" /\ pc'[t] = "copy"
    BY <1>1, <1>3 DEF Push, Goto, TypeOK
  <2> QED BY <1>1, <2>1, <2>2 DEF IsList, Local, Linked, list, TypeOK
<1>4. CASE CopyString(t)
  <2>1. UNCHANGED <<exists, head, stackSize, next, allocated, entry>>
        /\ pc[t] = "copy" /\ pc'[t] = "link"
    BY <1>1, <1>4 DEF CopyString, Goto, TypeOK
  <2> QED BY <1>1, <2>1 DEF IsList, Local, Linked
<1>5. CASE LinkNext(t)
  <2>1. UNCHANGED <<exists, head, stackSize, allocated, entry>>
        /\ pc[t] = "link" /\ pc'[t] = "publish" /\ next' = [next EXCEPT ![entry[t]] = head]
    BY <1>1, <1>5 DEF LinkNext, Goto, TypeOK
  <2>2. entry[t] \in Nodes /\ entry[t] \notin Elements(s)
    BY <1>1, <2>1 DEF Local
  <2>3. next'[entry[t]] = head /\ \A i \in 1 .. Len(s) : next'[s[i]] = next[s[i]]
    BY <1>1, <2>1, <2>2 DEF TypeOK
  <2>4. IsList(s)'
    BY <1>1, <2>1, <2>3 DEF IsList, Linked
  <2> QED BY <1>1, <2>1, <2>3, <2>4 DEF Local
<1>6. CASE IncrementSize(t)
  <2>1. UNCHANGED <<exists, head, next, allocated, entry>>
        /\ pc[t] = "increment" /\ pc'[t] = "idle" /\ stackSize' = stackSize + 1
    BY <1>1, <1>6 DEF IncrementSize, Goto, TypeOK
  <2> QED BY <1>1, <2>1 DEF IsList, Local, Linked
<1>7. CASE \/ \E caller \in {"pop", "clear", "destroy"} : StartPop(t, caller)
           \/ DestroyNothing(t)
  <2>1. UNCHANGED <<exists, list, allocated, entry>> /\ pc[t] = "idle"
        /\ \/ exists /\ pc'[t] = "test"
           \/ ~exists /\ pc'[t] = "fault"
    BY <1>1, <1>7 DEF StartPop, DestroyNothing, Goto, TypeOK
  <2> QED BY <1>1, <2>1 DEF IsList, Local, Linked, list
<1>8. CASE Empty(t)
  <2>1. UNCHANGED <<exists, list, allocated, entry>> /\ pc[t] = "test"
        /\ pc'[t] \in {"free", "idle"} /\ head = NULL
    BY <1>1, <1>8 DEF Empty, Goto, TypeOK
  <2>2. s = <<>>
    BY <1>1, <2>1 DEF IsList
  <2> QED BY <1>1, <2>1, <2>2 DEF IsList, Local, Linked, list
<1>9. CASE SaveHead(t)
  <2>1. UNCHANGED <<exists, list, allocated>> /\ pc[t] = "test"
        /\ pc'[t] = "unlink" /\ head # NULL /\ entry'[t] = head
    BY <1>1, <1>9 DEF SaveHead, Goto, TypeOK
  <2> QED BY <1>1, <2>1 DEF IsList, Local, Linked, list
<1>10. CASE Release(t)
  <2>1. UNCHANGED <<exists, list, entry>> /\ pc[t] = "release"
        /\ pc'[t] = "decrement" /\ allocated' = allocated \ {entry[t]}
    BY <1>1, <1>10 DEF Release, Goto, TypeOK
  <2> QED BY <1>1, <2>1 DEF IsList, Local, Linked, list
<1>11. CASE DecrementSize(t)
  <2>1. UNCHANGED <<exists, head, next, allocated, entry>> /\ pc[t] = "decrement"
        /\ pc'[t] \in {"idle", "test"} /\ stackSize' = stackSize - 1
    BY <1>1, <1>11 DEF DecrementSize, Goto, TypeOK
  <2> QED BY <1>1, <2>1 DEF IsList, Local, Linked
<1>12. CASE FreeStack(t)
  <2>1. UNCHANGED <<list, allocated, entry>> /\ pc[t] = "free"
        /\ pc'[t] = "idle"
    BY <1>1, <1>12 DEF FreeStack, Goto, TypeOK
  <2> QED BY <1>1, <2>1 DEF IsList, Local, Linked, list
<1> QED BY <1>2, <1>3, <1>4, <1>5, <1>6, <1>7, <1>8, <1>9, <1>10, <1>11, <1>12 DEF Still

\* A push puts the new entry in front.
LEMMA PublishStep ==
  ASSUME NEW t, Threads = {t}, NEW s, NEW e, ListInv(t, s), PublishHead(t), e = entry[t]
  PROVE  /\ exists /\ e \in Nodes /\ UNCHANGED <<exists, data>>
         /\ IsList(<<e>> \o s)' /\ Local(t, <<e>> \o s)'
<1> DEFINE r == <<e>> \o s
<1>1. /\ t \in Threads /\ TypeOK /\ IsList(s) /\ Local(t, s) /\ s \in Seq(Nodes) /\ Len(s) \in Nat
  BY DEF ListInv, IsList
<1>2. /\ UNCHANGED <<exists, stackSize, next, data, allocated, entry>>
      /\ pc[t] = "publish" /\ pc'[t] = "increment" /\ head' = e
  BY <1>1 DEF PublishHead, Goto, TypeOK
<1>3. /\ e \in Nodes /\ e \notin Elements(s) /\ allocated = Elements(s) \cup {e}
      /\ next[e] = head /\ stackSize = Len(s) /\ exists
  BY <1>1, <1>2 DEF Local
<1>4. /\ r \in Seq(Nodes) /\ Len(r) = Len(s) + 1 /\ r[1] = e /\ r # <<>>
      /\ \A i \in 1 .. Len(s) : r[i + 1] = s[i]
      /\ \A i \in 2 .. Len(s) + 1 : i - 1 \in 1 .. Len(s) /\ r[i] = s[i - 1]
  BY <1>1, <1>3
<1>5. \A i \in 1 .. Len(s) : s[i] \in Elements(s)
  BY DEF Elements
<1> HIDE DEF r
<1>6. Different(r)
  <2> SUFFICES ASSUME NEW i \in 1 .. Len(s) + 1, NEW j \in 1 .. Len(s) + 1, r[i] = r[j]
               PROVE  i = j
    BY <1>4 DEF Different
  <2>1. CASE i = 1 \/ j = 1
    BY <1>1, <1>3, <1>4, <1>5, <2>1
  <2>2. CASE i # 1 /\ j # 1
    <3>1. i - 1 \in 1 .. Len(s) /\ j - 1 \in 1 .. Len(s) /\ s[i - 1] = s[j - 1]
      BY <1>1, <1>4, <2>2
    <3>2. i - 1 = j - 1
      BY <1>1, <3>1 DEF IsList, Different
    <3> QED BY <3>2
  <2> QED BY <2>1, <2>2
<1>7. Elements(r) = Elements(s) \cup {e}
  <2>1. 1 \in 1 .. Len(r) /\ \A i \in 1 .. Len(s) : i + 1 \in 1 .. Len(r)
    BY <1>1, <1>4
  <2>2. \A i \in 1 .. Len(r) : i = 1 \/ i \in 2 .. Len(s) + 1
    BY <1>1, <1>4
  <2>3. Elements(s) \cup {e} \subseteq Elements(r)
    <3>1. \A i \in 1 .. Len(s) : i + 1 \in 1 .. Len(r) /\ r[i + 1] = s[i]
      BY <1>4, <2>1
    <3>2. 1 \in 1 .. Len(r) /\ r[1] = e
      BY <1>4, <2>1
    <3> QED BY <3>1, <3>2 DEF Elements
  <2>4. ASSUME NEW i \in 1 .. Len(r) PROVE r[i] \in Elements(s) \cup {e}
    BY <1>4, <1>5, <2>2
  <2> QED BY <2>3, <2>4 DEF Elements
<1>8. Linked(r)
  <2> SUFFICES ASSUME NEW i \in 1 .. Len(r)
               PROVE  next[r[i]] = IF i = Len(r) THEN NULL ELSE r[i + 1]
    BY DEF Linked
  <2>1. CASE i = 1
    <3>1. head = IF s = <<>> THEN NULL ELSE s[1]
      BY <1>1 DEF IsList
    <3>2. s = <<>> <=> Len(s) = 0
      BY <1>1
    <3>3. Len(s) # 0 => r[1 + 1] = s[1]
      BY <1>1, <1>4
    <3> QED BY <1>1, <1>3, <1>4, <2>1, <3>1, <3>2, <3>3
  <2>2. CASE i # 1
    <3>1. i - 1 \in 1 .. Len(s) /\ r[i] = s[i - 1] /\ (i = Len(r) <=> i - 1 = Len(s))
      BY <1>1, <1>4, <2>2
    <3>2. i # Len(r) => r[i + 1] = s[i]
      BY <1>1, <1>4, <3>1
    <3>3. next[s[i - 1]] = IF i - 1 = Len(s) THEN NULL ELSE s[(i - 1) + 1]
      BY <1>1, <3>1 DEF IsList, Linked
    <3> QED BY <3>1, <3>2, <3>3
  <2> QED BY <2>1, <2>2
<1>9. IsList(r)'
  BY <1>2, <1>4, <1>6, <1>8 DEF IsList, Linked
<1>10. Local(t, r)'
  BY <1>1, <1>2, <1>3, <1>4, <1>7 DEF Local
<1> QED BY <1>2, <1>3, <1>9, <1>10 DEF r

\* A pop takes the front off.
LEMMA UnlinkStep ==
  ASSUME NEW t, Threads = {t}, NEW s, ListInv(t, s), Unlink(t)
  PROVE  /\ exists /\ s # <<>> /\ UNCHANGED <<exists, data>>
         /\ IsList(Tail(s))' /\ Local(t, Tail(s))'
<1> DEFINE r == Tail(s)
<1>1. /\ t \in Threads /\ TypeOK /\ IsList(s) /\ Local(t, s) /\ s \in Seq(Nodes) /\ Len(s) \in Nat
      /\ NULL \notin Nodes
  BY StackAssumption DEF ListInv, IsList
<1>2. pc[t] = "unlink"
  BY <1>1 DEF Unlink, Goto
<1>3. /\ s # <<>> /\ entry[t] = head /\ head = s[1] /\ s[1] \in Nodes /\ head # NULL
      /\ allocated = Elements(s) /\ stackSize = Len(s) /\ exists /\ Len(s) # 0
  BY <1>1, <1>2 DEF Local, IsList
<1>4. /\ UNCHANGED <<exists, stackSize, next, data, allocated, entry>>
      /\ pc'[t] = "release" /\ head' = next[head]
  BY <1>1, <1>3 DEF Unlink, Goto, TypeOK
<1>5. /\ r \in Seq(Nodes) /\ Len(r) = Len(s) - 1 /\ Len(r) \in Nat
      /\ \A i \in 1 .. Len(r) : r[i] = s[i + 1] /\ i + 1 \in 1 .. Len(s) /\ i + 1 # 1
      /\ \A i \in 1 .. Len(s) : i # 1 => i - 1 \in 1 .. Len(r) /\ r[i - 1] = s[i]
      /\ 1 \in 1 .. Len(s) /\ (r = <<>> <=> Len(s) = 1)
  <2>1. /\ r \in Seq(Nodes) /\ Len(r) = Len(s) - 1
        /\ \A i \in 1 .. Len(r) : r[i] = s[i + 1]
    BY <1>1, <1>3, HeadTailProperties
  <2> HIDE DEF r
  <2>2. Len(r) \in Nat /\ (r = <<>> <=> Len(r) = 0)
    BY <2>1, EmptySeq
  <2> QED BY <1>1, <1>3, <2>1, <2>2
<1> HIDE DEF r
<1>6. Different(r)
  <2> SUFFICES ASSUME NEW i \in 1 .. Len(r), NEW j \in 1 .. Len(r), r[i] = r[j] PROVE i = j
    BY DEF Different
  <2>1. i + 1 = j + 1
    BY <1>1, <1>5 DEF IsList, Different
  <2> QED BY <2>1
<1>7. Elements(s) = Elements(r) \cup {s[1]} /\ s[1] \notin Elements(r)
  <2>1. Elements(s) = Elements(r) \cup {s[1]}
    BY <1>5 DEF Elements
  <2>2. \A i \in 1 .. Len(r) : r[i] # s[1]
    BY <1>1, <1>5 DEF IsList, Different
  <2> QED BY <2>1, <2>2 DEF Elements
<1>8. Linked(r)
  <2> SUFFICES ASSUME NEW i \in 1 .. Len(r)
               PROVE  next[r[i]] = IF i = Len(r) THEN NULL ELSE r[i + 1]
    BY DEF Linked
  <2>1. next[s[i + 1]] = IF i + 1 = Len(s) THEN NULL ELSE s[(i + 1) + 1]
    BY <1>1, <1>5 DEF IsList, Linked
  <2>2. i # Len(r) => i + 1 \in 1 .. Len(r)
    BY <1>5
  <2>3. i # Len(r) => r[i + 1] = s[(i + 1) + 1]
    BY <1>5, <2>2
  <2>4. i = Len(r) <=> i + 1 = Len(s)
    BY <1>5, <1>1
  <2> QED BY <1>5, <2>1, <2>3, <2>4
<1>9. head' = IF r = <<>> THEN NULL ELSE r[1]
  <2>1. next[s[1]] = IF 1 = Len(s) THEN NULL ELSE s[1 + 1]
    BY <1>1, <1>5 DEF IsList, Linked
  <2>2. Len(s) # 1 => r[1] = s[1 + 1]
    BY <1>1, <1>5
  <2> QED BY <1>3, <1>4, <1>5, <2>1, <2>2
<1>10. IsList(r)'
  BY <1>4, <1>5, <1>6, <1>8, <1>9 DEF IsList, Linked
<1>11. Local(t, r)'
  BY <1>1, <1>3, <1>4, <1>5, <1>7 DEF Local
<1> QED BY <1>3, <1>4, <1>10, <1>11 DEF r

-----------------------------------------------------------------------------
\* Each step of the code on the stack of StringStack: new, push, pop, destroy,
\* nothing, or the push of half an entry.
StackStep == [~HalfPush => Abstract!Next]_<<exists, IF exists THEN Contents ELSE <<>>>>

LEMMA StillContents ==
  ASSUME NEW t, Threads = {t}, NEW s, ListInv(t, s), Still(t), IsList(s)'
  PROVE  StackStep
<1>1. /\ t \in Threads /\ TypeOK /\ IsList(s) /\ Local(t, s) /\ s \in Seq(Nodes) /\ Len(s) \in Nat
      /\ \A i \in 1 .. Len(s) : s[i] \in Elements(s) /\ s[i] \in Nodes
  BY DEF ListInv, IsList, Elements
<1>2. Contents = [i \in 1 .. Len(s) |-> data[s[i]]]
  BY <1>1, ListIs DEF ReachIsList
<1>3. ReachIsList'
  BY ListIs, PTL
<1>4. Contents' = [i \in 1 .. Len(s) |-> data'[s[i]]]
  BY <1>3 DEF ReachIsList
<1>5. s = <<>> => Contents = <<>> /\ Contents' = <<>>
  BY <1>2, <1>4
<1>6. Contents' = Contents
  <2>1. \A i \in 1 .. Len(s) : data'[s[i]] = data[s[i]]
    <3>1. CASE CopyString(t)
      <4>1. entry[t] \notin Elements(s)
        BY <1>1, <3>1 DEF Local, CopyString, Goto
      <4>2. PICK v : data' = [data EXCEPT ![entry[t]] = v]
        BY <3>1 DEF CopyString
      <4> QED BY <1>1, <4>1, <4>2 DEF TypeOK
    <3>2. CASE ~CopyString(t)
      BY <3>2 DEF Still, list, newStack, Push, LinkNext, IncrementSize, StartPop, DestroyNothing,
                  Empty, SaveHead, Release, DecrementSize, FreeStack
    <3> QED BY <3>1, <3>2
  <2> QED BY <1>2, <1>4, <2>1
<1>7. CASE newStack(t)
  <2>1. s = <<>> /\ ~exists /\ exists'
    BY <1>1, <1>7 DEF newStack, Local
  <2> QED BY <1>5, <2>1 DEF StackStep, Abstract!Next, Abstract!New
<1>8. CASE FreeStack(t)
  <2>1. s = <<>> /\ exists /\ ~exists' /\ exists' \in BOOLEAN
    BY <1>1, <1>8 DEF FreeStack, Goto, Local
  <2> QED BY <1>5, <2>1 DEF StackStep, Abstract!Next, Abstract!Destroy
<1>9. CASE ~newStack(t) /\ ~FreeStack(t)
  <2>1. UNCHANGED exists
    BY <1>9 DEF Still, Push, CopyString, LinkNext, IncrementSize, StartPop, DestroyNothing,
                Empty, SaveHead, Release, DecrementSize
  <2> QED BY <1>6, <2>1 DEF StackStep
<1> QED BY <1>7, <1>8, <1>9

LEMMA PublishContents ==
  ASSUME NEW t, Threads = {t}, NEW s, ListInv(t, s), PublishHead(t)
  PROVE  StackStep
<1>1. PICK n : n = entry[t]
  OBVIOUS
<1> DEFINE r == <<n>> \o s
<1>2. exists /\ n \in Nodes /\ UNCHANGED <<exists, data>> /\ IsList(r)'
  BY <1>1, PublishStep
<1>3. TypeOK /\ IsList(s) /\ s \in Seq(Nodes) /\ Len(s) \in Nat
      /\ \A i \in 1 .. Len(s) : s[i] \in Nodes
  BY DEF ListInv, IsList
<1>4. Contents = [i \in 1 .. Len(s) |-> data[s[i]]]
  BY <1>3, ListIs DEF ReachIsList
<1>5. ReachIsList'
  BY ListIs, PTL
<1>6. Contents' = [i \in 1 .. Len(r) |-> data[r[i]]]
  BY <1>2, <1>5 DEF ReachIsList
<1>7. Contents' = <<data[n]>> \o Contents
  <2> DEFINE D == Values \cup {NULL}
  <2>1. data[n] \in D /\ \A i \in 1 .. Len(s) : data[s[i]] \in D
    BY <1>2, <1>3 DEF TypeOK
  <2>2. Contents \in Seq(D) /\ Len(Contents) = Len(s)
    BY <1>3, <1>4, <2>1
  <2>3. /\ Len(r) = Len(s) + 1 /\ r[1] = n
        /\ \A i \in 2 .. Len(s) + 1 : i - 1 \in 1 .. Len(s) /\ r[i] = s[i - 1]
    BY <1>2, <1>3
  <2> DEFINE q == <<data[n]>> \o Contents
  <2>4. /\ q \in Seq(D) /\ Len(q) = Len(s) + 1 /\ q[1] = data[n]
        /\ \A i \in 2 .. Len(s) + 1 : q[i] = Contents[i - 1]
    BY <1>3, <2>1, <2>2
  <2> HIDE DEF r, q
  <2>5. \A i \in 1 .. Len(s) + 1 : Contents'[i] = q[i]
    <3> SUFFICES ASSUME NEW i \in 1 .. Len(s) + 1 PROVE data[r[i]] = q[i]
      BY <1>6, <2>3
    <3>1. CASE i = 1
      BY <2>3, <2>4, <3>1
    <3>2. CASE i # 1
      <4>1. i \in 2 .. Len(s) + 1
        BY <1>3, <3>2
      <4> QED BY <1>4, <2>3, <2>4, <4>1
    <3> QED BY <3>1, <3>2
  <2>6. Contents' \in Seq(D) /\ Len(Contents') = Len(s) + 1
    <3>1. DOMAIN q = 1 .. Len(s) + 1 /\ \A i \in 1 .. Len(s) + 1 : q[i] \in D
      BY <2>4
    <3>2. Contents' = [i \in 1 .. Len(s) + 1 |-> data[r[i]]] /\ Len(s) + 1 \in Nat
      BY <1>3, <1>6, <2>3
    <3>3. \A i \in 1 .. Len(s) + 1 : data[r[i]] \in D
      BY <2>5, <3>1, <3>2
    <3> QED BY <3>2, <3>3
  <2> QED BY <2>4, <2>5, <2>6, SeqEqual DEF q
<1>8. data[n] \in Values \cup {NULL}
  BY <1>2, <1>3 DEF TypeOK
<1> QED BY <1>2, <1>7, <1>8 DEF StackStep, HalfPush, Abstract!Next, Abstract!Push

LEMMA UnlinkContents ==
  ASSUME NEW t, Threads = {t}, NEW s, ListInv(t, s), Unlink(t)
  PROVE  StackStep
<1> DEFINE r == Tail(s)
<1>2. exists /\ s # <<>> /\ UNCHANGED <<exists, data>> /\ IsList(r)'
  BY UnlinkStep
<1>3. TypeOK /\ IsList(s) /\ s \in Seq(Nodes) /\ Len(s) \in Nat /\ Len(s) # 0
      /\ \A i \in 1 .. Len(s) : s[i] \in Nodes
  BY <1>2 DEF ListInv, IsList
<1>4. Contents = [i \in 1 .. Len(s) |-> data[s[i]]]
  BY <1>3, ListIs DEF ReachIsList
<1>5. ReachIsList'
  BY ListIs, PTL
<1>6. Contents' = [i \in 1 .. Len(r) |-> data[r[i]]]
  BY <1>2, <1>5 DEF ReachIsList
<1>7. Len(r) = Len(s) - 1 /\ \A i \in 1 .. Len(r) : r[i] = s[i + 1] /\ i + 1 \in 1 .. Len(s)
  BY <1>2, <1>3, HeadTailProperties
<1>8. Contents \in Seq(Values \cup {NULL}) /\ Len(Contents) = Len(s) /\ Contents # <<>>
  <2>1. \A i \in 1 .. Len(s) : data[s[i]] \in Values \cup {NULL}
    BY <1>3 DEF TypeOK
  <2> QED BY <1>3, <1>4, <2>1
<1>9. /\ Len(Tail(Contents)) = Len(s) - 1 /\ Tail(Contents) \in Seq(Values \cup {NULL})
      /\ \A i \in 1 .. Len(s) - 1 : Tail(Contents)[i] = Contents[i + 1]
  BY <1>3, <1>8, HeadTailProperties
<1> HIDE DEF r
<1>10. Contents' = Tail(Contents)
  <2>1. \A i \in 1 .. Len(s) - 1 : data[r[i]] = Tail(Contents)[i]
    BY <1>4, <1>7, <1>9
  <2>2. Tail(Contents) = [i \in 1 .. Len(s) - 1 |-> Tail(Contents)[i]]
    BY <1>9, LenProperties
  <2> QED BY <1>6, <1>7, <2>1, <2>2
<1> QED BY <1>2, <1>8, <1>10 DEF StackStep, Abstract!Next, Abstract!Pop

-----------------------------------------------------------------------------
IInv(t) == \E s : ListInv(t, s)

\* A step of the code takes the list to a list, and the stack of stack.h to
\* the next one.
LEMMA ListStep ==
  ASSUME NEW t, Threads = {t}, IInv(t), [Next]_vars
  PROVE  IInv(t)' /\ StackStep
<1>1. PICK s : ListInv(t, s)
  BY DEF IInv
<1>2. TypeOK'
  BY <1>1, TypeStep
<1>3. CASE Still(t)
  BY <1>1, <1>2, <1>3, StillStep, StillContents DEF IInv, ListInv
<1>4. CASE PublishHead(t)
  <2>1. PICK e : e = entry[t]
    OBVIOUS
  <2>2. ListInv(t, <<e>> \o s)'
    BY <1>1, <1>2, <1>4, <2>1, PublishStep DEF ListInv
  <2> QED BY <1>1, <1>4, <2>2, PublishContents DEF IInv
<1>5. CASE Unlink(t)
  <2>1. ListInv(t, Tail(s))'
    BY <1>1, <1>2, <1>5, UnlinkStep DEF ListInv
  <2> QED BY <1>1, <1>5, <2>1, UnlinkContents DEF IInv
<1>6. CASE UNCHANGED vars
  <2>1. ListInv(t, s)'
    BY <1>1, <1>2, <1>6 DEF ListInv, IsList, Linked, Local, vars
  <2>2. Contents' = Contents /\ exists' = exists
    BY <1>6 DEF vars, Contents, Depth, Reach
  <2> QED BY <2>1, <2>2 DEF IInv, StackStep
<1> QED BY <1>3, <1>4, <1>5, <1>6 DEF Next, Still

LEMMA ListInvariant ==
  ASSUME NEW t, Threads = {t}
  PROVE  Spec => []IInv(t)
<1>1. Init => IInv(t)
  BY ListInit DEF IInv
<1>2. IInv(t) /\ [Next]_vars => IInv(t)'
  BY ListStep
<1> QED BY <1>1, <1>2, PTL DEF Spec

\* Every variable has its type: stackSize, of type size_t in stack.h, never
\* goes below zero (stack.c:129).
THEOREM StackTypeCorrect ==
  ASSUME NEW t, Threads = {t}
  PROVE  Spec => []TypeOK
<1>1. IInv(t) => TypeOK
  BY DEF IInv, ListInv
<1> QED BY <1>1, ListInvariant, PTL

\* The list never runs through freed memory and never in a circle, whatever
\* push, pop, clear_stack and destroy_stack are called, and half way through
\* any of them (stack.c:74-177).
THEOREM ListIsAllocated ==
  ASSUME NEW t, Threads = {t}
  PROVE  Spec => []NoDangling
<1>1. IInv(t) => NoDangling
  <2> SUFFICES ASSUME NEW s, ListInv(t, s) PROVE NoDangling
    BY DEF IInv
  <2>1. Reach[Cardinality(Nodes)] = NULL /\ Chain = Elements(s)
    BY ListIs DEF ReachIsList, ListInv
  <2>2. Elements(s) \subseteq allocated
    BY DEF ListInv, Local
  <2> QED BY <2>1, <2>2 DEF NoDangling
<1> QED BY <1>1, ListInvariant, PTL

\* Between calls stackSize is the length of the list, every entry malloc gave
\* and free did not take is in it, and a destroyed stack left no entry.
THEOREM NothingIsLost ==
  ASSUME NEW t, Threads = {t}
  PROVE  Spec => []NothingLeaks
<1>1. IInv(t) => NothingLeaks
  <2> SUFFICES ASSUME NEW s, ListInv(t, s), pc[t] = "idle"
               PROVE  /\ exists => stackSize = Depth /\ allocated = Chain
                      /\ ~exists => allocated = {}
    BY DEF IInv, NothingLeaks, Quiet
  <2>1. Depth = Len(s) /\ Chain = Elements(s)
    BY ListIs DEF ReachIsList, ListInv
  <2>2. allocated = Elements(s) /\ stackSize = Len(s) /\ (~exists => s = <<>>)
    BY DEF ListInv, Local
  <2>3. Elements(<<>>) = {}
    BY DEF Elements
  <2> QED BY <2>1, <2>2, <2>3
<1> QED BY <1>1, ListInvariant, PTL

\* stack.c implements the last-in first-out list of strings of StringStack,
\* entries without memory included, but for the push of a string without
\* memory, which is no step of the stack (stack.c:71) and links half an entry
\* (stack.c:80).
THEOREM StackImplementsList ==
  ASSUME NEW t, Threads = {t}
  PROVE  Spec => ImplementsStack
<1>1. Init => Abstract!Init
  BY DEF Init, Abstract!Init
<1>2. IInv(t) /\ [Next]_vars => StackStep
  BY ListStep
<1> QED BY <1>1, <1>2, ListInvariant, PTL DEF Spec, ImplementsStack, StackStep
=============================================================================
