------------------------------ MODULE StrSplit ------------------------------
(***************************************************************************)
(* str_split of iridium.c: count the delimiters, allocate the result, fill *)
(* it with strtok, and assert that both passes found as many elements.     *)
(* One step is one iteration of a loop.  Pointers into a_str are positions *)
(* from 1; a null pointer is below all of them.                            *)
(***************************************************************************)
EXTENDS Integers, Tokens

CONSTANTS
  Words,    \* the words a text is made of
  Delim,    \* a_delim
  MaxLen    \* bound: words in a text

ASSUME SplitAssumption ==
  /\ Delim \in Words
  /\ MaxLen \in Nat

Texts == UNION {[1 .. n -> Words] : n \in 0 .. MaxLen}
NullPointer == -1

VARIABLES
  input,                     \* the text a_str held at the call
  pc, tmp, last_comma, count,
  result,                    \* the first idx elements of the array
  lasts                      \* where the next strtok starts

vars == <<input, pc, tmp, last_comma, count, result, lasts>>
idx == Len(result)

Init ==
  /\ input \in Texts
  /\ pc = "count" /\ tmp = 1 /\ last_comma = NullPointer /\ count = 0
  /\ result = <<>> /\ lasts = 1

\* Faulty variant: tmp++ is inside the if.
CountDelimStays ==
  /\ pc = "count" /\ tmp <= Len(input) /\ input[tmp] = Delim
  /\ count' = count + 1 /\ last_comma' = tmp /\ tmp' = tmp + 1
  /\ UNCHANGED <<input, pc, result, lasts>>

CountDelim ==
  /\ pc = "count" /\ tmp <= Len(input)
  /\ IF input[tmp] = Delim
       THEN count' = count + 1 /\ last_comma' = tmp
       ELSE UNCHANGED <<count, last_comma>>
  /\ tmp' = tmp + 1
  /\ UNCHANGED <<input, pc, result, lasts>>

\* Faulty variants: no element for the final null, <= instead of <.
AllocateNoNull ==
  /\ pc = "count" /\ tmp > Len(input)
  /\ count' = count + (IF last_comma < Len(input) THEN 1 ELSE 0)
  /\ pc' \in {"tokens", "no_memory"}
  /\ UNCHANGED <<input, tmp, last_comma, result, lasts>>
AllocateTrailing ==
  /\ pc = "count" /\ tmp > Len(input)
  /\ count' = count + (IF last_comma <= Len(input) THEN 1 ELSE 0) + 1
  /\ pc' \in {"tokens", "no_memory"}
  /\ UNCHANGED <<input, tmp, last_comma, result, lasts>>

\* One element for the trailing token, one for the null that ends the list.
\* When malloc fails the result is a null pointer.
Allocate ==
  /\ pc = "count" /\ tmp > Len(input)
  /\ count' = count + (IF last_comma < Len(input) THEN 1 ELSE 0) + 1
  /\ pc' \in {"tokens", "no_memory"}
  /\ UNCHANGED <<input, tmp, last_comma, result, lasts>>

NextStarts == {i \in Starts(input, Delim) : i >= lasts}

\* Faulty variants: the next strtok starts one too far, the last element is
\* overwritten.
StoreTokenTooFar ==
  /\ pc = "tokens" /\ NextStarts # {}
  /\ LET i == Min(NextStarts)
         token == FieldAt(input, Delim, i)
     IN  result' = Append(result, token) /\ lasts' = i + Len(token) + 1
  /\ UNCHANGED <<input, pc, tmp, last_comma, count>>
StoreTokenSwapped ==
  /\ pc = "tokens" /\ NextStarts # {}
  /\ LET i == Min(NextStarts)
         token == FieldAt(input, Delim, i)
     IN  result' = <<token>> \o result /\ lasts' = i + Len(token)
  /\ UNCHANGED <<input, pc, tmp, last_comma, count>>

\* assert(idx < count), strdup, and the next strtok.
StoreToken ==
  /\ pc = "tokens" /\ NextStarts # {}
  /\ IF idx < count
       THEN LET i == Min(NextStarts)
                token == FieldAt(input, Delim, i)
            IN  /\ result' = Append(result, token)
                /\ lasts' = i + Len(token)
                /\ UNCHANGED pc
       ELSE pc' = "abort" /\ UNCHANGED <<result, lasts>>
  /\ UNCHANGED <<input, tmp, last_comma, count>>

\* assert(idx == count - 1), and the null at the end.
Terminate ==
  /\ pc = "tokens" /\ NextStarts = {}
  /\ pc' = IF idx = count - 1 THEN "done" ELSE "abort"
  /\ UNCHANGED <<input, tmp, last_comma, count, result, lasts>>

Next == CountDelim \/ Allocate \/ StoreToken \/ Terminate
Spec == Init /\ [][Next]_vars /\ WF_vars(Next)

-----------------------------------------------------------------------------
\* Every variable has its type.
TypeOK ==
  /\ input \in Texts
  /\ pc \in {"count", "tokens", "done", "abort", "no_memory"}
  /\ tmp \in 1 .. MaxLen + 1 /\ lasts \in 1 .. MaxLen + 1
  /\ last_comma \in {NullPointer} \cup 1 .. MaxLen
  /\ count \in 0 .. MaxLen + 2
  /\ result \in Seq(Seq(Words)) /\ idx <= MaxLen

\* The array malloc gave has room for every token and for the final null,
\* whatever the text: the tokens strtok finds are never more than the first
\* loop counted.
ResultInBounds == pc \in {"tokens", "done"} => idx < count

\* When both assertions hold the caller gets exactly the fields of the text,
\* in order, and the null right after them.
ResultIsFields ==
  pc = "done" => result = Fields(input, Delim) /\ count = idx + 1

\* The assertions fail exactly on the texts with an empty field (or none at
\* all): the two passes disagree there, as strtok skips what the first loop
\* counts.
AbortsOnEmptyField ==
  /\ pc = "abort" => ~Regular(input, Delim)
  /\ pc = "done" => Regular(input, Delim)

\* Both loops end.
Returns == <>(pc \in {"done", "abort", "no_memory"})
=============================================================================
