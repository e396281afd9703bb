------------------------------- MODULE Tokens -------------------------------
(***************************************************************************)
(* What strtok makes of a text: a text is a sequence of words, and one of  *)
(* the words is the delimiter.  The reference StrSplit is checked against, *)
(* and the operators with which UartReceiver cuts and splits its input.    *)
(***************************************************************************)
EXTENDS Naturals, Sequences, FiniteSets, SequencesExt

\* Where the fields start: at a word that follows a delimiter or nothing.
Starts(s, d) == {i \in DOMAIN s : s[i] # d /\ (i = 1 \/ s[i - 1] = d)}

\* The longest text without delimiter that starts at i.
FieldAt(s, d, i) ==
  LET ends == {j \in i .. Len(s) : \A k \in i .. j : s[k] # d}
  IN  SubSeq(s, i, i + Cardinality(ends) - 1)

\* The tokens of repeated calls of strtok: empty fields are skipped.
Nth(S, n) == CHOOSE i \in S : Cardinality({j \in S : j <= i}) = n
Fields(s, d) ==
  LET starts == Starts(s, d)
  IN  [n \in 1 .. Cardinality(starts) |-> FieldAt(s, d, Nth(starts, n))]

\* What a loop over s that looks for the elements of S finds, in its order.
Those(s, S) ==
  LET places == {i \in DOMAIN s : s[i] \in S}
  IN  [n \in 1 .. Cardinality(places) |-> s[Nth(places, n)]]

\* No empty field, except after a delimiter at the very end.
Regular(s, d) ==
  /\ s # <<>> /\ s[1] # d
  /\ \A i \in 2 .. Len(s) : s[i - 1] = d => s[i] # d
=============================================================================
