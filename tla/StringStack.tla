---------------------------- MODULE StringStack ----------------------------
(***************************************************************************)
(* What stack.c promises: a last-in first-out list of strings.  A push     *)
(* without memory is no step at all (stack.c:71).                          *)
(***************************************************************************)
EXTENDS Sequences

CONSTANT Values

VARIABLES exists, contents   \* contents[1] is the top

Init == exists = FALSE /\ contents = <<>>

New == ~exists /\ exists' = TRUE /\ UNCHANGED contents
Push(v) == exists /\ contents' = <<v>> \o contents /\ UNCHANGED exists
Pop == exists /\ contents # <<>> /\ contents' = Tail(contents) /\ UNCHANGED exists
Destroy == exists /\ contents = <<>> /\ exists' = FALSE /\ UNCHANGED contents

Next == New \/ Pop \/ Destroy \/ \E v \in Values : Push(v)
Spec == Init /\ [][Next]_<<exists, contents>>
=============================================================================
