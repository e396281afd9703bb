---------------------------- MODULE ReplyChannel ----------------------------
(***************************************************************************)
(* What the rest of the library expects of the modem and of                *)
(* uart_satcom_task together: one command at a time, each reply handled    *)
(* whole, once and in order, and the channel open again afterwards.        *)
(***************************************************************************)
EXTENDS Naturals, Sequences

VARIABLES sent, handled, status

Init == sent = <<>> /\ handled = <<>> /\ status = "IQS_OPEN"

\* A command goes out; sent grows by the reply the modem gives it.
Send ==
  /\ status = "IQS_OPEN" /\ handled = sent
  /\ Len(sent') = Len(sent) + 1 /\ SubSeq(sent', 1, Len(sent)) = sent
  /\ status' = "IQS_WAITING"
  /\ UNCHANGED handled

Handle ==
  /\ status = "IQS_WAITING" /\ Len(handled) < Len(sent)
  /\ handled' = Append(handled, sent[Len(handled) + 1])
  /\ UNCHANGED <<sent, status>>

Reopen ==
  /\ status = "IQS_WAITING" /\ handled = sent
  /\ status' = "IQS_OPEN"
  /\ UNCHANGED <<sent, handled>>

Next == Send \/ Handle \/ Reopen
vars == <<sent, handled, status>>
Spec == Init /\ [][Next]_vars
=============================================================================
