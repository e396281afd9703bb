---------------------------- MODULE RequestLedger ----------------------------
(***************************************************************************)
(* What the callers of iridium_send may rely on, told without status,      *)
(* nonces, queue and tasks: a request is open until it is written to the   *)
(* modem or refused, either of them once and for good.                     *)
(***************************************************************************)
EXTENDS Naturals, Sequences

CONSTANTS
  Tasks,            \* who calls
  Careless          \* the tasks that also ask to send what is no command

VARIABLES
  issued,           \* per task, the number of its requests
  open,             \* requests that wait, wherever they are
  sent, refused     \* those on the UART, in order; those there was no room for

vars == <<issued, open, sent, refused>>

Init ==
  /\ issued = [t \in Tasks |-> 0]
  /\ open = {} /\ sent = <<>> /\ refused = {}

\* A request is its task and its number.
Issue(t) ==
  /\ issued' = [issued EXCEPT ![t] = @ + 1]
  /\ open' = open \cup {<<t, issued[t] + 1>>}
  /\ UNCHANGED <<sent, refused>>

Write(r) ==
  /\ open' = open \ {r}
  /\ sent' = Append(sent, r)
  /\ UNCHANGED <<issued, refused>>

Refuse(r) ==
  /\ open' = open \ {r}
  /\ refused' = refused \cup {r}
  /\ UNCHANGED <<issued, sent>>

Omit(r) ==
  /\ r[1] \in Careless
  /\ open' = open \ {r}
  /\ UNCHANGED <<issued, sent, refused>>

Next ==
  \/ \E t \in Tasks : Issue(t)
  \/ \E r \in open : Write(r) \/ Refuse(r) \/ Omit(r)

Spec == Init /\ [][Next]_vars
=============================================================================
