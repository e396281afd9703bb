---------------------------- MODULE MCIridiumLink ----------------------------
(***************************************************************************)
(* Instances of IridiumLink for TLC: which tasks call, and how often.      *)
(***************************************************************************)
EXTENDS IridiumLink, TLC

CONSTANTS t1, t2

OneTask == {t1}
TwoTasks == {t1, t2}
TwoAndOne == t1 :> 2 @@ t2 :> 1
FourCalls == t1 :> 4

\* Commands that wait_response waits for; AT_SBDWT is one that it does not.
CSQOnly == [t \in Tasks |-> {"AT_CSQ"}]
CSQOrIX == [t \in Tasks |-> {"AT_CSQ", "AT_SBDIX"}]
CSQOrWT == [t \in Tasks |-> {"AT_CSQ", "AT_SBDWT"}]
WTThenCSQ == t1 :> {"AT_SBDWT"} @@ t2 :> {"AT_CSQ"}
\* A caller, and the callback that answers each CSQ with another.
CallerAndCallback == {t1, UartTask}
TwoAndTwo == t1 :> 2 @@ UartTask :> 2
OneEach == [t \in Tasks |-> 1]
=============================================================================
