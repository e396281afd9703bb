------------------------------ MODULE MCSession ------------------------------
(***************************************************************************)
(* Instances of Session for TLC: what the application calls, what arrives. *)
(***************************************************************************)
EXTENDS Session

CONSTANTS app, ring

BothTasks == {app, ring}
AnyCommand == [t \in Tasks |-> iridium_command_t]
Enough == [t \in Tasks |-> 9]

Does(names, n) == [calls |-> names, arrivals |-> n]
Alone == {Does(<<"iridium_tx_message">>, 0), Does(<<"iridium_config_ring">>, 0),
          Does(<<"iridium_system_spec">>, 0), Does(<<>>, 2)}
TwoMessages == {Does(<<"iridium_tx_message", "iridium_tx_message">>, 0)}
=============================================================================
