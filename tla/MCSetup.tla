------------------------------- MODULE MCSetup -------------------------------
(***************************************************************************)
(* Instance of Setup for TLC: iridium_config checks with one AT a call, and *)
(* ring_satcom_task begins with an AT_CRIS.                                *)
(***************************************************************************)
EXTENDS Setup

CONSTANTS app, ring

BothTasks == {app, ring}
FirstCommands == [t \in Tasks |-> IF t = app THEN {"AT"} ELSE {"AT_CRIS"}]
CallsOfEach == [t \in Tasks |-> IF t = app THEN MaxConfigs ELSE 1]
WaitingOnly == {TRUE}
=============================================================================
