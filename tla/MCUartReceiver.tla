--------------------------- MODULE MCUartReceiver ---------------------------
(***************************************************************************)
(* Instances of UartReceiver for TLC: which texts the modem sends.         *)
(***************************************************************************)
EXTENDS UartReceiver, TLC

TwoNumbers == {"v", "w"}
OneNumber == {"v"}
Short == {<<"v">>}
Plain == {<<>>, <<"v">>, <<"w">>}
ATWords == {"AT", "AT&K0", "AT+CGMI", "AT+CSQ", "AT+SBDSX", "AT+SBDIX", "AT+SBDIXA",
            "AT+CRIS", "AT+SBDRT"}
Racers == Permutations(Writers)
=============================================================================
