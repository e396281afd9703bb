----------------------------- MODULE MCStrSplit -----------------------------
(***************************************************************************)
(* The instance of StrSplit for TLC: two words and the delimiter make all  *)
(* patterns of fields, empty ones included; the words differ so that an    *)
(* exchange of fields shows.                                               *)
(***************************************************************************)
EXTENDS StrSplit

Colon == ":"
TwoWords == {"v", "w", Colon}
=============================================================================
