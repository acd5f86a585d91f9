---------------------------- MODULE MCReplaceIP ----------------------------
(***************************************************************************)
(* Small instances of ReplaceIP for TLC.  The text v4 and the text mapped  *)
(* denote the same address, as 10.0.0.2 and ::ffff:10.0.0.2 do, the text   *)
(* other another one, and the text word denotes none.                      *)
(***************************************************************************)
EXTENDS ReplaceIP

CONSTANTS v4, mapped, other, word

Addresses == {v4, mapped, other}
AllTexts == Addresses \cup {word}
Denotes == [t \in AllTexts |-> IF t = mapped THEN v4 ELSE t]
=============================================================================
