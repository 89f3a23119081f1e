---------------------------- MODULE MCDocNumbers ----------------------------
(* Width 2 stands for the 3 of the code; the tenth number is one of those   *)
(* that may be deleted.                                                     *)
EXTENDS DocNumbers

MCDrafts == {2, 10}
=============================================================================
