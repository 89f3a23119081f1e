------------------------------- MODULE MCClaims -------------------------------
(* A claim of the user of the page and one of another, of which one is there *)
(* and one still to be made; two requests of the page overlap with each      *)
(* other and with one made elsewhere.                                        *)
EXTENDS Claims, TLC

Symmetry == Permutations(Slots)

ToBeMade == {c \in Claims : status[c] = "none"}

OneToBeMade == Init /\ Cardinality(ToBeMade) = 1

OneToBeMadeSpec == OneToBeMade /\ [][Next]_vars
===============================================================================
