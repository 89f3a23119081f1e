--------------------------- MODULE CaptureLedger ---------------------------
(***************************************************************************)
(* What offline capture promises, without phones, pushes or a network: a   *)
(* capture is decided once, its effect is written with the decision, and   *)
(* the phone lets go of it only once it has been told one.  The server     *)
(* tells before it decides, and may break its word.                        *)
(***************************************************************************)
EXTENDS Naturals

CONSTANTS
  Records,   \* the captures
  Writes     \* those whose effect is a row of their own

VARIABLES
  fate,      \* the decision on each: "none" until there is one
  effects,   \* how many times its effect has been written
  told,      \* the decision that has been told and is still to be made
  unkept,    \* those that were told and not made, nor made later
  letGo      \* the captures their phone no longer holds

ledgerVars == <<fate, effects, told, unkept, letGo>>

Fates == {"applied", "merged", "rejected"}

LedgerInit ==
  /\ fate = [r \in Records |-> "none"]
  /\ effects = [r \in Records |-> 0]
  /\ told = [r \in Records |-> "none"]
  /\ unkept = [r \in Records |-> {}]
  /\ letGo = {}

\* Phones are told what will be decided of some undecided captures.
Tells ==
  /\ told' \in [Records -> Fates \cup {"none"}]
  /\ \A r \in Records : told'[r] # told[r] => told[r] = "none" /\ fate[r] = "none"
  /\ UNCHANGED <<fate, effects, unkept, letGo>>

\* Some undecided captures are decided together, as told and effects included.
Decides ==
  /\ fate' \in [Records -> Fates \cup {"none"}]
  /\ \A r \in Records : fate'[r] # fate[r] => fate[r] = "none" /\ told[r] \in {"none", fate'[r]}
  /\ told' = [r \in Records |-> IF fate'[r] # fate[r] THEN "none" ELSE told[r]]
  /\ effects' = [r \in Records |->
                   IF fate'[r] # fate[r] /\ fate'[r] = "applied" /\ r \in Writes
                   THEN effects[r] + 1 ELSE effects[r]]
  /\ unkept' = [r \in Records |-> IF fate'[r] # fate[r] THEN unkept[r] \ {fate'[r]} ELSE unkept[r]]
  /\ UNCHANGED letGo

\* What was told of some will never be decided.
Breaks ==
  /\ \A r \in Records : told'[r] \in {told[r], "none"}
  /\ told' \in [Records -> Fates \cup {"none"}]
  /\ unkept' = [r \in Records |-> IF told'[r] # told[r] THEN unkept[r] \cup {told[r]} ELSE unkept[r]]
  /\ UNCHANGED <<fate, effects, letGo>>

LetGo(r) ==
  /\ fate[r] # "none" \/ told[r] # "none" \/ unkept[r] # {}
  /\ letGo' = letGo \cup {r}
  /\ UNCHANGED <<fate, effects, told, unkept>>

\* A phone that still holds the refusal in hand may put the capture back.
TakeBack(r) ==
  /\ fate[r] = "rejected" \/ told[r] = "rejected" \/ "rejected" \in unkept[r]
  /\ letGo' = letGo \ {r}
  /\ UNCHANGED <<fate, effects, told, unkept>>

LedgerNext ==
  \/ Tells \/ Decides \/ Breaks
  \/ \E r \in Records : LetGo(r) \/ TakeBack(r)

LedgerSpec == LedgerInit /\ [][LedgerNext]_ledgerVars
=============================================================================
