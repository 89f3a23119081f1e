------------------------------ MODULE MCProject -------------------------------
(* Two parts of a project that share nothing and are checked in one run, one *)
(* at a time: its subcontracts, with two stages that hold back 2 and 1, an   *)
(* addition and an omission; and its tasks, three of them, for a task        *)
(* between two others, with one kind of dependency of each type, with no     *)
(* lag, a lag and a lead, and two additions that overlap.                    *)
EXTENDS Subcontracts, Schedule, TLC

CONSTANTS walls, roof, extra, omit

VARIABLE part  \* which of the two is looked at

MCRetained == (walls :> 2) @@ (roof :> 1)
MCChange   == (extra :> 2) @@ (omit :> -3)
SomeSpans  == {<<0, 2>>, <<1, 1>>}
SomeKinds  == {<<"FS", 0>>, <<"SS", 1>>, <<"FF", -1>>, <<"SF", 2>>}
Alike      == Permutations(Requests) \cup Permutations(Additions)

ProjectInit == Init /\ TaskInit /\ part \in {"subcontracts", "tasks"}

SubcontractsMove == part = "subcontracts" /\ Next /\ UNCHANGED <<taskVars, part>>
TasksMove        == part = "tasks" /\ TaskNext /\ UNCHANGED <<vars, part>>

ProjectSpec == ProjectInit /\ [][SubcontractsMove \/ TasksMove]_<<vars, taskVars, part>>
===============================================================================
