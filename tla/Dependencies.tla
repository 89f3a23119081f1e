---------------------------- MODULE Dependencies ------------------------------
(***************************************************************************)
(* The tasks of a project and the dependencies between them                *)
(* (tasks/service.py).                                                     *)
(*                                                                         *)
(* A dependency is added after a look at the others for a cycle, without a *)
(* lock.                                                                   *)
(***************************************************************************)
EXTENDS Integers, FiniteSets

CONSTANTS
  Tasks,
  Spans,     \* planned dates: the first and the last day of a task
  Kinds,     \* types of a dependency and its lag, as <<type, days>>
  Additions, \* requests that add a dependency at a time
  MaxLinks,
  Undated, Absent, NoPair

ASSUME DependenciesAssumption ==
  /\ IsFiniteSet(Tasks)
  /\ \A s \in Spans : s \in Int \X Int
  /\ {Undated, Absent} \cap (Int \X Int) = {}
  /\ Kinds \subseteq {"FS", "SS", "FF", "SF"} \X Int
  /\ MaxLinks \in Nat
  /\ NoPair \notin Tasks \X Tasks

VARIABLES
  planned,   \* the dates of each task; Undated, or Absent when there is no such task
  links,     \* the dependencies: for a pair of tasks, its kind
  addition,  \* a dependency found to close no cycle, not yet added
  overtaken  \* ghost: a dependency was added that another request had not seen

taskVars == <<planned, links, addition, overtaken>>

Pair == Tasks \X Tasks

TaskTypeOK ==
  /\ planned \in [Tasks -> Spans \cup {Undated, Absent}]
  /\ DOMAIN links \subseteq Pair /\ \A p \in DOMAIN links : links[p] \in Kinds
  /\ addition \in [Additions -> Pair \cup {NoPair}]
  /\ overtaken \in BOOLEAN

TaskInit ==
  /\ planned = [t \in Tasks |-> Absent]
  /\ links = << >>
  /\ addition = [r \in Additions |-> NoPair]
  /\ overtaken = FALSE

Here == {t \in Tasks : planned[t] # Absent}

\* create_task() and update_task().
Plan(t, dates) ==
  /\ planned' = [planned EXCEPT ![t] = dates]
  /\ UNCHANGED <<links, addition, overtaken>>

\* delete_task(): the dependencies of the task go with it.
DeleteTask(t) ==
  /\ t \in Here
  /\ planned' = [planned EXCEPT ![t] = Absent]
  /\ links' = [p \in {q \in DOMAIN links : t \notin {q[1], q[2]}} |-> links[p]]
  /\ UNCHANGED <<addition, overtaken>>

\* A set of tasks that no dependency leads out of.
Closed(some) == \A p \in DOMAIN links : p[1] \in some => p[2] \in some

\* What the search of _would_create_cycle() has visited once its stack is empty.
Visited(start) ==
  {t \in Tasks : \A some \in SUBSET Tasks : start \in some /\ Closed(some) => t \in some}

\* Mutant: only the dependencies of the successor itself are looked at.
ClosesAtOnce(pred, succ) == <<succ, pred>> \in DOMAIN links

WouldCreateCycle(pred, succ) == pred \in Visited(succ)

\* add_dependency() finds nothing against it.
CheckDependency(r, pred, succ) ==
  /\ addition[r] = NoPair
  /\ {pred, succ} \subseteq Here /\ pred # succ
  /\ <<pred, succ>> \notin DOMAIN links /\ Cardinality(DOMAIN links) < MaxLinks
  /\ ~WouldCreateCycle(pred, succ)
  /\ addition' = [addition EXCEPT ![r] = <<pred, succ>>]
  /\ UNCHANGED <<planned, links, overtaken>>

\* The dependency is added, unless a task is gone or another request added it.
AddDependency(r, kind) ==
  LET p == addition[r] IN
  /\ p # NoPair
  /\ IF {p[1], p[2]} \subseteq Here /\ p \notin DOMAIN links
     THEN /\ links' = [q \in DOMAIN links \cup {p} |-> IF q = p THEN kind ELSE links[q]]
          /\ overtaken' = (overtaken \/ \E n \in Additions \ {r} : addition[n] # NoPair)
     ELSE UNCHANGED <<links, overtaken>>
  /\ addition' = [addition EXCEPT ![r] = NoPair]
  /\ UNCHANGED planned

RemoveDependency(p) ==
  /\ p \in DOMAIN links
  /\ links' = [q \in DOMAIN links \ {p} |-> links[q]]
  /\ UNCHANGED <<planned, addition, overtaken>>

TaskNext ==
  \/ \E t \in Tasks : DeleteTask(t) \/ \E dates \in Spans \cup {Undated} : Plan(t, dates)
  \/ \E r \in Additions :
       \/ \E p \in Pair : CheckDependency(r, p[1], p[2])
       \/ \E kind \in Kinds : AddDependency(r, kind)
  \/ \E p \in DOMAIN links : RemoveDependency(p)

TaskSpec == TaskInit /\ [][TaskNext]_taskVars

-----------------------------------------------------------------------------
(* What must hold *)

\* Among any of the tasks there is one that depends on none of them.
Acyclic(tasks) ==
  \A some \in (SUBSET tasks) \ {{}} :
    \E t \in some : \A p \in DOMAIN links : p[2] = t => p[1] \notin some

\* Dependencies close no cycle, unless two were added at the same time, each
\* checked against a graph without the other (add_dependency).
AcyclicUnlessOvertaken == overtaken \/ Acyclic(Tasks)

===============================================================================
