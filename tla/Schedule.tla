------------------------------ MODULE Schedule --------------------------------
(***************************************************************************)
(* What the program works out about the tasks and dependencies of a        *)
(* project (Dependencies): whether a dependency would close a cycle        *)
(* (tasks/service.py), and the critical path (tasks/cpm.py), made anew     *)
(* each time the chart is opened.                                          *)
(*                                                                         *)
(* A loop is the function of its turns. Which of several tasks comes first  *)
(* (no query orders the dependencies, the tasks come in the user's order)   *)
(* is left to SetToSeq: nothing that is claimed depends on it.             *)
(***************************************************************************)
EXTENDS Dependencies, Sequences, FiniteSetsExt, SequencesExt

\* One turn of _would_create_cycle(): the task on top of the stack goes, and if it
\* was not visited before, its successors come.
Visit(search, target) ==
  LET current == Last(search.stack)
      next    == IF current \in search.visited THEN {}
                 ELSE {q[2] : q \in {p \in DOMAIN links : p[1] = current}}
  IN  IF search.stack = << >> \/ current = target THEN search
      ELSE [stack   |-> Front(search.stack) \o SetToSeq(next),
            visited |-> search.visited \cup {current}]

\* The search has found its target when it ends with a stack that is not empty.
\* Each dependency is put on the stack once.
Finds(start, target) ==
  LET turns == 1 + Cardinality(DOMAIN links)
      search[n \in 0 .. turns] ==
        IF n = 0 THEN [stack |-> <<start>>, visited |-> {}] ELSE Visit(search[n - 1], target)
  IN  search[turns].stack # << >>

-----------------------------------------------------------------------------
(* The critical path *)

\* Only tasks with dates, and the dependencies between them, count.
Dated(plan) == {t \in Tasks : plan[t] \notin {Undated, Absent}}
Predecessors(plan, t) == {p \in DOMAIN links : p[2] = t /\ p[1] \in Dated(plan)}
Successors(plan, t)   == {p \in DOMAIN links : p[1] = t /\ p[2] \in Dated(plan)}
Duration(plan, t) == plan[t][2] - plan[t][1]

\* Kahn's algorithm: who has nothing to wait for comes first, and frees others.
FreeNext(plan, kahn) ==
  LET order == Append(kahn.order, Head(kahn.queue))
      free  == {t \in Dated(plan) \ Range(order \o Tail(kahn.queue)) :
                  \A p \in Predecessors(plan, t) : p[1] \in Range(order)}
  IN  IF kahn.queue = << >> THEN kahn
      ELSE [order |-> order, queue |-> Tail(kahn.queue) \o SetToSeq(free)]

TopologicalOrder(plan) ==
  LET turns == Cardinality(Dated(plan))
      kahn[n \in 0 .. turns] ==
        IF n = 0 THEN [order |-> << >>,
                       queue |-> SetToSeq({t \in Dated(plan) : Predecessors(plan, t) = {}})]
        ELSE FreeNext(plan, kahn[n - 1])
  IN  kahn[turns].order

Ordered(plan) == Len(TopologicalOrder(plan)) = Cardinality(Dated(plan))

Of(pairs, type) == {p \in pairs : links[p][1] = type}
Lag(p) == links[p][2]

\* The earliest dates of a task, from those of its predecessors.
Earliest(plan, t, early) ==
  LET pairs  == Predecessors(plan, t)
      length == Duration(plan, t)
      start  == Max({plan[t][1]}
                    \cup {early[p[1]][2] + 1 + Lag(p) : p \in Of(pairs, "FS")}
                    \cup {early[p[1]][1] + Lag(p) : p \in Of(pairs, "SS")})
      finish == Max({start + length}
                    \cup {early[p[1]][2] + Lag(p) : p \in Of(pairs, "FF")}
                    \cup {early[p[1]][1] + Lag(p) : p \in Of(pairs, "SF")})
  IN  <<finish - length, finish>>

\* The dates of one more task.
With(dates, t, own) == [u \in DOMAIN dates \cup {t} |-> IF u = t THEN own ELSE dates[u]]

Forward(plan) ==
  LET order == TopologicalOrder(plan)
      early[n \in 0 .. Len(order)] ==
        IF n = 0 THEN << >>
        ELSE LET known == early[n - 1] IN With(known, order[n], Earliest(plan, order[n], known))
  IN  early[Len(order)]

ProjectFinish(plan) == LET early == Forward(plan) IN Max({early[t][2] : t \in Dated(plan)})

\* Mutant: a task may finish the day its successor starts.
SameDay(start, lag) == start - lag

\* The last day of a task whose successor starts on this one.
DayBefore(start, lag) == start - 1 - lag

\* The latest dates of a task that do not delay its successors or the project.
Latest(plan, t, late, last) ==
  LET pairs  == Successors(plan, t)
      length == Duration(plan, t)
      finish == Min({last}
                    \cup {DayBefore(late[p[2]][1], Lag(p)) : p \in Of(pairs, "FS")}
                    \cup {late[p[2]][2] - Lag(p) : p \in Of(pairs, "FF")})
      start  == Min({finish - length}
                    \cup {late[p[2]][1] - Lag(p) : p \in Of(pairs, "SS")}
                    \cup {late[p[2]][2] - Lag(p) : p \in Of(pairs, "SF")})
  IN  <<start, start + length>>

Backward(plan) ==
  LET order == Reverse(TopologicalOrder(plan))
      last  == ProjectFinish(plan)
      late[n \in 0 .. Len(order)] ==
        IF n = 0 THEN << >>
        ELSE LET known == late[n - 1] IN With(known, order[n], Latest(plan, order[n], known, last))
  IN  late[Len(order)]

TotalFloat(plan) ==
  LET early == Forward(plan)
      late  == Backward(plan)
  IN  [t \in Dated(plan) |-> late[t][1] - early[t][1]]

Critical(plan) == LET float == TotalFloat(plan) IN {t \in Dated(plan) : float[t] <= 0}

-----------------------------------------------------------------------------
(* What must hold *)

\* By how many days two tasks do better than their dependency asks.
Slack(kind, pred, succ) ==
  CASE kind[1] = "FS" -> succ[1] - (pred[2] + 1 + kind[2])
    [] kind[1] = "SS" -> succ[1] - (pred[1] + kind[2])
    [] kind[1] = "FF" -> succ[2] - (pred[2] + kind[2])
    [] kind[1] = "SF" -> succ[2] - (pred[1] + kind[2])

\* The early dates keep every dependency and no task could start sooner.
DatesAreEarliest ==
  LET early == Forward(planned) IN
  \A t \in Dated(planned) :
    /\ early[t][1] >= planned[t][1]
    /\ \A p \in Predecessors(planned, t) : Slack(links[p], early[p[1]], early[t]) >= 0
    /\ \/ early[t][1] = planned[t][1]
       \/ \E p \in Predecessors(planned, t) : Slack(links[p], early[p[1]], early[t]) = 0

\* A task that starts so many days after its earliest date.
Delayed(t, days) ==
  LET start == Forward(planned)[t][1] + days
  IN  [planned EXCEPT ![t] = <<start, start + Duration(planned, t)>>]

\* The float of a task is by how much it can slip: as many days do not move the
\* end of the project, and one more does.
FloatIsSlack ==
  LET float == TotalFloat(planned)
      last  == ProjectFinish(planned)
  IN  \A t \in Dated(planned) :
        /\ float[t] >= 0
        /\ ProjectFinish(Delayed(t, float[t])) = last
        /\ ProjectFinish(Delayed(t, float[t] + 1)) > last

\* The search finds a way to the predecessor exactly where there is one.
SearchIsRight == \A p \in Pair : Finds(p[2], p[1]) = WouldCreateCycle(p[1], p[2])

\* What the chart is told of any network is the critical path method's answer, and
\* it is told nothing exactly when the dated tasks wait for each other in a circle
\* (cpm.compute); and what a new dependency is told is right (_would_create_cycle).
AnalysisIsRight ==
  (\A r \in Additions : addition[r] = NoPair) =>
    /\ SearchIsRight
    /\ Dated(planned) # {} =>
         /\ Ordered(planned) <=> Acyclic(Dated(planned))
         /\ Ordered(planned) => DatesAreEarliest /\ FloatIsSlack /\ Critical(planned) # {}

===============================================================================
