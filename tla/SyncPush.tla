------------------------------ MODULE SyncPush ------------------------------
(***************************************************************************)
(* The server's half of offline capture: sync/service.py push() and its    *)
(* handlers, run by any number of request workers against one PostgreSQL   *)
(* database at READ COMMITTED.                                             *)
(*                                                                         *)
(* A push is one transaction (core/database.py get_db).  Its statements    *)
(* interleave with those of other pushes: every SELECT sees what is        *)
(* committed at that moment and what the push itself has written; an       *)
(* INSERT or UPDATE of a row another push has written waits for that push  *)
(* to end.  Each capture takes three steps: the SELECTs of push() and of   *)
(* the handler (Read), the handler's flush (Write) and the INSERT of the   *)
(* sync_operations row (Record).                                           *)
(***************************************************************************)
EXTENDS Captures

CONSTANTS
  Pushes,      \* the request workers
  NoDiary,     \* no diary has been written for the day
  Clean,       \* this push has not written that row
  NoCrew       \* nobody has been counted on that day

VARIABLES
  syncOps,     \* sync_operations: the committed status of each client_op_id
  diary,       \* site_diary_entries: the committed diary of each day
  crew,        \* site_diary_labour: the capture whose count of the crew stands
  filed,       \* how many rows each row-adding capture has left in its table
  push         \* the transactions

serverVars == <<syncOps, diary, crew, filed, push>>

ASSUME SyncPushAssumption ==
  /\ NoDiary \notin Pages
  /\ Clean \notin Pages \cup {NoDiary}
  /\ Clean \notin Ops \cup {NoCrew}
  /\ NoCrew \notin Ops
  \* A diary entry that does not say what was done is turned away.
  /\ \A o \in Valid : OpType[o] = "diary_entry" => Says[o]["work_done"] # {}

Free == [pc |-> "free", todo |-> {}, page |-> NoDiary, counted |-> FALSE,
         verdict |-> "none", rows |-> [o \in Ops |-> "none"],
         pages |-> [d \in Days |-> Clean], crews |-> [d \in Days |-> Clean],
         adds |-> {}, answer |-> [o \in Ops |-> "none"]]

Transactions ==
  [pc : {"free", "reading", "writing", "recording", "answered"},
   todo : SUBSET Ops, page : Pages \cup {NoDiary}, counted : BOOLEAN,
   verdict : Outcome, rows : [Ops -> Outcome], pages : [Days -> Pages \cup {Clean}],
   crews : [Days -> Ops \cup {Clean}], adds : SUBSET Ops,
   answer : [Ops -> Answers]]

ServerTypeOK ==
  /\ syncOps \in [Ops -> Outcome]
  /\ diary \in [Days -> Pages \cup {NoDiary}]
  /\ crew \in [Days -> Ops \cup {NoCrew}]
  /\ filed \in [Ops -> Nat]
  /\ push \in [Pushes -> Transactions]

ServerInit ==
  /\ syncOps = [o \in Ops |-> "none"]
  /\ diary = [d \in Days |-> NoDiary]
  /\ crew = [d \in Days |-> NoCrew]
  /\ filed = [o \in Ops |-> 0]
  /\ push = [p \in Pushes |-> Free]

-----------------------------------------------------------------------------
(* What a transaction sees, and the rows it holds against the others.      *)

Current(p)  == First(push[p].todo)
Today(p)    == DayOf[Current(p)]
SeesPage(p, d) == IF push[p].pages[d] # Clean THEN push[p].pages[d] ELSE diary[d]
SeesCrew(p, d) == IF push[p].crews[d] # Clean THEN push[p].crews[d] ELSE crew[d]

\* What the handler is about to write once its validation has passed: a diary
\* it saw is changed only where the merge changes it.
Filled(page, o) == {f \in Fields : page[f] = {}}
\* Mutant: a text whose column is taken is dropped.
CarriedNotesOnly(page, o) == Says[o]["notes"] \ page["notes"]
Carried(page, o) ==
  {x \in Texts : \/ \E f \in Fields : page[f] # {} /\ x \in Says[o][f] \ page[f]
                \/ x \in Says[o]["notes"] \ page["notes"]}
Merged(page, o) ==
  [c \in Columns |-> CASE c = "notes" -> page[c] \cup Carried(page, o)
                       [] c \in Filled(page, o) -> Says[o][c]
                       [] OTHER -> page[c]]
Dirty(page, o) == {c \in Columns : Merged(page, o)[c] # page[c]}

WritesPage(p) ==
  /\ OpType[Current(p)] = "diary_entry"
  /\ push[p].page = NoDiary \/ Dirty(push[p].page, Current(p)) # {}
WritesCrew(p) == OpType[Current(p)] = "diary_labour"

\* The pushes whose end the next statement of p has to wait for.
WaitsFor(p) ==
  {q \in Pushes \ {p} :
     \/ /\ push[p].pc = "writing"
        /\ \/ WritesPage(p) /\ push[q].pages[Today(p)] # Clean
           \/ WritesCrew(p) /\ push[q].crews[Today(p)] # Clean
     \/ /\ push[p].pc = "recording"
        /\ push[q].rows[Current(p)] # "none"}

\* p is one of a set of pushes that all wait for each other.
Deadlocked(p) ==
  \E S \in SUBSET Pushes : p \in S /\ \A q \in S : WaitsFor(q) \cap S # {}

-----------------------------------------------------------------------------
(* The steps of push().                                                    *)

\* Transaction p moves on to t; nothing is committed.
Step(p, t) ==
  /\ push' = [push EXCEPT ![p] = t]
  /\ UNCHANGED <<syncOps, diary, crew, filed>>

\* The handler is through with the capture in hand.
Decide(p, t, verdict) == Step(p, [t EXCEPT !.verdict = verdict, !.pc = "recording"])

\* The request arrives with its backlog.
Open(p, batch) ==
  /\ push[p].pc = "free"
  /\ Step(p, [Free EXCEPT !.pc = "reading", !.todo = batch])

\* push() takes up the next capture of the backlog.
Takes(p) == push[p].pc = "reading" /\ push[p].todo # {}

\* The capture is already in sync_operations: its answer is "duplicate".
Duplicate(p) ==
  /\ Takes(p)
  /\ syncOps[Current(p)] # "none"
  /\ Step(p, [push[p] EXCEPT !.answer[Current(p)] = "duplicate",
                             !.todo = @ \ {Current(p)}])

\* Mutant: labour is taken for a day nobody has written up.
AcceptableWithoutDiary(p) == OpType[Current(p)] \in Handled /\ Current(p) \in Valid

\* What the handler's own checks accept: labour needs a diary to hang on.
Acceptable(p) ==
  /\ OpType[Current(p)] \in Handled
  /\ Current(p) \in Valid
  /\ OpType[Current(p)] = "diary_labour" => SeesPage(p, Today(p)) # NoDiary

\* The handler refuses the capture before it has written anything.
Refuse(p) ==
  /\ Takes(p)
  /\ syncOps[Current(p)] = "none"
  /\ ~ Acceptable(p)
  /\ Decide(p, push[p], "rejected")

\* The handler's SELECTs: the page it will decide on, and whether the crew has
\* been counted; neither need be the committed one any more when it writes.
Read(p) ==
  /\ Takes(p)
  /\ syncOps[Current(p)] = "none"
  /\ Acceptable(p)
  /\ Step(p, [push[p] EXCEPT !.pc = "writing",
                             !.page = SeesPage(p, Today(p)),
                             !.counted = SeesCrew(p, Today(p)) # NoCrew])

\* The handler's flush.  A diary or a crew somebody else inserted since it was
\* looked for breaks a unique constraint: the savepoint is rolled back and the
\* capture refused.
InsertRefused(p) ==
  /\ \/ /\ OpType[Current(p)] = "diary_entry"
        /\ push[p].page = NoDiary
        /\ SeesPage(p, Today(p)) # NoDiary
     \/ /\ OpType[Current(p)] = "diary_labour"
        /\ ~ push[p].counted
        /\ SeesCrew(p, Today(p)) # NoCrew
  /\ Decide(p, push[p], "rejected")

\* Mutant: no unique constraint on the project and date of a diary.
InsertSecondDiary(p) ==
  /\ OpType[Current(p)] = "diary_entry"
  /\ push[p].page = NoDiary
  /\ Decide(p, [push[p] EXCEPT !.pages[Today(p)] = Says[Current(p)]], "applied")

InsertDiary(p) ==
  /\ OpType[Current(p)] = "diary_entry"
  /\ push[p].page = NoDiary
  /\ SeesPage(p, Today(p)) = NoDiary
  /\ Decide(p, [push[p] EXCEPT !.pages[Today(p)] = Says[Current(p)]], "applied")

\* The UPDATE sets the columns the merge changed, to what the merge computed
\* from the page it read, on the row as it now is.
Updated(read, now, o) ==
  [c \in Columns |-> IF c \in Dirty(read, o) THEN Merged(read, o)[c] ELSE now[c]]

MergeDiary(p) ==
  LET o == Current(p)
      read == push[p].page
  IN  /\ OpType[o] = "diary_entry"
      /\ read # NoDiary
      /\ Decide(p,
           [push[p] EXCEPT !.pages[Today(p)] =
              IF Dirty(read, o) = {} THEN @ ELSE Updated(read, SeesPage(p, Today(p)), o)],
           IF Carried(read, o) # {} THEN "merged" ELSE "applied")

WriteCrew(p) ==
  /\ OpType[Current(p)] = "diary_labour"
  /\ push[p].counted \/ SeesCrew(p, Today(p)) = NoCrew
  /\ Decide(p, [push[p] EXCEPT !.crews[Today(p)] = Current(p)], "applied")

WriteRow(p) ==
  /\ OpType[Current(p)] = "site_issue"
  /\ Decide(p, [push[p] EXCEPT !.adds = @ \cup {Current(p)}], "applied")

Write(p) ==
  /\ push[p].pc = "writing"
  /\ WaitsFor(p) = {}
  /\ InsertRefused(p) \/ InsertDiary(p) \/ MergeDiary(p) \/ WriteCrew(p) \/ WriteRow(p)

\* The deadlock detector breaks the handler's statement; push() rolls the
\* savepoint back and takes the capture as refused.
Victim(p) ==
  /\ push[p].pc = "writing"
  /\ Deadlocked(p)
  /\ Decide(p, push[p], "rejected")

\* Mutant: no unique index on client_op_id.
RecordAgain(p) ==
  /\ push[p].pc = "recording"
  /\ WaitsFor(p) = {}
  /\ Step(p, [push[p] EXCEPT !.rows[Current(p)] = push[p].verdict,
                             !.answer[Current(p)] = push[p].verdict,
                             !.todo = @ \ {Current(p)},
                             !.verdict = "none", !.page = NoDiary,
                             !.counted = FALSE, !.pc = "reading"])

\* The INSERT of the sync_operations row, outside the savepoint.  When another
\* push has committed the same capture since, only Abort is left.
Record(p) ==
  /\ push[p].pc = "recording"
  /\ WaitsFor(p) = {}
  /\ syncOps[Current(p)] = "none"
  /\ Step(p, [push[p] EXCEPT !.rows[Current(p)] = push[p].verdict,
                             !.answer[Current(p)] = push[p].verdict,
                             !.todo = @ \ {Current(p)},
                             !.verdict = "none", !.page = NoDiary,
                             !.counted = FALSE, !.pc = "reading"])

\* Every capture of the backlog has an answer.
Finished(p) == push[p].pc = "reading" /\ push[p].todo = {}

\* The transaction ends without a trace: the unique index on client_op_id, a
\* deadlock outside the savepoint, a worker or the database's connection dies.
Abort(p) ==
  /\ push[p].pc # "free"
  /\ Step(p, Free)

\* get_db's commit.
Commit(p) ==
  /\ syncOps' = [o \in Ops |-> IF push[p].rows[o] # "none" THEN push[p].rows[o] ELSE syncOps[o]]
  /\ diary' = [d \in Days |-> SeesPage(p, d)]
  /\ crew' = [d \in Days |-> SeesCrew(p, d)]
  /\ filed' = [o \in Ops |-> IF o \in push[p].adds THEN filed[o] + 1 ELSE filed[o]]
  /\ push' = [push EXCEPT ![p] = Free]

\* One statement of push p.
Work(p) == Duplicate(p) \/ Refuse(p) \/ Read(p) \/ Write(p) \/ Victim(p) \/ Record(p)

-----------------------------------------------------------------------------
(* The server against clients that push any backlog at any time and never  *)
(* mind the answer.                                                        *)

ServerNext ==
  \E p \in Pushes :
    \/ \E batch \in (SUBSET Ops) \ {{}} : Open(p, batch)
    \/ Work(p)
    \/ Finished(p) /\ Commit(p)
    \/ Abort(p)

ServerSpec == ServerInit /\ [][ServerNext]_serverVars

-----------------------------------------------------------------------------
(* What push() promises.                                                   *)

\* A capture that adds a row adds it once, however often and from however many
\* requests at a time it is pushed, and exactly when its outcome says so.
NothingWrittenTwice ==
  \A o \in Ops :
    filed[o] = IF OpType[o] = "site_issue" /\ syncOps[o] = "applied" THEN 1 ELSE 0

\* The outcome a capture was given the first time is the outcome it keeps.
OutcomeIsFinal ==
  [][\A o \in Ops : syncOps[o] # "none" => syncOps'[o] = syncOps[o]]_syncOps

\* The text of a diary, wherever in it the text stands.
Prose(page) == UNION {page[c] : c \in Columns}

\* What the first writer of a day said was done is never replaced by what a
\* later push says, not even by one that read the day before it was written.
WorkDoneStands ==
  [][\A d \in Days :
       diary[d] # NoDiary =>
         /\ diary'[d] # NoDiary
         /\ diary'[d]["work_done"] = diary[d]["work_done"]]_diary

\* A diary entry that was taken can be read in the day's diary, whoever else
\* wrote about the same day.
BothReadingsSurvive ==
  \A o \in Ops :
    OpType[o] = "diary_entry" /\ syncOps[o] \in {"applied", "merged"} =>
      Prose(Says[o]) \subseteq Prose(diary[DayOf[o]])

\* No two pushes are under way at a time.
InTurn == \A p, q \in Pushes : push[p].pc # "free" /\ push[q].pc # "free" => p = q

\* Where pushes come one after another, a diary entry that was taken can be read
\* in the diary of its day, whoever else wrote about it (_diary_entry: "folded
\* into the notes ... so both readings of the day survive").
ReadingsSurviveInTurn == []InTurn => []BothReadingsSurvive

\* A crew is only ever counted on a day that has a diary to hang it on.
CrewHasDiary == \A d \in Days : crew[d] # NoCrew => diary[d] # NoDiary

=============================================================================
