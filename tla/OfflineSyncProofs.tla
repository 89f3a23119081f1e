------------------------- MODULE OfflineSyncProofs -------------------------
(***************************************************************************)
(* Proofs about offline capture, for any number of captures, devices,      *)
(* drains and request workers: first the server alone (SyncPush), then the *)
(* phones and the server together (OfflineSync).                           *)
(***************************************************************************)
EXTENDS OfflineSync, WellFoundedInduction, TLAPS

LEMMA LessOnNat == OpToRel(<, Nat) = {ss \in Nat \X Nat : ss[1] < ss[2]}
  BY DEF OpToRel

\* The capture a push has in hand is one of those it still has to answer for.
LEMMA FirstInBatch ==
  ASSUME NEW batch \in SUBSET Ops, batch # {}
  PROVE  First(batch) \in batch
<1>1. batch \subseteq Nat
  BY CapturesAssumption DEF Ops
<1>2. PICK x \in batch : \A y \in batch : ~ (<<y, x>> \in OpToRel(<, Nat))
  BY <1>1, NatLessThanWellFounded, WFMin
<1>3. \A y \in batch : ~ (y < x)
  BY <1>1, <1>2, LessOnNat
<1>4. \A y \in batch : x <= y
  BY <1>1, <1>3
<1> QED
  BY <1>4 DEF First

-----------------------------------------------------------------------------
(* The inductive invariant.                                                *)

\* What push p has staged about capture o: the unique index keeps every other
\* push, and the committed table, clear of a row it has inserted; and a row of
\* its own is staged exactly when the capture is staged as applied.
StagedOK(p, o) ==
  /\ push[p].rows[o] # "none" =>
       /\ syncOps[o] = "none"
       /\ o \notin push[p].todo
       /\ \A q \in Pushes \ {p} : push[q].rows[o] = "none"
  /\ o \in push[p].adds =>
       /\ OpType[o] = "site_issue"
       /\ \/ push[p].rows[o] = "applied"
          \/ push[p].pc = "recording" /\ o = Current(p) /\ push[p].verdict = "applied"
  /\ OpType[o] = "site_issue" /\ push[p].rows[o] = "applied" => o \in push[p].adds

\* The capture in hand while its outcome is being decided and recorded.
HandOK(p) ==
  /\ push[p].pc \in {"writing", "recording"} => push[p].todo # {}
  /\ push[p].pc = "writing" /\ push[p].page # NoDiary => SeesPage(p, Today(p)) # NoDiary
  /\ push[p].pc = "recording" =>
       /\ push[p].verdict \in Status
       /\ OpType[Current(p)] = "site_issue" =>
            (push[p].verdict = "applied" <=> Current(p) \in push[p].adds)

IInv ==
  /\ ServerTypeOK
  /\ \A p \in Pushes : HandOK(p)
  /\ \A p \in Pushes : \A o \in Ops : StagedOK(p, o)
  /\ NothingWrittenTwice

-----------------------------------------------------------------------------
(* Types.                                                                  *)

LEMMA CurrentType ==
  ASSUME ServerTypeOK, NEW p \in Pushes, push[p].todo # {}
  PROVE  /\ Current(p) \in push[p].todo
         /\ Current(p) \in Ops
         /\ Today(p) \in Days
<1>1. push[p].todo \in SUBSET Ops
  BY DEF ServerTypeOK, Transactions
<1>2. Current(p) \in push[p].todo
  BY <1>1, FirstInBatch DEF Current
<1> QED
  BY <1>1, <1>2, CapturesAssumption DEF Today

\* What a push sees of a day is a page, or that there is none.
LEMMA SeesType ==
  ASSUME ServerTypeOK, NEW p \in Pushes, NEW d \in Days
  PROVE  /\ SeesPage(p, d) \in Pages \cup {NoDiary}
         /\ SeesCrew(p, d) \in Ops \cup {NoCrew}
  BY DEF ServerTypeOK, Transactions, SeesPage, SeesCrew

\* Merging a capture into a page gives a page.
LEMMA MergedType ==
  ASSUME NEW page \in Pages, NEW o \in Ops
  PROVE  Merged(page, o) \in Pages
<1>1. Says[o] \in Pages
  BY CapturesAssumption
<1>2. Carried(page, o) \in SUBSET Texts
  BY DEF Carried
<1>3. ASSUME NEW c \in Columns
      PROVE  Merged(page, o)[c] \in SUBSET Texts
  BY <1>1, <1>2 DEF Merged, Pages
<1> QED
  BY <1>3 DEF Merged, Pages

LEMMA FreeType == Free \in Transactions
  BY DEF Free, Transactions, Outcome, Answers

\* A step of one transaction keeps the types when what it moves on to is a
\* transaction.
LEMMA StepType ==
  ASSUME ServerTypeOK, NEW p \in Pushes, NEW t \in Transactions, Step(p, t)
  PROVE  ServerTypeOK'
  BY DEF ServerTypeOK, Step

LEMMA DecideType ==
  ASSUME ServerTypeOK, NEW p \in Pushes, NEW t \in Transactions,
         NEW v \in Status, Decide(p, t, v)
  PROVE  ServerTypeOK'
<1>1. [t EXCEPT !.verdict = v, !.pc = "recording"] \in Transactions
  BY DEF Transactions, Outcome
<1> QED
  BY <1>1, StepType DEF Decide

LEMMA MergeStep ==
  ASSUME ServerTypeOK, NEW p \in Pushes, HandOK(p), push[p].pc = "writing", MergeDiary(p)
  PROVE  \E u \in Transactions, v \in Status :
           /\ Decide(p, u, v)
           /\ u.todo = push[p].todo
           /\ u.rows = push[p].rows
           /\ u.adds = push[p].adds
           /\ u.answer = push[p].answer
<1> DEFINE o == Current(p)
           d == Today(p)
           t == push[p]
           page == IF Dirty(t.page, o) = {} THEN t.pages[d]
                   ELSE Updated(t.page, SeesPage(p, d), o)
           v == IF Carried(t.page, o) # {} THEN "merged" ELSE "applied"
<1>0. /\ t \in Transactions
      /\ o \in Ops
      /\ d \in Days
  BY CurrentType DEF ServerTypeOK, HandOK
<1>1. t.page \in Pages
  BY <1>0 DEF MergeDiary, Transactions
<1>2. SeesPage(p, d) \in Pages
  BY <1>0, SeesType DEF MergeDiary, HandOK
<1>3. Merged(t.page, o) \in Pages
  BY <1>0, <1>1, MergedType
<1>4. Updated(t.page, SeesPage(p, d), o) \in Pages
  BY <1>2, <1>3 DEF Updated, Pages
<1>5. page \in Pages \cup {Clean}
  BY <1>0, <1>4 DEF Transactions
<1>6. Decide(p, [t EXCEPT !.pages[d] = page], v)
  BY DEF MergeDiary
<1> HIDE DEF page
<1>7. /\ [t EXCEPT !.pages[d] = page] \in Transactions
      /\ [t EXCEPT !.pages[d] = page].todo = t.todo
      /\ [t EXCEPT !.pages[d] = page].rows = t.rows
      /\ [t EXCEPT !.pages[d] = page].adds = t.adds
      /\ [t EXCEPT !.pages[d] = page].answer = t.answer
  BY <1>0, <1>5 DEF Transactions
<1> QED
  BY <1>6, <1>7 DEF Status

LEMMA WriteType ==
  ASSUME ServerTypeOK, NEW p \in Pushes, HandOK(p), Write(p)
  PROVE  ServerTypeOK'
<1> DEFINE o == Current(p)
           d == Today(p)
           t == push[p]
<1>0. /\ t \in Transactions
      /\ o \in Ops
      /\ d \in Days
      /\ Says[o] \in Pages
  BY CurrentType, CapturesAssumption DEF ServerTypeOK, Write, HandOK
<1>1. CASE InsertRefused(p)
  BY <1>0, <1>1, DecideType DEF InsertRefused, Status
<1>2. CASE InsertDiary(p)
  <2>1. [t EXCEPT !.pages[d] = Says[o]] \in Transactions
    BY <1>0 DEF Transactions
  <2> QED
    BY <1>2, <2>1, DecideType DEF InsertDiary, Status
<1>3. CASE MergeDiary(p)
  BY <1>3, MergeStep, DecideType DEF Write
<1>4. CASE WriteCrew(p)
  <2>1. [t EXCEPT !.crews[d] = o] \in Transactions
    BY <1>0 DEF Transactions
  <2> QED
    BY <1>4, <2>1, DecideType DEF WriteCrew, Status
<1>5. CASE WriteRow(p)
  <2>1. [t EXCEPT !.adds = @ \cup {o}] \in Transactions
    BY <1>0 DEF Transactions
  <2> QED
    BY <1>5, <2>1, DecideType DEF WriteRow, Status
<1> QED
  BY <1>1, <1>2, <1>3, <1>4, <1>5 DEF Write

LEMMA WorkType ==
  ASSUME ServerTypeOK, NEW p \in Pushes, HandOK(p), Work(p)
  PROVE  ServerTypeOK'
<1> DEFINE o == Current(p)
           t == push[p]
<1>0. t \in Transactions
  BY DEF ServerTypeOK
<1>1. CASE Duplicate(p)
  <2>1. o \in Ops
    BY <1>1, CurrentType DEF Duplicate, Takes
  <2>2. [t EXCEPT !.answer[o] = "duplicate", !.todo = @ \ {o}] \in Transactions
    BY <1>0, <2>1 DEF Transactions, Answers
  <2> QED
    BY <1>1, <2>2, StepType DEF Duplicate
<1>2. CASE Refuse(p)
  BY <1>0, <1>2, DecideType DEF Refuse, Status
<1>3. CASE Read(p)
  <2>1. SeesPage(p, Today(p)) \in Pages \cup {NoDiary}
    BY <1>3, CurrentType, SeesType DEF Read, Takes
  <2>2. [t EXCEPT !.pc = "writing", !.page = SeesPage(p, Today(p)),
                  !.counted = SeesCrew(p, Today(p)) # NoCrew] \in Transactions
    BY <1>0, <2>1 DEF Transactions
  <2> QED
    BY <1>3, <2>2, StepType DEF Read
<1>4. CASE Write(p)
  BY <1>4, WriteType
<1>5. CASE Victim(p)
  BY <1>0, <1>5, DecideType DEF Victim, Status
<1>6. CASE Record(p)
  <2>1. /\ o \in Ops
        /\ t.verdict \in Status
    BY <1>6, CurrentType DEF Record, HandOK
  <2>2. [t EXCEPT !.rows[o] = t.verdict, !.answer[o] = t.verdict, !.todo = @ \ {o},
                  !.verdict = "none", !.page = NoDiary, !.counted = FALSE,
                  !.pc = "reading"] \in Transactions
    BY <1>0, <2>1 DEF Transactions, Outcome, Answers
  <2> QED
    BY <1>6, <2>2, StepType DEF Record
<1> QED
  BY <1>1, <1>2, <1>3, <1>4, <1>5, <1>6 DEF Work

LEMMA CommitType ==
  ASSUME ServerTypeOK, NEW p \in Pushes, Commit(p)
  PROVE  ServerTypeOK'
<1>1. /\ diary' \in [Days -> Pages \cup {NoDiary}]
      /\ crew' \in [Days -> Ops \cup {NoCrew}]
  BY SeesType DEF Commit
<1>2. syncOps' \in [Ops -> Outcome]
  BY DEF ServerTypeOK, Transactions, Commit
<1>3. filed' \in [Ops -> Nat]
  BY DEF ServerTypeOK, Commit
<1>4. push' \in [Pushes -> Transactions]
  BY FreeType DEF ServerTypeOK, Commit
<1> QED
  BY <1>1, <1>2, <1>3, <1>4 DEF ServerTypeOK

-----------------------------------------------------------------------------
(* Once and only once.                                                     *)

\* A step of p alone keeps the invariant of the other transactions, and its own
\* if what it moves on to satisfies it.
LEMMA OthersStaged ==
  ASSUME IInv, NEW p \in Pushes, NEW t \in Transactions, Step(p, t),
         \A o \in Ops : t.rows[o] = push[p].rows[o] \/ t.rows[o] = "none",
         NEW q \in Pushes, q # p
  PROVE  HandOK(q)' /\ \A o \in Ops : StagedOK(q, o)'
<1>1. /\ push'[q] = push[q]
      /\ push'[p] = t
      /\ \A r \in Pushes \ {p} : push'[r] = push[r]
      /\ UNCHANGED <<syncOps, diary, crew, filed>>
  BY DEF Step, IInv, ServerTypeOK
<1>2. Current(q)' = Current(q) /\ Today(q)' = Today(q)
  BY <1>1 DEF Current, Today
<1>3. SeesPage(q, Today(q))' = SeesPage(q, Today(q))
  BY <1>1, <1>2 DEF SeesPage
<1>4. \A o \in Ops : StagedOK(q, o)'
  BY <1>1, <1>2 DEF IInv, StagedOK
<1>5. HandOK(q)'
  BY <1>1, <1>2, <1>3 DEF IInv, HandOK
<1> QED
  BY <1>4, <1>5

\* A step of p that records nothing and writes no row: the invariant of p's own
\* staged rows is kept because none of them changes.
LEMMA OwnStaged ==
  ASSUME IInv, NEW p \in Pushes, NEW t \in Transactions, Step(p, t),
         t.rows = push[p].rows, t.todo \subseteq push[p].todo,
         t.adds = push[p].adds, push[p].pc # "recording",
         NEW o \in Ops
  PROVE  StagedOK(p, o)'
<1>1. /\ push'[p] = t
      /\ \A r \in Pushes \ {p} : push'[r] = push[r]
      /\ UNCHANGED <<syncOps, diary, crew, filed>>
  BY DEF Step, IInv, ServerTypeOK
<1> QED
  BY <1>1 DEF IInv, StagedOK

\* An outcome without a row of the capture's own.
LEMMA DecideStaged ==
  ASSUME IInv, NEW p \in Pushes, NEW t \in Transactions, NEW v \in Status,
         Decide(p, t, v), push[p].todo # {}, push[p].pc # "recording",
         t.todo = push[p].todo, t.rows = push[p].rows, t.adds = push[p].adds,
         OpType[Current(p)] = "site_issue" => v = "rejected",
         NEW q \in Pushes
  PROVE  HandOK(q)' /\ \A o \in Ops : StagedOK(q, o)'
<1> DEFINE u == [t EXCEPT !.verdict = v, !.pc = "recording"]
<1>1. u \in Transactions /\ Step(p, u)
  BY DEF Transactions, Outcome, Decide
<1>2. /\ u.rows = push[p].rows
      /\ u.todo = push[p].todo
      /\ u.adds = push[p].adds
      /\ u.pc = "recording"
      /\ u.verdict = v
  BY DEF Transactions
<1> HIDE DEF u
<1>3. CASE q # p
  BY <1>1, <1>2, <1>3, OthersStaged
<1>4. CASE q = p
  <2>1. \A o \in Ops : StagedOK(p, o)'
    BY <1>1, <1>2, OwnStaged
  <2>2. push'[p] = u
    BY <1>1 DEF Step, IInv, ServerTypeOK
  <2>3. Current(p)' = Current(p)
    BY <1>2, <2>2 DEF Current
  <2>4. push[p].rows[Current(p)] = "none" /\ Current(p) \in Ops
    BY CurrentType DEF IInv, StagedOK
  <2>5. OpType[Current(p)] = "site_issue" => Current(p) \notin push[p].adds
    BY <2>4 DEF IInv, StagedOK
  <2>6. HandOK(p)'
    BY <1>2, <2>2, <2>3, <2>5 DEF HandOK
  <2> QED
    BY <1>4, <2>1, <2>6
<1> QED
  BY <1>3, <1>4

LEMMA WriteStaged ==
  ASSUME IInv, NEW p \in Pushes, Write(p), NEW q \in Pushes
  PROVE  HandOK(q)' /\ \A o \in Ops : StagedOK(q, o)'
<1> DEFINE c == Current(p)
           d == Today(p)
           t == push[p]
<1>0. /\ t \in Transactions
      /\ t.todo # {}
      /\ t.pc = "writing"
      /\ c \in Ops
      /\ c \in t.todo
      /\ Says[c] \in Pages
      /\ ServerTypeOK
  BY CurrentType, CapturesAssumption DEF IInv, ServerTypeOK, Write, HandOK
<1>1. CASE InsertRefused(p)
  BY <1>0, <1>1, DecideStaged DEF InsertRefused, Status
<1>2. CASE InsertDiary(p)
  <2> DEFINE u == [t EXCEPT !.pages[d] = Says[c]]
  <2>1. /\ u \in Transactions
        /\ u.todo = t.todo
        /\ u.rows = t.rows
        /\ u.adds = t.adds
    BY <1>0 DEF Transactions
  <2>2. Decide(p, u, "applied") /\ OpType[c] # "site_issue"
    BY <1>2 DEF InsertDiary
  <2> HIDE DEF u
  <2> QED
    BY <1>0, <2>1, <2>2, DecideStaged DEF Status
<1>3. CASE MergeDiary(p)
  <2>1. PICK u \in Transactions, v \in Status :
          /\ Decide(p, u, v)
          /\ u.todo = t.todo
          /\ u.rows = t.rows
          /\ u.adds = t.adds
    BY <1>0, <1>3, MergeStep DEF IInv
  <2>2. OpType[c] # "site_issue"
    BY <1>3 DEF MergeDiary
  <2> QED
    BY <1>0, <2>1, <2>2, DecideStaged
<1>4. CASE WriteCrew(p)
  <2> DEFINE u == [t EXCEPT !.crews[d] = c]
  <2>1. /\ u \in Transactions
        /\ u.todo = t.todo
        /\ u.rows = t.rows
        /\ u.adds = t.adds
    BY <1>0 DEF Transactions
  <2>2. Decide(p, u, "applied") /\ OpType[c] # "site_issue"
    BY <1>4 DEF WriteCrew
  <2> HIDE DEF u
  <2> QED
    BY <1>0, <2>1, <2>2, DecideStaged DEF Status
<1>5. CASE WriteRow(p)
  <2> DEFINE u == [t EXCEPT !.adds = @ \cup {c}, !.verdict = "applied", !.pc = "recording"]
  <2>1. /\ u \in Transactions
        /\ u.todo = t.todo
        /\ u.rows = t.rows
        /\ u.adds = t.adds \cup {c}
        /\ u.pc = "recording"
        /\ u.verdict = "applied"
    BY <1>0 DEF Transactions, Outcome, Status
  <2>2. Step(p, u) /\ OpType[c] = "site_issue"
    BY <1>0, <1>5 DEF WriteRow, Decide, Transactions
  <2> HIDE DEF u
  <2>3. CASE q # p
    BY <2>1, <2>2, <2>3, OthersStaged
  <2>4. CASE q = p
    <3>1. /\ push'[p] = u
          /\ \A r \in Pushes \ {p} : push'[r] = push[r]
          /\ UNCHANGED <<syncOps, diary, crew, filed>>
      BY <2>2 DEF Step, IInv, ServerTypeOK
    <3>2. Current(p)' = c
      BY <2>1, <3>1 DEF Current
    <3>3. t.rows[c] = "none"
      BY <1>0 DEF IInv, StagedOK
    <3>4. HandOK(p)'
      BY <1>0, <2>1, <3>1, <3>2 DEF HandOK, Status
    <3>5. \A o \in Ops : StagedOK(p, o)'
      BY <1>0, <2>1, <2>2, <3>1, <3>2, <3>3 DEF IInv, StagedOK
    <3> QED
      BY <2>4, <3>4, <3>5
  <2> QED
    BY <2>3, <2>4
<1> QED
  BY <1>1, <1>2, <1>3, <1>4, <1>5 DEF Write

\* The capture is recorded: the unique index lets one push at a time hold it.
LEMMA RecordStaged ==
  ASSUME IInv, NEW p \in Pushes, Record(p), NEW q \in Pushes
  PROVE  HandOK(q)' /\ \A o \in Ops : StagedOK(q, o)'
<1> DEFINE c == Current(p)
           t == push[p]
           u == [t EXCEPT !.rows[c] = t.verdict, !.answer[c] = t.verdict,
                          !.todo = @ \ {c}, !.verdict = "none", !.page = NoDiary,
                          !.counted = FALSE, !.pc = "reading"]
<1>0. /\ t \in Transactions
      /\ c \in Ops
      /\ c \in t.todo
      /\ t.pc = "recording"
      /\ t.verdict \in Status
      /\ syncOps[c] = "none"
  BY CurrentType DEF IInv, ServerTypeOK, Record, HandOK
<1>1. /\ u.rows = [t.rows EXCEPT ![c] = t.verdict]
      /\ u.todo = t.todo \ {c}
      /\ u.adds = t.adds
      /\ u.pc = "reading"
  BY <1>0 DEF Transactions
<1>2. /\ push'[p] = u
      /\ \A r \in Pushes \ {p} : push'[r] = push[r]
      /\ UNCHANGED <<syncOps, diary, crew, filed>>
  BY DEF Record, Step, IInv, ServerTypeOK
<1> HIDE DEF u
<1>3. \A r \in Pushes \ {p} : push[r].rows[c] = "none"
  BY <1>0 DEF Record, WaitsFor
<1>4. /\ t.rows \in [Ops -> Outcome]
      /\ t.rows[c] = "none"
      /\ OpType[c] = "site_issue" => (t.verdict = "applied" <=> c \in t.adds)
  BY <1>0 DEF IInv, StagedOK, HandOK, Transactions
<1>5. CASE q = p
  <2>1. HandOK(p)'
    BY <1>1, <1>2 DEF HandOK
  <2>2. ASSUME NEW o \in Ops
        PROVE  StagedOK(p, o)'
    <3>1. CASE o = c
      <4>1. u.rows[c] = t.verdict
        BY <1>0, <1>1, <1>4
      <4>2. c \in t.adds => OpType[c] = "site_issue"
        BY <1>0 DEF IInv, StagedOK
      <4> QED
        BY <1>0, <1>1, <1>2, <1>3, <1>4, <3>1, <4>1, <4>2 DEF StagedOK, Status
    <3>2. CASE o # c
      <4>1. u.rows[o] = t.rows[o]
        BY <1>1, <1>4, <3>2
      <4>2. StagedOK(p, o)
        BY DEF IInv
      <4> QED
        BY <1>0, <1>1, <1>2, <3>2, <4>1, <4>2 DEF StagedOK
    <3> QED
      BY <3>1, <3>2
  <2> QED
    BY <1>5, <2>1, <2>2
<1>6. CASE q # p
  <2>1. push'[q] = push[q] /\ Current(q)' = Current(q) /\ Today(q)' = Today(q)
    BY <1>2, <1>6 DEF Current, Today
  <2>2. SeesPage(q, Today(q))' = SeesPage(q, Today(q))
    BY <1>2, <2>1 DEF SeesPage
  <2>3. HandOK(q)'
    BY <2>1, <2>2 DEF IInv, HandOK
  <2>4. ASSUME NEW o \in Ops
        PROVE  StagedOK(q, o)'
    <3>1. push'[p].rows[o] = "none" \/ push'[p].rows[o] = t.rows[o] \/ o = c
      BY <1>1, <1>2, <1>4
    <3>2. StagedOK(q, o) /\ push[q].rows[c] = "none"
      BY <1>3, <1>6 DEF IInv
    <3> QED
      BY <1>2, <1>6, <2>1, <3>1, <3>2 DEF StagedOK
  <2> QED
    BY <2>3, <2>4
<1> QED
  BY <1>5, <1>6

LEMMA WorkStaged ==
  ASSUME IInv, NEW p \in Pushes, Work(p), NEW q \in Pushes
  PROVE  HandOK(q)' /\ \A o \in Ops : StagedOK(q, o)'
<1> DEFINE c == Current(p)
           t == push[p]
<1>0. t \in Transactions /\ ServerTypeOK
  BY DEF IInv, ServerTypeOK
<1>1. CASE Duplicate(p)
  <2> DEFINE u == [t EXCEPT !.answer[c] = "duplicate", !.todo = @ \ {c}]
  <2>1. c \in Ops /\ t.pc = "reading"
    BY <1>0, <1>1, CurrentType DEF Duplicate, Takes
  <2>2. /\ u \in Transactions
        /\ u.rows = t.rows
        /\ u.adds = t.adds
        /\ u.todo \subseteq t.todo
        /\ u.pc = "reading"
    BY <1>0, <2>1 DEF Transactions, Answers
  <2>3. Step(p, u)
    BY <1>1 DEF Duplicate
  <2> HIDE DEF u
  <2>4. push'[p] = u
    BY <2>3 DEF Step, IInv, ServerTypeOK
  <2>5. HandOK(p)'
    BY <2>2, <2>4 DEF HandOK
  <2> QED
    BY <2>1, <2>2, <2>3, <2>5, OthersStaged, OwnStaged
<1>2. CASE Refuse(p)
  BY <1>0, <1>2, DecideStaged DEF Refuse, Takes, Status
<1>3. CASE Read(p)
  <2> DEFINE u == [t EXCEPT !.pc = "writing", !.page = SeesPage(p, Today(p)),
                            !.counted = SeesCrew(p, Today(p)) # NoCrew]
  <2>1. /\ t.pc = "reading"
        /\ t.todo # {}
        /\ SeesPage(p, Today(p)) \in Pages \cup {NoDiary}
    BY <1>0, <1>3, CurrentType, SeesType DEF Read, Takes
  <2>2. /\ u \in Transactions
        /\ u.rows = t.rows
        /\ u.adds = t.adds
        /\ u.todo = t.todo
        /\ u.pc = "writing"
        /\ u.page = SeesPage(p, Today(p))
        /\ u.pages = t.pages
    BY <1>0, <2>1 DEF Transactions
  <2>3. Step(p, u)
    BY <1>3 DEF Read
  <2> HIDE DEF u
  <2>4. push'[p] = u /\ diary' = diary
    BY <2>3 DEF Step, IInv, ServerTypeOK
  <2>5. Today(p)' = Today(p)
    BY <2>2, <2>4 DEF Today, Current
  <2>6. SeesPage(p, Today(p))' = SeesPage(p, Today(p))
    BY <2>2, <2>4, <2>5 DEF SeesPage
  <2>7. HandOK(p)'
    BY <2>1, <2>2, <2>4, <2>6 DEF HandOK
  <2> QED
    BY <2>1, <2>2, <2>3, <2>7, OthersStaged, OwnStaged
<1>4. CASE Write(p)
  BY <1>4, WriteStaged
<1>5. CASE Victim(p)
  BY <1>0, <1>5, DecideStaged DEF IInv, HandOK, Victim, Status
<1>6. CASE Record(p)
  BY <1>6, RecordStaged
<1> QED
  BY <1>1, <1>2, <1>3, <1>4, <1>5, <1>6 DEF Work

\* A transaction left empty, by opening, aborting or committing, has staged
\* nothing and has nothing in hand.
Empty(t) ==
  /\ t \in Transactions
  /\ t.pc \notin {"writing", "recording"}
  /\ t.adds = {}
  /\ \A o \in Ops : t.rows[o] = "none"

LEMMA FreeEmpty == Empty(Free)
  BY FreeType DEF Empty, Free

LEMMA EmptyStaged ==
  ASSUME IInv, NEW p \in Pushes, NEW t, Empty(t), Step(p, t), NEW q \in Pushes
  PROVE  HandOK(q)' /\ \A o \in Ops : StagedOK(q, o)'
<1>1. push'[p] = t
  BY DEF Step, IInv, ServerTypeOK
<1>2. CASE q = p
  BY <1>1, <1>2 DEF Empty, HandOK, StagedOK
<1>3. CASE q # p
  BY <1>3, OthersStaged DEF Empty
<1> QED
  BY <1>2, <1>3

LEMMA CommitStaged ==
  ASSUME IInv, NEW p \in Pushes, push[p].pc \notin {"writing", "recording"}, Commit(p), NEW q \in Pushes
  PROVE  HandOK(q)' /\ \A o \in Ops : StagedOK(q, o)'
<1>1. /\ Empty(push'[p])
      /\ \A r \in Pushes \ {p} : push'[r] = push[r]
  BY FreeEmpty DEF Commit, IInv, ServerTypeOK
<1>2. CASE q = p
  BY <1>1, <1>2 DEF Empty, HandOK, StagedOK
<1>3. CASE q # p
  <2>1. push'[q] = push[q] /\ Current(q)' = Current(q) /\ Today(q)' = Today(q)
    BY <1>1, <1>3 DEF Current, Today
  <2>2. ASSUME NEW o \in Ops
        PROVE  StagedOK(q, o)'
    <3>1. StagedOK(q, o) /\ StagedOK(p, o)
      BY DEF IInv
    <3>2. push[q].rows[o] # "none" => syncOps'[o] = "none"
      BY <1>3, <3>1 DEF Commit, StagedOK
    <3>3. \A r \in Pushes : push'[r].rows[o] = push[r].rows[o] \/ push'[r].rows[o] = "none"
      BY <1>1 DEF Empty
    <3> QED
      BY <1>1, <1>3, <2>1, <3>1, <3>2, <3>3 DEF StagedOK
  <2>3. ASSUME push[q].pc = "writing", push[q].page # NoDiary
        PROVE  SeesPage(q, Today(q))' # NoDiary
    <3>1. /\ Today(q) \in Days
          /\ SeesPage(q, Today(q)) # NoDiary
      BY <2>3, CurrentType DEF IInv, HandOK
    <3>2. push[p].pages[Today(q)] \in Pages \cup {Clean}
      BY <3>1 DEF IInv, ServerTypeOK, Transactions
    <3>3. diary'[Today(q)] = diary[Today(q)] \/ diary'[Today(q)] # NoDiary
      BY <3>1, <3>2, SyncPushAssumption DEF Commit, SeesPage
    <3> QED
      BY <2>1, <3>1, <3>3 DEF SeesPage
  <2>4. HandOK(q)'
    BY <2>1, <2>3 DEF IInv, HandOK
  <2> QED
    BY <2>2, <2>4
<1> QED
  BY <1>2, <1>3

LEMMA CommitOnce ==
  ASSUME IInv, NEW p \in Pushes, push[p].pc # "recording", Commit(p)
  PROVE  NothingWrittenTwice'
<1>1. SUFFICES ASSUME NEW o \in Ops
               PROVE  filed'[o] = IF OpType[o] = "site_issue" /\ syncOps'[o] = "applied"
                                  THEN 1 ELSE 0
  BY DEF NothingWrittenTwice
<1>2. StagedOK(p, o)
  BY DEF IInv
<1>3. filed[o] = IF OpType[o] = "site_issue" /\ syncOps[o] = "applied" THEN 1 ELSE 0
  BY DEF IInv, NothingWrittenTwice
<1>4. CASE o \in push[p].adds
  <2>1. /\ OpType[o] = "site_issue"
        /\ push[p].rows[o] = "applied"
        /\ syncOps[o] = "none"
    BY <1>2, <1>4 DEF StagedOK
  <2>2. filed'[o] = 1 /\ syncOps'[o] = "applied"
    BY <1>3, <1>4, <2>1 DEF Commit
  <2> QED
    BY <2>1, <2>2
<1>5. CASE o \notin push[p].adds
  <2>1. filed'[o] = filed[o]
    BY <1>5 DEF Commit
  <2>2. CASE push[p].rows[o] = "none"
    BY <1>3, <2>1, <2>2 DEF Commit
  <2>3. CASE push[p].rows[o] # "none"
    <3>1. /\ syncOps[o] = "none"
          /\ syncOps'[o] = push[p].rows[o]
          /\ OpType[o] = "site_issue" => push[p].rows[o] # "applied"
      BY <1>2, <1>5, <2>3 DEF StagedOK, Commit
    <3> QED
      BY <1>3, <2>1, <3>1
  <2> QED
    BY <2>2, <2>3
<1> QED
  BY <1>4, <1>5

LEMMA InitIInv == ServerInit => IInv
<1> SUFFICES ASSUME ServerInit PROVE IInv
  OBVIOUS
<1>1. ServerTypeOK
  BY FreeType DEF ServerInit, ServerTypeOK, Outcome
<1>2. ASSUME NEW p \in Pushes
      PROVE  HandOK(p) /\ \A o \in Ops : StagedOK(p, o)
  <2>1. push[p] = Free
    BY DEF ServerInit
  <2> QED
    BY <2>1, FreeEmpty DEF Empty, HandOK, StagedOK, ServerInit
<1>3. NothingWrittenTwice
  BY DEF ServerInit, NothingWrittenTwice
<1> QED
  BY <1>1, <1>2, <1>3 DEF IInv

\* A push that begins, or ends without a trace.
LEMMA EmptyKeeps ==
  ASSUME IInv, NEW p \in Pushes, NEW t, Empty(t), Step(p, t)
  PROVE  IInv'
<1>1. ServerTypeOK'
  BY StepType DEF IInv, Empty
<1>2. \A q \in Pushes : HandOK(q)' /\ \A o \in Ops : StagedOK(q, o)'
  BY EmptyStaged
<1>3. NothingWrittenTwice'
  BY DEF IInv, Step, NothingWrittenTwice
<1> QED
  BY <1>1, <1>2, <1>3 DEF IInv

LEMMA OpenKeeps ==
  ASSUME IInv, NEW p \in Pushes, NEW batch \in SUBSET Ops, Open(p, batch)
  PROVE  IInv'
<1> DEFINE t == [Free EXCEPT !.pc = "reading", !.todo = batch]
<1>1. Empty(t)
  BY FreeType DEF Empty, Free, Transactions
<1>2. Step(p, t)
  BY DEF Open
<1> QED
  BY <1>1, <1>2, EmptyKeeps

LEMMA WorkKeeps ==
  ASSUME IInv, NEW p \in Pushes, Work(p)
  PROVE  IInv'
<1>1. ServerTypeOK'
  BY WorkType DEF IInv
<1>2. \A q \in Pushes : HandOK(q)' /\ \A o \in Ops : StagedOK(q, o)'
  BY WorkStaged
<1>3. UNCHANGED <<syncOps, filed>>
  BY DEF Work, Duplicate, Refuse, Read, Write, InsertRefused, InsertDiary, MergeDiary,
         WriteCrew, WriteRow, Victim, Record, Decide, Step
<1>4. NothingWrittenTwice'
  BY <1>3 DEF IInv, NothingWrittenTwice
<1> QED
  BY <1>1, <1>2, <1>4 DEF IInv

LEMMA CommitKeeps ==
  ASSUME IInv, NEW p \in Pushes, push[p].pc \notin {"writing", "recording"}, Commit(p)
  PROVE  IInv'
<1>1. ServerTypeOK'
  BY CommitType DEF IInv
<1>2. \A q \in Pushes : HandOK(q)' /\ \A o \in Ops : StagedOK(q, o)'
  BY CommitStaged
<1>3. NothingWrittenTwice'
  BY CommitOnce
<1> QED
  BY <1>1, <1>2, <1>3 DEF IInv

LEMMA NextIInv == IInv /\ [ServerNext]_serverVars => IInv'
<1> SUFFICES ASSUME IInv, [ServerNext]_serverVars
             PROVE  IInv'
  OBVIOUS
<1>1. CASE UNCHANGED serverVars
  BY <1>1 DEF serverVars, IInv, ServerTypeOK, HandOK, StagedOK, Current, Today, SeesPage,
              NothingWrittenTwice
<1>2. ASSUME NEW p \in Pushes, Finished(p), Commit(p)
      PROVE  IInv'
  BY <1>2, CommitKeeps DEF Finished
<1>3. ASSUME NEW p \in Pushes, Abort(p)
      PROVE  IInv'
  BY <1>3, FreeEmpty, EmptyKeeps DEF Abort
<1> QED
  BY <1>1, <1>2, <1>3, OpenKeeps, WorkKeeps DEF ServerNext

\* However pushes interleave, IInv holds throughout.
THEOREM PushInvariant == ServerSpec => []IInv
<1>1. ServerInit => IInv
  BY InitIInv
<1>2. IInv /\ [ServerNext]_serverVars => IInv'
  BY NextIInv
<1> QED
  BY <1>1, <1>2, PTL DEF ServerSpec

\* The state of the server is always well-typed: push() and its handlers never
\* merge a capture into a diary that is not there.
THEOREM PushTypeOK == ServerSpec => []ServerTypeOK
<1>1. IInv => ServerTypeOK
  BY DEF IInv
<1> QED
  BY <1>1, PushInvariant, PTL

\* A capture pushed any number of times, from any number of requests at once,
\* adds its row once, and exactly when its recorded outcome is "applied".
THEOREM PushWritesOnce == ServerSpec => []NothingWrittenTwice
<1>1. IInv => NothingWrittenTwice
  BY DEF IInv
<1> QED
  BY <1>1, PushInvariant, PTL

\* The outcome recorded for a capture never changes.
THEOREM PushOutcomeIsFinal == ServerSpec => OutcomeIsFinal
<1> DEFINE Keeps == \A o \in Ops : syncOps[o] # "none" => syncOps'[o] = syncOps[o]
<1>1. IInv /\ [ServerNext]_serverVars => [Keeps]_syncOps
  <2> SUFFICES ASSUME IInv, ServerNext, syncOps' # syncOps
               PROVE  Keeps
    BY DEF serverVars
  <2>1. PICK p \in Pushes : Finished(p) /\ Commit(p)
    BY DEF ServerNext, Open, Abort, Work, Duplicate, Refuse, Read, Write, InsertRefused,
           InsertDiary, MergeDiary, WriteCrew, WriteRow, Victim, Record, Decide, Step
  <2> QED
    BY <2>1 DEF IInv, StagedOK, Commit
<1> QED
  BY <1>1, PushInvariant, PTL DEF ServerSpec, OutcomeIsFinal

-----------------------------------------------------------------------------
(* A crew and the diary it hangs on.                                       *)

\* Push p sees a diary on every day it has counted a crew for or is about to.
HasDay(p) ==
  /\ \A d \in Days : push[p].crews[d] # Clean => SeesPage(p, d) # NoDiary
  /\ push[p].pc = "writing" /\ OpType[Current(p)] = "diary_labour" =>
       SeesPage(p, Today(p)) # NoDiary

Hung == CrewHasDiary /\ \A p \in Pushes : HasDay(p)

\* One statement of a push commits nothing and leaves the other pushes alone.
LEMMA WorkCommitsNothing ==
  ASSUME IInv, NEW p \in Pushes, Work(p)
  PROVE  /\ UNCHANGED <<diary, crew>>
         /\ \A q \in Pushes \ {p} : push'[q] = push[q]
<1>1. UNCHANGED <<diary, crew>>
  BY DEF Work, Duplicate, Refuse, Read, Write, InsertRefused, InsertDiary, MergeDiary,
         WriteCrew, WriteRow, Victim, Record, Decide, Step
<1>2. \E t : push' = [push EXCEPT ![p] = t]
  BY DEF Work, Duplicate, Refuse, Read, Write, InsertRefused, InsertDiary, MergeDiary,
         WriteCrew, WriteRow, Victim, Record, Decide, Step
<1> QED
  BY <1>1, <1>2 DEF IInv, ServerTypeOK

\* One statement of a push takes no page back, writes a crew only where the
\* handler has found a diary, and comes to write only by reading.
LEMMA WorkPages ==
  ASSUME IInv, NEW p \in Pushes, Work(p), NEW d \in Days
  PROVE  /\ push[p].pages[d] # Clean => push'[p].pages[d] # Clean
         /\ \/ push'[p].crews[d] = push[p].crews[d]
            \/ WriteCrew(p) /\ Write(p) /\ d = Today(p)
         /\ push'[p].pc = "writing" =>
              /\ Read(p)
              /\ push'[p].todo = push[p].todo
              /\ push'[p].pages = push[p].pages
<1> DEFINE c == Current(p)
           t == push[p]
<1>0. /\ ServerTypeOK
      /\ t \in Transactions
      /\ t.pages \in [Days -> Pages \cup {Clean}]
      /\ t.crews \in [Days -> Ops \cup {Clean}]
  BY DEF IInv, ServerTypeOK, Transactions
<1>1. ASSUME NEW u, Step(p, u)
      PROVE  push'[p] = u
  BY <1>0, <1>1 DEF Step, ServerTypeOK
<1>2. ASSUME NEW u \in Transactions, NEW v \in Status, Decide(p, u, v)
      PROVE  /\ push'[p].pages = u.pages
             /\ push'[p].crews = u.crews
             /\ push'[p].pc = "recording"
  <2> DEFINE w == [u EXCEPT !.verdict = v, !.pc = "recording"]
  <2>1. w.pages = u.pages /\ w.crews = u.crews /\ w.pc = "recording"
    BY DEF Transactions
  <2>2. Step(p, w)
    BY <1>2 DEF Decide
  <2> HIDE DEF w
  <2> QED
    BY <1>1, <2>1, <2>2
<1>3. CASE Duplicate(p)
  <2> DEFINE u == [t EXCEPT !.answer[c] = "duplicate", !.todo = @ \ {c}]
  <2>1. u.pages = t.pages /\ u.crews = t.crews /\ u.pc = "reading"
    BY <1>0, <1>3 DEF Transactions, Duplicate, Takes
  <2>2. Step(p, u)
    BY <1>3 DEF Duplicate
  <2> HIDE DEF u
  <2> QED
    BY <1>1, <2>1, <2>2
<1>4. CASE Refuse(p)
  BY <1>0, <1>2, <1>4 DEF Refuse, Status
<1>5. CASE Read(p)
  <2> DEFINE u == [t EXCEPT !.pc = "writing", !.page = SeesPage(p, Today(p)),
                            !.counted = SeesCrew(p, Today(p)) # NoCrew]
  <2>1. u.pages = t.pages /\ u.crews = t.crews /\ u.todo = t.todo
    BY <1>0 DEF Transactions
  <2>2. Step(p, u)
    BY <1>5 DEF Read
  <2> HIDE DEF u
  <2> QED
    BY <1>1, <1>5, <2>1, <2>2
<1>6. CASE Write(p)
  <2>0. /\ c \in Ops
        /\ Today(p) \in Days
        /\ Says[c] \in Pages
    BY <1>0, <1>6, CurrentType, CapturesAssumption DEF IInv, Write, HandOK
  <2>1. CASE InsertRefused(p)
    BY <1>0, <1>2, <2>1 DEF InsertRefused, Status
  <2>2. CASE InsertDiary(p)
    <3> DEFINE u == [t EXCEPT !.pages[Today(p)] = Says[c]]
    <3>1. u \in Transactions /\ u.crews = t.crews
      BY <1>0, <2>0 DEF Transactions
    <3>2. u.pages[d] = t.pages[d] \/ u.pages[d] = Says[c]
      BY <1>0, <2>0
    <3>3. Decide(p, u, "applied")
      BY <2>2 DEF InsertDiary
    <3> HIDE DEF u
    <3> QED
      BY <1>2, <2>0, <3>1, <3>2, <3>3, SyncPushAssumption DEF Status
  <2>3. CASE MergeDiary(p)
    <3> DEFINE page == IF Dirty(t.page, c) = {} THEN t.pages[Today(p)]
                       ELSE Updated(t.page, SeesPage(p, Today(p)), c)
               u == [t EXCEPT !.pages[Today(p)] = page]
               v == IF Carried(t.page, c) # {} THEN "merged" ELSE "applied"
    <3>1. t.page \in Pages
      BY <1>0, <2>3 DEF MergeDiary, Transactions
    <3>2. SeesPage(p, Today(p)) \in Pages
      BY <1>0, <1>6, <2>0, <2>3, SeesType DEF MergeDiary, IInv, HandOK, Write
    <3>3. Merged(t.page, c) \in Pages
      BY <2>0, <3>1, MergedType
    <3>4. Updated(t.page, SeesPage(p, Today(p)), c) \in Pages
      BY <3>2, <3>3 DEF Updated, Pages
    <3>5. page = t.pages[Today(p)] \/ page \in Pages
      BY <3>4
    <3>6. Decide(p, u, v)
      BY <2>3 DEF MergeDiary
    <3>7. v \in Status
      BY DEF Status
    <3> HIDE DEF page, v
    <3>8. u \in Transactions /\ u.crews = t.crews
      BY <1>0, <2>0, <3>5 DEF Transactions
    <3>9. u.pages[d] = t.pages[d] \/ u.pages[d] \in Pages
      BY <1>0, <2>0, <3>5
    <3> HIDE DEF u
    <3> QED
      BY <1>2, <3>6, <3>7, <3>8, <3>9, SyncPushAssumption
  <2>4. CASE WriteCrew(p)
    <3> DEFINE u == [t EXCEPT !.crews[Today(p)] = c]
    <3>1. u \in Transactions /\ u.pages = t.pages
      BY <1>0, <2>0 DEF Transactions
    <3>2. u.crews[d] = t.crews[d] \/ d = Today(p)
      BY <1>0, <2>0
    <3>3. Decide(p, u, "applied")
      BY <2>4 DEF WriteCrew
    <3> HIDE DEF u
    <3> QED
      BY <1>2, <1>6, <2>4, <3>1, <3>2, <3>3 DEF Status
  <2>5. CASE WriteRow(p)
    <3> DEFINE u == [t EXCEPT !.adds = @ \cup {c}]
    <3>1. u \in Transactions /\ u.pages = t.pages /\ u.crews = t.crews
      BY <1>0, <2>0 DEF Transactions
    <3>2. Decide(p, u, "applied")
      BY <2>5 DEF WriteRow
    <3> HIDE DEF u
    <3> QED
      BY <1>2, <3>1, <3>2 DEF Status
  <2> QED
    BY <1>6, <2>1, <2>2, <2>3, <2>4, <2>5 DEF Write
<1>7. CASE Victim(p)
  BY <1>0, <1>2, <1>7 DEF Victim, Status
<1>8. CASE Record(p)
  <2> DEFINE u == [t EXCEPT !.rows[c] = t.verdict, !.answer[c] = t.verdict,
                            !.todo = @ \ {c}, !.verdict = "none", !.page = NoDiary,
                            !.counted = FALSE, !.pc = "reading"]
  <2>1. u.pages = t.pages /\ u.crews = t.crews /\ u.pc = "reading"
    BY <1>0 DEF Transactions
  <2>2. Step(p, u)
    BY <1>8 DEF Record
  <2> HIDE DEF u
  <2> QED
    BY <1>1, <2>1, <2>2
<1> QED
  BY <1>3, <1>4, <1>5, <1>6, <1>7, <1>8 DEF Work

LEMMA WorkHung ==
  ASSUME IInv, Hung, NEW p \in Pushes, Work(p)
  PROVE  Hung'
<1>1. CrewHasDiary'
  BY WorkCommitsNothing DEF Hung, CrewHasDiary
<1>2. ASSUME NEW q \in Pushes \ {p}
      PROVE  HasDay(q)'
  BY <1>2, WorkCommitsNothing DEF Hung, HasDay, SeesPage, Today, Current
<1>3. HasDay(p)'
  <2>0. HasDay(p) /\ ServerTypeOK
    BY DEF Hung, IInv
  <2>1. ASSUME NEW d \in Days, SeesPage(p, d) # NoDiary
        PROVE  SeesPage(p, d)' # NoDiary
    <3>1. ServerTypeOK'
      BY WorkType DEF IInv
    <3>2. push'[p].pages[d] \in Pages \cup {Clean}
      BY <3>1 DEF ServerTypeOK, Transactions
    <3> QED
      BY <2>1, <3>2, WorkPages, WorkCommitsNothing, SyncPushAssumption DEF SeesPage
  <2>2. ASSUME NEW d \in Days, push'[p].crews[d] # Clean
        PROVE  SeesPage(p, d)' # NoDiary
    <3>1. CASE push'[p].crews[d] = push[p].crews[d]
      BY <2>0, <2>1, <2>2, <3>1 DEF HasDay
    <3>2. CASE WriteCrew(p) /\ Write(p) /\ d = Today(p)
      BY <2>0, <2>1, <3>2 DEF HasDay, WriteCrew, Write
    <3> QED
      BY <3>1, <3>2, WorkPages
  <2>3. ASSUME push'[p].pc = "writing", OpType[Current(p)'] = "diary_labour"
        PROVE  SeesPage(p, Today(p))' # NoDiary
    <3>1. IInv'
      BY WorkKeeps
    <3>2. PICK d \in Days : TRUE
      <4>1. push'[p].todo # {} /\ push'[p].todo \in SUBSET Ops
        BY <2>3, <3>1 DEF IInv, HandOK, ServerTypeOK, Transactions
      <4> QED
        BY <4>1, CapturesAssumption
    <3>3. /\ Read(p)
          /\ push'[p].todo = push[p].todo
          /\ push'[p].pages = push[p].pages
          /\ diary' = diary
      BY <2>3, <3>2, WorkPages, WorkCommitsNothing
    <3>4. Current(p)' = Current(p) /\ Today(p)' = Today(p)
      BY <3>3 DEF Current, Today
    <3>5. SeesPage(p, Today(p)) # NoDiary
      BY <2>3, <3>3, <3>4 DEF Read, Acceptable
    <3> QED
      BY <3>3, <3>4, <3>5 DEF SeesPage
  <2> QED
    BY <2>2, <2>3 DEF HasDay
<1> QED
  BY <1>1, <1>2, <1>3 DEF Hung

\* A transaction that has neither a crew nor a capture in hand.
Bare(t) == (\A d \in Days : t.crews[d] = Clean) /\ t.pc # "writing"

LEMMA BareHung ==
  ASSUME IInv, Hung, NEW p \in Pushes, NEW t, Bare(t), Step(p, t)
  PROVE  Hung'
<1>1. /\ push'[p] = t
      /\ \A q \in Pushes \ {p} : push'[q] = push[q]
      /\ UNCHANGED <<diary, crew>>
  BY DEF Step, IInv, ServerTypeOK
<1>2. HasDay(p)'
  BY <1>1 DEF Bare, HasDay
<1>3. ASSUME NEW q \in Pushes \ {p}
      PROVE  HasDay(q)'
  BY <1>1, <1>3 DEF Hung, HasDay, SeesPage, Today, Current
<1> QED
  BY <1>1, <1>2, <1>3 DEF Hung, CrewHasDiary

\* What a push commits only adds diaries, and adds the diary of every crew.
LEMMA CommitHung ==
  ASSUME IInv, Hung, NEW p \in Pushes, Commit(p)
  PROVE  Hung'
<1>1. /\ push'[p] = Free
      /\ \A q \in Pushes \ {p} : push'[q] = push[q]
  BY DEF Commit, IInv, ServerTypeOK
<1>2. ASSUME NEW d \in Days, diary[d] # NoDiary
      PROVE  diary'[d] # NoDiary
  <2>1. push[p].pages[d] \in Pages \cup {Clean}
    BY DEF IInv, ServerTypeOK, Transactions
  <2> QED
    BY <1>2, <2>1, SyncPushAssumption DEF Commit, SeesPage
<1>3. CrewHasDiary'
  <2> SUFFICES ASSUME NEW d \in Days, crew'[d] # NoCrew
               PROVE  diary'[d] # NoDiary
    BY DEF CrewHasDiary
  <2>1. CASE push[p].crews[d] # Clean
    BY <2>1 DEF Hung, HasDay, Commit
  <2>2. CASE push[p].crews[d] = Clean
    <3>1. crew[d] # NoCrew
      BY <2>2 DEF Commit, SeesCrew
    <3> QED
      BY <1>2, <3>1 DEF Hung, CrewHasDiary
  <2> QED
    BY <2>1, <2>2
<1>4. HasDay(p)'
  BY <1>1 DEF Free, HasDay
<1>5. ASSUME NEW q \in Pushes \ {p}
      PROVE  HasDay(q)'
  <2>1. HasDay(q) /\ push'[q] = push[q] /\ Current(q)' = Current(q) /\ Today(q)' = Today(q)
    BY <1>1, <1>5 DEF Hung, Today, Current
  <2>2. ASSUME NEW d \in Days, SeesPage(q, d) # NoDiary
        PROVE  SeesPage(q, d)' # NoDiary
    BY <1>2, <2>1, <2>2 DEF SeesPage
  <2>3. ASSUME push[q].pc = "writing", OpType[Current(q)] = "diary_labour"
        PROVE  SeesPage(q, Today(q))' # NoDiary
    <3>1. Today(q) \in Days
      BY <1>5, <2>3, CurrentType DEF IInv, HandOK
    <3>2. SeesPage(q, Today(q)) # NoDiary
      BY <2>1, <2>3 DEF HasDay
    <3>3. IF push[q].pages[Today(q)] # Clean THEN push[q].pages[Today(q)] # NoDiary
          ELSE diary'[Today(q)] # NoDiary
      BY <1>2, <3>1, <3>2 DEF SeesPage
    <3> QED
      BY <2>1, <3>3 DEF SeesPage
  <2> QED
    BY <2>1, <2>2, <2>3 DEF HasDay
<1> QED
  BY <1>3, <1>4, <1>5 DEF Hung

\* However pushes overlap, deadlock and fail, a crew that stands has a diary to
\* hang on.
THEOREM CrewIsOnADiary == ServerSpec => []CrewHasDiary
<1>1. ServerInit => Hung
  BY DEF ServerInit, Hung, CrewHasDiary, HasDay, Free
<1>2. IInv /\ Hung /\ [ServerNext]_serverVars => Hung'
  <2> SUFFICES ASSUME IInv, Hung, [ServerNext]_serverVars
               PROVE  Hung'
    OBVIOUS
  <2>1. CASE UNCHANGED serverVars
    BY <2>1 DEF serverVars, Hung, CrewHasDiary, HasDay, SeesPage, Today, Current
  <2>2. ASSUME NEW p \in Pushes, NEW batch \in SUBSET Ops, Open(p, batch)
        PROVE  Hung'
    <3>1. Bare([Free EXCEPT !.pc = "reading", !.todo = batch])
      BY DEF Bare, Free
    <3> QED
      BY <2>2, <3>1, BareHung DEF Open
  <2>3. ASSUME NEW p \in Pushes, Abort(p)
        PROVE  Hung'
    <3>1. Bare(Free)
      BY DEF Bare, Free
    <3> QED
      BY <2>3, <3>1, BareHung DEF Abort
  <2> QED
    BY <2>1, <2>2, <2>3, WorkHung, CommitHung DEF ServerNext
<1>3. Hung => CrewHasDiary
  BY DEF Hung
<1> QED
  BY <1>1, <1>2, <1>3, PushInvariant, PTL DEF ServerSpec

-----------------------------------------------------------------------------
(* The account of a day.                                                    *)

\* What one statement does to the page a push has staged for a day, and to the
\* page it has read.
LEMMA WorkDiary ==
  ASSUME IInv, NEW p \in Pushes, Work(p), NEW d \in Days
  PROVE  /\ \/ push'[p].pages[d] = push[p].pages[d]
            \/ /\ Write(p) /\ InsertDiary(p) /\ d = Today(p)
               /\ push'[p].pages[d] = Says[Current(p)]
            \/ /\ Write(p) /\ MergeDiary(p) /\ d = Today(p)
               /\ Dirty(push[p].page, Current(p)) # {}
               /\ push'[p].pages[d] = Updated(push[p].page, SeesPage(p, d), Current(p))
         /\ \/ push'[p].page \in {push[p].page, NoDiary}
            \/ Read(p) /\ push'[p].page = SeesPage(p, Today(p))
<1> DEFINE c == Current(p)
           t == push[p]
<1>0. /\ ServerTypeOK
      /\ t \in Transactions
      /\ t.pages \in [Days -> Pages \cup {Clean}]
      /\ t.crews \in [Days -> Ops \cup {Clean}]
  BY DEF IInv, ServerTypeOK, Transactions
<1>1. ASSUME NEW u, Step(p, u)
      PROVE  push'[p] = u
  BY <1>0, <1>1 DEF Step, ServerTypeOK
<1>2. ASSUME NEW u \in Transactions, NEW v \in Status, Decide(p, u, v), u.page = t.page
      PROVE  push'[p].pages = u.pages /\ push'[p].page = t.page
  <2> DEFINE w == [u EXCEPT !.verdict = v, !.pc = "recording"]
  <2>1. w.pages = u.pages /\ w.page = u.page
    BY DEF Transactions
  <2>2. Step(p, w)
    BY <1>2 DEF Decide
  <2> HIDE DEF w
  <2> QED
    BY <1>1, <1>2, <2>1, <2>2
<1>3. CASE Duplicate(p)
  <2> DEFINE u == [t EXCEPT !.answer[c] = "duplicate", !.todo = @ \ {c}]
  <2>1. u.pages = t.pages /\ u.page = t.page
    BY <1>0 DEF Transactions
  <2>2. Step(p, u)
    BY <1>3 DEF Duplicate
  <2> HIDE DEF u
  <2> QED
    BY <1>1, <2>1, <2>2
<1>4. CASE Refuse(p)
  BY <1>0, <1>2, <1>4 DEF Refuse, Status
<1>5. CASE Read(p)
  <2> DEFINE u == [t EXCEPT !.pc = "writing", !.page = SeesPage(p, Today(p)),
                            !.counted = SeesCrew(p, Today(p)) # NoCrew]
  <2>1. u.pages = t.pages /\ u.page = SeesPage(p, Today(p))
    BY <1>0 DEF Transactions
  <2>2. Step(p, u)
    BY <1>5 DEF Read
  <2> HIDE DEF u
  <2> QED
    BY <1>1, <1>5, <2>1, <2>2
<1>6. CASE Write(p)
  <2>0. /\ c \in Ops
        /\ Today(p) \in Days
        /\ Says[c] \in Pages
        /\ HandOK(p)
        /\ t.pc = "writing"
    BY <1>0, <1>6, CurrentType, CapturesAssumption DEF IInv, Write, HandOK
  <2>1. CASE InsertRefused(p)
    BY <1>0, <1>2, <2>1 DEF InsertRefused, Status
  <2>2. CASE InsertDiary(p)
    <3> DEFINE u == [t EXCEPT !.pages[Today(p)] = Says[c]]
    <3>1. u \in Transactions /\ u.page = t.page
      BY <1>0, <2>0 DEF Transactions
    <3>2. u.pages[d] = t.pages[d] \/ (u.pages[d] = Says[c] /\ d = Today(p))
      BY <1>0, <2>0
    <3>3. Decide(p, u, "applied")
      BY <2>2 DEF InsertDiary
    <3> HIDE DEF u
    <3> QED
      BY <1>2, <1>6, <2>2, <3>1, <3>2, <3>3 DEF Status
  <2>3. CASE MergeDiary(p)
    <3> DEFINE page == IF Dirty(t.page, c) = {} THEN t.pages[Today(p)]
                       ELSE Updated(t.page, SeesPage(p, Today(p)), c)
               u == [t EXCEPT !.pages[Today(p)] = page]
               v == IF Carried(t.page, c) # {} THEN "merged" ELSE "applied"
    <3>1. t.page \in Pages
      BY <1>0, <2>3 DEF MergeDiary, Transactions
    <3>2. SeesPage(p, Today(p)) \in Pages
      BY <1>0, <2>0, <2>3, SeesType DEF MergeDiary, HandOK
    <3>3. Merged(t.page, c) \in Pages
      BY <2>0, <3>1, MergedType
    <3>4. Updated(t.page, SeesPage(p, Today(p)), c) \in Pages
      BY <3>2, <3>3 DEF Updated, Pages
    <3>5. page \in Pages \cup {Clean}
      BY <1>0, <2>0, <3>4
    <3>6. Decide(p, u, v)
      BY <2>3 DEF MergeDiary
    <3>7. v \in Status
      BY DEF Status
    <3>8. \/ page = t.pages[Today(p)]
          \/ Dirty(t.page, c) # {} /\ page = Updated(t.page, SeesPage(p, Today(p)), c)
      OBVIOUS
    <3> HIDE DEF page, v
    <3>9. u \in Transactions /\ u.page = t.page
      BY <1>0, <2>0, <3>5 DEF Transactions
    <3>10. u.pages[d] = t.pages[d] \/ (u.pages[d] = page /\ d = Today(p))
      BY <1>0, <2>0
    <3> HIDE DEF u
    <3> QED
      BY <1>2, <1>6, <2>3, <3>6, <3>7, <3>8, <3>9, <3>10
  <2>4. CASE WriteCrew(p)
    <3> DEFINE u == [t EXCEPT !.crews[Today(p)] = c]
    <3>1. u \in Transactions /\ u.pages = t.pages /\ u.page = t.page
      BY <1>0, <2>0 DEF Transactions
    <3>2. Decide(p, u, "applied")
      BY <2>4 DEF WriteCrew
    <3> HIDE DEF u
    <3> QED
      BY <1>2, <3>1, <3>2 DEF Status
  <2>5. CASE WriteRow(p)
    <3> DEFINE u == [t EXCEPT !.adds = @ \cup {c}]
    <3>1. u \in Transactions /\ u.pages = t.pages /\ u.page = t.page
      BY <1>0, <2>0 DEF Transactions
    <3>2. Decide(p, u, "applied")
      BY <2>5 DEF WriteRow
    <3> HIDE DEF u
    <3> QED
      BY <1>2, <3>1, <3>2 DEF Status
  <2> QED
    BY <1>6, <2>1, <2>2, <2>3, <2>4, <2>5 DEF Write
<1>7. CASE Victim(p)
  BY <1>0, <1>2, <1>7 DEF Victim, Status
<1>8. CASE Record(p)
  <2> DEFINE u == [t EXCEPT !.rows[c] = t.verdict, !.answer[c] = t.verdict,
                            !.todo = @ \ {c}, !.verdict = "none", !.page = NoDiary,
                            !.counted = FALSE, !.pc = "reading"]
  <2>1. u.pages = t.pages /\ u.page = NoDiary
    BY <1>0 DEF Transactions
  <2>2. Step(p, u)
    BY <1>8 DEF Record
  <2> HIDE DEF u
  <2> QED
    BY <1>1, <2>1, <2>2
<1> QED
  BY <1>3, <1>4, <1>5, <1>6, <1>7, <1>8 DEF Work

\* Every page says what was done.  A page a push has staged says it the way the
\* committed diary of the day does, if there is one, and nobody else has staged
\* one; what a push is about to write has passed the handler's checks.
Accounted(page) == page # NoDiary => page["work_done"] # {}

AccountOK(p, d) ==
  push[p].pages[d] # Clean =>
    /\ push[p].pages[d]["work_done"] # {}
    /\ diary[d] # NoDiary => push[p].pages[d]["work_done"] = diary[d]["work_done"]
    /\ \A q \in Pushes \ {p} : push[q].pages[d] = Clean

Account ==
  /\ \A d \in Days : Accounted(diary[d])
  /\ \A p \in Pushes : /\ Accounted(push[p].page)
                       /\ push[p].pc = "writing" => Current(p) \in Valid
                       /\ \A d \in Days : AccountOK(p, d)

\* What is seen of a day says what was done.
LEMMA SeesAccount ==
  ASSUME IInv, Account, NEW p \in Pushes, NEW d \in Days
  PROVE  Accounted(SeesPage(p, d))
  BY DEF Account, AccountOK, SeesPage, Accounted

\* A merge leaves a column that is not blank as it is.
LEMMA MergeKeepsAccount ==
  ASSUME NEW read \in Pages, NEW now \in Pages, NEW o \in Ops, read["work_done"] # {}
  PROVE  Updated(read, now, o)["work_done"] = now["work_done"]
<1>1. "work_done" \notin Filled(read, o) /\ "work_done" \in Columns /\ "work_done" # "notes"
  BY DEF Filled, Columns, Fields
<1>2. Merged(read, o)["work_done"] = read["work_done"]
  BY <1>1 DEF Merged
<1>3. "work_done" \notin Dirty(read, o)
  BY <1>2 DEF Dirty
<1> QED
  BY <1>1, <1>3 DEF Updated

LEMMA WorkAccount ==
  ASSUME IInv, Account, NEW p \in Pushes, Work(p)
  PROVE  Account'
<1>0. /\ UNCHANGED diary
      /\ \A q \in Pushes \ {p} : push'[q] = push[q]
      /\ ServerTypeOK
      /\ ServerTypeOK'
  BY WorkCommitsNothing, WorkType DEF IInv
<1>2. Today(p) \in Days /\ Current(p) \in Ops
  BY <1>0, CurrentType DEF IInv, HandOK, Work, Duplicate, Refuse, Read, Write, Victim, Record, Takes
<1>3. Accounted(push'[p].page)
  <2>1. Accounted(push[p].page) /\ Accounted(NoDiary) /\ Accounted(SeesPage(p, Today(p)))
    BY <1>2, SeesAccount DEF Account, Accounted
  <2> QED
    BY <1>2, <2>1, WorkDiary
<1>4. push'[p].pc = "writing" => Current(p)' \in Valid
  <2> SUFFICES ASSUME push'[p].pc = "writing" PROVE Current(p)' \in Valid
    OBVIOUS
  <2>1. Read(p) /\ push'[p].todo = push[p].todo
    BY <1>2, WorkPages
  <2> QED
    BY <2>1 DEF Read, Acceptable, Current
<1>5. ASSUME NEW d \in Days
      PROVE  /\ AccountOK(p, d)'
             /\ \A q \in Pushes \ {p} : AccountOK(q, d)'
  <2>0. AccountOK(p, d) /\ \A q \in Pushes \ {p} : AccountOK(q, d)
    BY DEF Account
  <2>1. CASE push'[p].pages[d] = push[p].pages[d]
    BY <1>0, <2>0, <2>1 DEF AccountOK
  <2>2. ASSUME Write(p), WritesPage(p), d = Today(p),
               push'[p].pages[d]["work_done"] # {},
               diary[d] # NoDiary => push'[p].pages[d]["work_done"] = diary[d]["work_done"]
        PROVE  /\ AccountOK(p, d)'
               /\ \A q \in Pushes \ {p} : AccountOK(q, d)'
    <3>1. \A q \in Pushes \ {p} : push[q].pages[d] = Clean
      BY <2>2 DEF Write, WaitsFor
    <3> QED
      BY <1>0, <2>2, <3>1 DEF AccountOK
  <2>3. CASE /\ Write(p) /\ InsertDiary(p) /\ d = Today(p)
             /\ push'[p].pages[d] = Says[Current(p)]
    <3>1. Current(p) \in Valid /\ OpType[Current(p)] = "diary_entry"
      BY <2>3 DEF Account, Write, InsertDiary
    <3>2. Says[Current(p)]["work_done"] # {}
      BY <3>1, SyncPushAssumption
    <3>3. SeesPage(p, d) = NoDiary /\ WritesPage(p)
      BY <2>3 DEF InsertDiary, WritesPage
    <3>4. push[p].pages[d] \in Pages \cup {Clean}
      BY <1>0 DEF ServerTypeOK, Transactions
    <3>5. diary[d] = NoDiary
      BY <3>3, <3>4, SyncPushAssumption DEF SeesPage
    <3> QED
      BY <2>2, <2>3, <3>2, <3>3, <3>5
  <2>4. CASE /\ Write(p) /\ MergeDiary(p) /\ d = Today(p)
             /\ Dirty(push[p].page, Current(p)) # {}
             /\ push'[p].pages[d] = Updated(push[p].page, SeesPage(p, d), Current(p))
    <3>1. WritesPage(p) /\ push[p].page \in Pages /\ push[p].page # NoDiary
      BY <1>0, <2>4 DEF MergeDiary, WritesPage, ServerTypeOK, Transactions
    <3>2. SeesPage(p, d) # NoDiary /\ SeesPage(p, d) \in Pages
      BY <1>0, <2>4, <3>1, SeesType DEF IInv, HandOK, Write
    <3>3. push[p].page["work_done"] # {} /\ SeesPage(p, d)["work_done"] # {}
      BY <3>1, <3>2, SeesAccount DEF Account, Accounted
    <3>4. push'[p].pages[d]["work_done"] = SeesPage(p, d)["work_done"]
      BY <1>2, <2>4, <3>1, <3>2, <3>3, MergeKeepsAccount
    <3>5. diary[d] # NoDiary => SeesPage(p, d)["work_done"] = diary[d]["work_done"]
      BY <2>0 DEF SeesPage, AccountOK
    <3> QED
      BY <2>2, <2>4, <3>1, <3>3, <3>4, <3>5
  <2> QED
    BY <2>1, <2>3, <2>4, WorkDiary
<1>6. ASSUME NEW q \in Pushes \ {p}
      PROVE  Accounted(push'[q].page) /\ (push'[q].pc = "writing" => Current(q)' \in Valid)
  BY <1>0, <1>6 DEF Account, Current
<1>7. \A d \in Days : Accounted(diary'[d])
  BY <1>0 DEF Account
<1> QED
  BY <1>3, <1>4, <1>5, <1>6, <1>7 DEF Account, Accounted

\* A transaction with nothing staged for any day.
Blank(t) == (\A d \in Days : t.pages[d] = Clean) /\ t.page = NoDiary /\ t.pc # "writing"

LEMMA FreeBlank == Blank(Free)
  BY DEF Blank, Free

LEMMA BlankAccount ==
  ASSUME IInv, Account, NEW p \in Pushes, NEW t, Blank(t), Step(p, t)
  PROVE  Account'
<1>1. /\ push'[p] = t
      /\ \A q \in Pushes \ {p} : push'[q] = push[q]
      /\ UNCHANGED diary
  BY DEF Step, IInv, ServerTypeOK
<1>2. ASSUME NEW q \in Pushes
      PROVE  /\ Accounted(push'[q].page)
             /\ push'[q].pc = "writing" => Current(q)' \in Valid
             /\ \A d \in Days : AccountOK(q, d)'
  <2>1. CASE q = p
    BY <1>1, <2>1 DEF Blank, Accounted, AccountOK
  <2>2. CASE q # p
    BY <1>1, <2>2 DEF Account, AccountOK, Current, Blank
  <2> QED
    BY <2>1, <2>2
<1> QED
  BY <1>1, <1>2 DEF Account, Accounted

LEMMA CommitAccount ==
  ASSUME IInv, Account, NEW p \in Pushes, Commit(p)
  PROVE  /\ Account'
         /\ \A d \in Days : diary[d] # NoDiary =>
              diary'[d] # NoDiary /\ diary'[d]["work_done"] = diary[d]["work_done"]
<1>1. /\ push'[p] = Free
      /\ \A q \in Pushes \ {p} : push'[q] = push[q]
  BY DEF Commit, IInv, ServerTypeOK
<1>2. \A d \in Days : diary'[d] = IF push[p].pages[d] # Clean THEN push[p].pages[d] ELSE diary[d]
  BY DEF Commit, SeesPage
<1>3. \A d \in Days : push[p].pages[d] \in Pages \cup {Clean} /\ AccountOK(p, d)
  BY DEF IInv, ServerTypeOK, Transactions, Account
<1>4. ASSUME NEW q \in Pushes
      PROVE  /\ Accounted(push'[q].page)
             /\ push'[q].pc = "writing" => Current(q)' \in Valid
             /\ \A d \in Days : AccountOK(q, d)'
  <2>1. CASE q = p
    BY <1>1, <2>1, FreeBlank DEF Blank, Accounted, AccountOK
  <2>2. CASE q # p
    <3>1. ASSUME NEW d \in Days
          PROVE  AccountOK(q, d)'
      BY <1>1, <1>2, <1>3, <2>2, FreeBlank DEF Account, AccountOK, Blank
    <3> QED
      BY <1>1, <2>2, <3>1 DEF Account, Current
  <2> QED
    BY <2>1, <2>2
<1>5. \A d \in Days : Accounted(diary'[d])
  BY <1>2, <1>3 DEF Account, Accounted, AccountOK
<1>6. ASSUME NEW d \in Days, diary[d] # NoDiary
      PROVE  diary'[d] # NoDiary /\ diary'[d]["work_done"] = diary[d]["work_done"]
  BY <1>2, <1>3, <1>6, SyncPushAssumption DEF AccountOK
<1> QED
  BY <1>4, <1>5, <1>6 DEF Account, Accounted

LEMMA AccountNext == IInv /\ Account /\ [ServerNext]_serverVars => Account'
<1> SUFFICES ASSUME IInv, Account, [ServerNext]_serverVars PROVE Account'
  OBVIOUS
<1>1. CASE UNCHANGED serverVars
  BY <1>1 DEF serverVars, Account, AccountOK, Accounted, Current
<1>2. ASSUME NEW p \in Pushes, NEW batch \in SUBSET Ops, Open(p, batch)
      PROVE  Account'
  <2>1. Blank([Free EXCEPT !.pc = "reading", !.todo = batch])
    BY DEF Blank, Free
  <2> QED
    BY <1>2, <2>1, BlankAccount DEF Open
<1>3. ASSUME NEW p \in Pushes, Abort(p)
      PROVE  Account'
  BY <1>3, FreeBlank, BlankAccount DEF Abort
<1> QED
  BY <1>1, <1>2, <1>3, WorkAccount, CommitAccount DEF ServerNext

\* What the first writer of a day said was done stands, whatever pushes read
\* before it was written and write after it.
THEOREM AccountStands == ServerSpec => WorkDoneStands
<1> DEFINE Stands == \A d \in Days :
                       diary[d] # NoDiary =>
                         /\ diary'[d] # NoDiary
                         /\ diary'[d]["work_done"] = diary[d]["work_done"]
<1>1. ServerInit => Account
  BY FreeBlank DEF ServerInit, Account, AccountOK, Accounted, Blank
<1>2. IInv /\ Account /\ [ServerNext]_serverVars => [Stands]_diary
  <2> SUFFICES ASSUME IInv, Account, ServerNext, diary' # diary
               PROVE  Stands
    BY DEF serverVars
  <2>1. PICK p \in Pushes : Commit(p)
    BY DEF ServerNext, Open, Abort, Work, Duplicate, Refuse, Read, Write, InsertRefused,
           InsertDiary, MergeDiary, WriteCrew, WriteRow, Victim, Record, Decide, Step
  <2> QED
    BY <2>1, CommitAccount
<1> QED
  BY <1>1, <1>2, AccountNext, PushInvariant, PTL DEF ServerSpec, WorkDoneStands

-----------------------------------------------------------------------------
(* Both readings of a day, where pushes come one after another.             *)

\* A page that has all the texts of a capture.
Holds(page, o) == page \in Pages /\ Prose(Says[o]) \subseteq Prose(page)

Taken(status) == status \in {"applied", "merged"}

\* The page a push sees has every diary entry taken before or by it, and is the one it
\* read as long as nobody else is there to change it.
ReadsOn(p) ==
  /\ \A o \in Ops :
       OpType[o] = "diary_entry" /\ (Taken(syncOps[o]) \/ Taken(push[p].rows[o])) =>
         Holds(SeesPage(p, DayOf[o]), o)
  /\ push[p].pc = "writing" => push[p].page = SeesPage(p, Today(p))
  /\ push[p].pc = "recording" /\ OpType[Current(p)] = "diary_entry" /\ Taken(push[p].verdict) =>
       Holds(SeesPage(p, Today(p)), Current(p))

Readable ==
  /\ \A o \in Ops :
       OpType[o] = "diary_entry" /\ Taken(syncOps[o]) => Holds(diary[DayOf[o]], o)
  /\ \A p \in Pushes : push[p].pc # "free" => ReadsOn(p)

LEMMA ProseOf ==
  ASSUME NEW page \in Pages, NEW other \in Pages,
         \A c \in Columns : page[c] \subseteq Prose(other)
  PROVE  Prose(page) \subseteq Prose(other)
  BY DEF Prose

\* A merged page has the texts of both.
LEMMA MergedHolds ==
  ASSUME NEW page \in Pages, NEW o \in Ops
  PROVE  /\ Prose(page) \subseteq Prose(Merged(page, o))
         /\ Prose(Says[o]) \subseteq Prose(Merged(page, o))
<1> DEFINE m == Merged(page, o)
<1>0. Says[o] \in Pages /\ m \in Pages
  BY CapturesAssumption, MergedType
<1>1. ASSUME NEW c \in Columns
      PROVE  m[c] \subseteq Prose(m)
  BY DEF Prose
<1>2. /\ "notes" \in Columns /\ "notes" \notin Fields
      /\ \A c \in Columns : c \in Fields \/ c = "notes"
      /\ \A c \in Fields : c \in Columns
  BY DEF Columns, Fields
<1>3. /\ m["notes"] = page["notes"] \cup Carried(page, o)
      /\ \A c \in Fields : m[c] = IF page[c] = {} THEN Says[o][c] ELSE page[c]
  BY <1>2 DEF Merged, Filled
<1>4. ASSUME NEW c \in Columns
      PROVE  page[c] \subseteq Prose(m)
  <2>1. page[c] \subseteq m[c]
    BY <1>2, <1>3, <1>4
  <2> QED
    BY <1>1, <1>4, <2>1
<1>5. Carried(page, o) \subseteq Prose(m)
  BY <1>1, <1>2, <1>3
<1>6. ASSUME NEW c \in Columns, NEW x \in Says[o][c]
      PROVE  x \in Prose(m)
  <2>0. x \in Texts
    BY <1>0, <1>6 DEF Pages
  <2>1. CASE c \in Fields /\ page[c] = {}
    BY <1>1, <1>3, <1>6, <2>1
  <2>2. CASE x \in page[c]
    BY <1>4, <1>6, <2>2
  <2>3. CASE (c = "notes" \/ (c \in Fields /\ page[c] # {})) /\ x \notin page[c]
    <3>1. x \in Carried(page, o)
      BY <1>6, <2>0, <2>3 DEF Carried
    <3> QED
      BY <1>5, <3>1
  <2> QED
    BY <1>2, <1>6, <2>1, <2>2, <2>3
<1> HIDE DEF m
<1>7. Prose(page) \subseteq Prose(m)
  BY <1>0, <1>4, ProseOf
<1>8. Prose(Says[o]) \subseteq Prose(m)
  <2>1. \A c \in Columns : Says[o][c] \subseteq Prose(m)
    BY <1>6
  <2> QED
    BY <1>0, <2>1, ProseOf
<1> QED
  BY <1>7, <1>8 DEF m

\* An update of the very page that was read is the merge.
LEMMA UpdateIsMerge ==
  ASSUME NEW page \in Pages, NEW o \in Ops
  PROVE  /\ Updated(page, page, o) = Merged(page, o)
         /\ Dirty(page, o) = {} => Merged(page, o) = page
<1>1. Merged(page, o) \in Pages
  BY MergedType
<1>2. Updated(page, page, o) = [c \in Columns |-> Merged(page, o)[c]]
  BY DEF Updated, Dirty
<1>3. Merged(page, o) = [c \in Columns |-> Merged(page, o)[c]]
  BY <1>1 DEF Pages
<1>4. ASSUME Dirty(page, o) = {}
      PROVE  Merged(page, o) = page
  <2>1. \A c \in Columns : Merged(page, o)[c] = page[c]
    BY <1>4 DEF Dirty
  <2> QED
    BY <1>1, <2>1 DEF Pages
<1> QED
  BY <1>2, <1>3, <1>4

\* What one statement of a push decides, and what it records.
LEMMA WorkVerdict ==
  ASSUME IInv, NEW p \in Pushes, Work(p), NEW o \in Ops
  PROVE  /\ \/ push'[p].rows[o] = push[p].rows[o]
            \/ Record(p) /\ o = Current(p) /\ push'[p].rows[o] = push[p].verdict
         /\ push'[p].pc = "recording" =>
              /\ push'[p].todo = push[p].todo
              /\ \/ push'[p].verdict = "rejected"
                 \/ Write(p) /\ (InsertDiary(p) \/ MergeDiary(p))
                 \/ OpType[Current(p)] # "diary_entry"
<1> DEFINE c == Current(p)
           t == push[p]
<1>0. /\ ServerTypeOK
      /\ t \in Transactions
      /\ t.pages \in [Days -> Pages \cup {Clean}]
      /\ t.crews \in [Days -> Ops \cup {Clean}]
  BY DEF IInv, ServerTypeOK, Transactions
<1>1. ASSUME NEW u, Step(p, u)
      PROVE  push'[p] = u
  BY <1>0, <1>1 DEF Step, ServerTypeOK
<1>2. ASSUME NEW u \in Transactions, NEW v \in Status, Decide(p, u, v), u.rows = t.rows, u.todo = t.todo
      PROVE  push'[p].rows = t.rows /\ push'[p].todo = t.todo /\ push'[p].verdict = v
  <2> DEFINE w == [u EXCEPT !.verdict = v, !.pc = "recording"]
  <2>1. w.rows = u.rows /\ w.todo = u.todo /\ w.verdict = v
    BY DEF Transactions
  <2>2. Step(p, w)
    BY <1>2 DEF Decide
  <2> HIDE DEF w
  <2> QED
    BY <1>1, <1>2, <2>1, <2>2
<1>3. CASE Duplicate(p)
  <2> DEFINE u == [t EXCEPT !.answer[c] = "duplicate", !.todo = @ \ {c}]
  <2>1. u.rows = t.rows /\ u.pc = "reading"
    BY <1>0, <1>3 DEF Transactions, Duplicate, Takes
  <2>2. Step(p, u)
    BY <1>3 DEF Duplicate
  <2> HIDE DEF u
  <2> QED
    BY <1>1, <2>1, <2>2
<1>4. CASE Refuse(p)
  BY <1>0, <1>2, <1>4 DEF Refuse, Status
<1>5. CASE Read(p)
  <2> DEFINE u == [t EXCEPT !.pc = "writing", !.page = SeesPage(p, Today(p)),
                            !.counted = SeesCrew(p, Today(p)) # NoCrew]
  <2>1. u.rows = t.rows /\ u.pc = "writing"
    BY <1>0 DEF Transactions
  <2>2. Step(p, u)
    BY <1>5 DEF Read
  <2> HIDE DEF u
  <2> QED
    BY <1>1, <1>5, <2>1, <2>2
<1>6. CASE Write(p)
  <2>0. /\ c \in Ops
        /\ Today(p) \in Days
        /\ Says[c] \in Pages
        /\ HandOK(p)
        /\ t.pc = "writing"
    BY <1>0, <1>6, CurrentType, CapturesAssumption DEF IInv, Write, HandOK
  <2>1. CASE InsertRefused(p)
    BY <1>0, <1>2, <2>1 DEF InsertRefused, Status
  <2>2. CASE InsertDiary(p)
    <3> DEFINE u == [t EXCEPT !.pages[Today(p)] = Says[c]]
    <3>1. u \in Transactions /\ u.rows = t.rows /\ u.todo = t.todo
      BY <1>0, <2>0 DEF Transactions
    <3>2. Decide(p, u, "applied")
      BY <2>2 DEF InsertDiary
    <3> HIDE DEF u
    <3> QED
      BY <1>2, <1>6, <2>2, <3>1, <3>2 DEF Status
  <2>3. CASE MergeDiary(p)
    BY <1>0, <1>2, <1>6, <2>0, <2>3, MergeStep
  <2>4. CASE WriteCrew(p)
    <3> DEFINE u == [t EXCEPT !.crews[Today(p)] = c]
    <3>1. u \in Transactions /\ u.rows = t.rows /\ u.todo = t.todo
      BY <1>0, <2>0 DEF Transactions
    <3>2. Decide(p, u, "applied") /\ OpType[c] # "diary_entry"
      BY <2>4 DEF WriteCrew
    <3> HIDE DEF u
    <3> QED
      BY <1>2, <3>1, <3>2 DEF Status
  <2>5. CASE WriteRow(p)
    <3> DEFINE u == [t EXCEPT !.adds = @ \cup {c}]
    <3>1. u \in Transactions /\ u.rows = t.rows /\ u.todo = t.todo
      BY <1>0, <2>0 DEF Transactions
    <3>2. Decide(p, u, "applied") /\ OpType[c] # "diary_entry"
      BY <2>5 DEF WriteRow
    <3> HIDE DEF u
    <3> QED
      BY <1>2, <3>1, <3>2 DEF Status
  <2> QED
    BY <1>6, <2>1, <2>2, <2>3, <2>4, <2>5 DEF Write
<1>7. CASE Victim(p)
  BY <1>0, <1>2, <1>7 DEF Victim, Status
<1>8. CASE Record(p)
  <2> DEFINE u == [t EXCEPT !.rows[c] = t.verdict, !.answer[c] = t.verdict,
                            !.todo = @ \ {c}, !.verdict = "none", !.page = NoDiary,
                            !.counted = FALSE, !.pc = "reading"]
  <2>1. u.rows = [t.rows EXCEPT ![c] = t.verdict] /\ u.pc = "reading"
    BY <1>0 DEF Transactions
  <2>2. Step(p, u) /\ t.rows \in [Ops -> Outcome]
    BY <1>0, <1>8 DEF Record, Transactions
  <2> HIDE DEF u
  <2> QED
    BY <1>1, <1>8, <2>1, <2>2
<1> QED
  BY <1>3, <1>4, <1>5, <1>6, <1>7, <1>8 DEF Work

\* A push that writes the very page it has read leaves one that has the texts of
\* the capture in hand, and those the page had before.
LEMMA WriteSees ==
  ASSUME IInv, Readable, NEW p \in Pushes, Write(p), InsertDiary(p) \/ MergeDiary(p),
         UNCHANGED diary, NEW d, d = Today(p), NEW c, c = Current(p)
  PROVE  /\ Holds(SeesPage(p, d)', c)
         /\ \A o \in Ops : Holds(SeesPage(p, d), o) => Holds(SeesPage(p, d)', o)
<1> DEFINE t == push[p]
<1>0. /\ ServerTypeOK
      /\ t \in Transactions
      /\ t.pages \in [Days -> Pages \cup {Clean}]
      /\ t.page \in Pages \cup {NoDiary}
      /\ t.pc = "writing"
      /\ d \in Days
      /\ c \in Ops
      /\ Says[c] \in Pages
  BY CurrentType, CapturesAssumption DEF IInv, HandOK, ServerTypeOK, Transactions, Write
<1>1. t.page = SeesPage(p, d)
  BY <1>0 DEF Readable, ReadsOn
<1>2. ASSUME NEW u \in Transactions, NEW v, Decide(p, u, v)
      PROVE  push'[p].pages = u.pages
  <2>1. push'[p] = [u EXCEPT !.verdict = v, !.pc = "recording"]
    BY <1>0, <1>2 DEF Decide, Step, ServerTypeOK
  <2> QED
    BY <2>1 DEF Transactions
<1>3. CASE InsertDiary(p)
  <2> DEFINE u == [t EXCEPT !.pages[d] = Says[c]]
  <2>1. u \in Transactions /\ u.pages[d] = Says[c]
    BY <1>0 DEF Transactions
  <2>2. Decide(p, u, "applied") /\ SeesPage(p, d) = NoDiary
    BY <1>3 DEF InsertDiary
  <2> HIDE DEF u
  <2>3. push'[p].pages[d] = Says[c]
    BY <1>2, <2>1, <2>2
  <2>4. SeesPage(p, d)' = Says[c]
    BY <1>0, <2>3, SyncPushAssumption DEF SeesPage
  <2> QED
    BY <1>0, <2>2, <2>4, SyncPushAssumption DEF Holds
<1>4. CASE MergeDiary(p)
  <2> DEFINE page == IF Dirty(t.page, c) = {} THEN t.pages[d]
                     ELSE Updated(t.page, SeesPage(p, d), c)
             u == [t EXCEPT !.pages[d] = page]
             v == IF Carried(t.page, c) # {} THEN "merged" ELSE "applied"
  <2>1. t.page \in Pages
    BY <1>0, <1>4 DEF MergeDiary
  <2>2. Merged(t.page, c) \in Pages
    BY <1>0, <2>1, MergedType
  <2>3. page = IF Dirty(t.page, c) = {} THEN t.pages[d] ELSE Merged(t.page, c)
    BY <1>0, <1>1, <2>1, UpdateIsMerge
  <2>4. Decide(p, u, v)
    BY <1>4 DEF MergeDiary
  <2> HIDE DEF v
  <2>5. page \in Pages \cup {Clean}
    BY <1>0, <2>2, <2>3
  <2> HIDE DEF page
  <2>6. u \in Transactions /\ u.pages[d] = page
    BY <1>0, <2>5 DEF Transactions
  <2> HIDE DEF u
  <2>7. push'[p].pages[d] = page
    BY <1>2, <2>4, <2>6
  <2>8. SeesPage(p, d)' = Merged(t.page, c)
    <3>1. CASE Dirty(t.page, c) = {}
      <4>1. SeesPage(p, d)' = SeesPage(p, d)
        BY <2>3, <2>7, <3>1 DEF SeesPage
      <4> QED
        BY <1>0, <1>1, <2>1, <3>1, <4>1, UpdateIsMerge
    <3>2. CASE Dirty(t.page, c) # {}
      BY <2>2, <2>3, <2>7, <3>2, SyncPushAssumption DEF SeesPage
    <3> QED
      BY <3>1, <3>2
  <2>9. /\ Prose(t.page) \subseteq Prose(Merged(t.page, c))
        /\ Prose(Says[c]) \subseteq Prose(Merged(t.page, c))
    BY <1>0, <2>1, MergedHolds
  <2> QED
    BY <1>1, <2>2, <2>8, <2>9 DEF Holds
<1> QED
  BY <1>3, <1>4

\* One statement of the only push there is.
LEMMA WorkReads ==
  ASSUME IInv, InTurn, Readable, NEW p \in Pushes, Work(p)
  PROVE  Readable'
<1>0. /\ UNCHANGED <<syncOps, diary>>
      /\ \A q \in Pushes \ {p} : push'[q] = push[q] /\ push[q].pc = "free"
      /\ ReadsOn(p)
      /\ ServerTypeOK
  <2>1. push[p].pc # "free"
    BY DEF Work, Duplicate, Refuse, Read, Write, Victim, Record, Takes
  <2>2. UNCHANGED syncOps
    BY DEF Work, Duplicate, Refuse, Read, Write, InsertRefused, InsertDiary, MergeDiary,
           WriteCrew, WriteRow, Victim, Record, Decide, Step
  <2> QED
    BY <2>1, <2>2, WorkCommitsNothing DEF IInv, InTurn, Readable
<1>1. PICK d, c : d = Today(p) /\ c = Current(p) /\ d = DayOf[c]
  BY DEF Today
<1>2. d \in Days /\ c \in Ops
  BY <1>0, <1>1, CurrentType DEF IInv, HandOK, Work, Duplicate, Refuse, Read, Write, Victim, Record, Takes
<1>3. ASSUME Write(p), InsertDiary(p) \/ MergeDiary(p)
      PROVE  /\ Holds(SeesPage(p, d)', c)
             /\ \A o \in Ops : Holds(SeesPage(p, d), o) => Holds(SeesPage(p, d)', o)
  BY <1>0, <1>1, <1>3, WriteSees
<1>4. ASSUME NEW day \in Days, NEW o \in Ops, Holds(SeesPage(p, day), o)
      PROVE  Holds(SeesPage(p, day)', o)
  <2>1. CASE push'[p].pages[day] = push[p].pages[day]
    <3>1. SeesPage(p, day)' = SeesPage(p, day)
      BY <1>0, <2>1 DEF SeesPage
    <3> QED
      BY <1>4, <3>1
  <2>2. CASE Write(p) /\ (InsertDiary(p) \/ MergeDiary(p)) /\ day = Today(p)
    BY <1>1, <1>3, <1>4, <2>2
  <2> QED
    BY <2>1, <2>2, WorkDiary
<1>5. ASSUME NEW o \in Ops, OpType[o] = "diary_entry",
             Taken(syncOps'[o]) \/ Taken(push'[p].rows[o])
      PROVE  Holds(SeesPage(p, DayOf[o])', o)
  <2>0. DayOf[o] \in Days
    BY CapturesAssumption
  <2>1. CASE Taken(syncOps[o]) \/ push'[p].rows[o] = push[p].rows[o]
    BY <1>0, <1>4, <1>5, <2>0, <2>1 DEF ReadsOn
  <2>2. CASE /\ Record(p) /\ o = Current(p) /\ push'[p].rows[o] = push[p].verdict
             /\ ~ Taken(syncOps[o])
    <3>1. Holds(SeesPage(p, DayOf[o]), o)
      BY <1>0, <1>5, <2>2 DEF ReadsOn, Record, Today
    <3> QED
      BY <1>4, <2>0, <3>1
  <2> QED
    BY <2>1, <2>2, WorkVerdict
<1>6. ASSUME push'[p].pc = "writing"
      PROVE  push'[p].page = SeesPage(p, Today(p))'
  <2>1. Read(p) /\ push'[p].todo = push[p].todo /\ push'[p].pages = push[p].pages
    BY <1>2, <1>6, WorkPages
  <2>2. Today(p)' = d
    BY <1>1, <2>1 DEF Today, Current
  <2>3. push'[p].page = SeesPage(p, d)
    <3>1. push'[p] = [push[p] EXCEPT !.pc = "writing", !.page = SeesPage(p, Today(p)),
                                     !.counted = SeesCrew(p, Today(p)) # NoCrew]
      BY <1>0, <2>1 DEF Read, Step, ServerTypeOK
    <3>2. push[p] \in Transactions
      BY <1>0 DEF ServerTypeOK
    <3> QED
      BY <1>1, <3>1, <3>2 DEF Transactions
  <2> QED
    BY <1>0, <2>1, <2>2, <2>3 DEF SeesPage
<1>7. ASSUME push'[p].pc = "recording", OpType[Current(p)'] = "diary_entry", Taken(push'[p].verdict)
      PROVE  Holds(SeesPage(p, Today(p))', Current(p)')
  <2>1. /\ push'[p].todo = push[p].todo
        /\ \/ push'[p].verdict = "rejected"
           \/ Write(p) /\ (InsertDiary(p) \/ MergeDiary(p))
           \/ OpType[Current(p)] # "diary_entry"
    BY <1>2, <1>7, WorkVerdict
  <2>2. Current(p)' = c /\ Today(p)' = d
    BY <1>1, <2>1 DEF Today, Current
  <2>3. Holds(SeesPage(p, d)', c)
    BY <1>1, <1>3, <1>7, <2>1, <2>2 DEF Taken
  <2> QED
    BY <2>2, <2>3 DEF SeesPage
<1>8. ReadsOn(p)'
  BY <1>5, <1>6, <1>7 DEF ReadsOn
<1> QED
  BY <1>0, <1>8 DEF Readable

\* A transaction that has recorded nothing.
LEMMA EmptyReads ==
  ASSUME IInv, Readable, NEW p \in Pushes, NEW t, Blank(t), Empty(t), Step(p, t)
  PROVE  Readable'
<1>1. /\ push'[p] = t
      /\ \A q \in Pushes \ {p} : push'[q] = push[q]
      /\ UNCHANGED <<syncOps, diary>>
  BY DEF Step, IInv, ServerTypeOK
<1>2. ASSUME NEW q \in Pushes, push'[q].pc # "free"
      PROVE  ReadsOn(q)'
  <2>1. CASE q = p
    <3>1. \A d \in Days : SeesPage(p, d)' = diary[d]
      BY <1>1 DEF SeesPage, Blank
    <3>2. ASSUME NEW o \in Ops, OpType[o] = "diary_entry", Taken(syncOps[o])
          PROVE  DayOf[o] \in Days /\ Holds(diary[DayOf[o]], o)
      BY <3>2, CapturesAssumption DEF Readable
    <3>3. ~ Taken("none") /\ t.pc \notin {"writing", "recording"} /\ \A o \in Ops : t.rows[o] = "none"
      BY DEF Taken, Empty
    <3> QED
      BY <1>1, <2>1, <3>1, <3>2, <3>3 DEF ReadsOn
  <2>2. CASE q # p
    <3>1. push'[q] = push[q] /\ ReadsOn(q)
      BY <1>1, <1>2, <2>2 DEF Readable
    <3> QED
      BY <1>1, <3>1 DEF ReadsOn, SeesPage, Today, Current
  <2> QED
    BY <2>1, <2>2
<1> QED
  BY <1>1, <1>2 DEF Readable

LEMMA CommitReads ==
  ASSUME IInv, InTurn, Readable, NEW p \in Pushes, push[p].pc # "free", Commit(p)
  PROVE  Readable'
<1>1. /\ \A q \in Pushes : push'[q].pc = "free"
      /\ ReadsOn(p)
  <2>1. push'[p] = Free /\ \A q \in Pushes \ {p} : push'[q] = push[q]
    BY DEF Commit, IInv, ServerTypeOK
  <2> QED
    BY <2>1 DEF InTurn, Readable, Free
<1>2. ASSUME NEW o \in Ops, OpType[o] = "diary_entry", Taken(syncOps'[o])
      PROVE  Holds(diary'[DayOf[o]], o)
  <2>1. /\ DayOf[o] \in Days
        /\ diary'[DayOf[o]] = SeesPage(p, DayOf[o])
        /\ syncOps'[o] = IF push[p].rows[o] # "none" THEN push[p].rows[o] ELSE syncOps[o]
    BY CapturesAssumption DEF Commit
  <2> QED
    BY <1>1, <1>2, <2>1 DEF ReadsOn
<1> QED
  BY <1>1, <1>2 DEF Readable

LEMMA NextReads ==
  IInv /\ InTurn /\ Readable /\ [ServerNext]_serverVars => Readable'
<1> SUFFICES ASSUME IInv, InTurn, Readable, [ServerNext]_serverVars PROVE Readable'
  OBVIOUS
<1>1. CASE UNCHANGED serverVars
  BY <1>1 DEF serverVars, Readable, ReadsOn, SeesPage, Today, Current
<1>2. ASSUME NEW p \in Pushes, NEW batch \in SUBSET Ops, Open(p, batch)
      PROVE  Readable'
  <2>1. /\ Blank([Free EXCEPT !.pc = "reading", !.todo = batch])
        /\ Empty([Free EXCEPT !.pc = "reading", !.todo = batch])
    BY FreeType DEF Blank, Empty, Free, Transactions
  <2> QED
    BY <1>2, <2>1, EmptyReads DEF Open
<1>3. ASSUME NEW p \in Pushes, Abort(p)
      PROVE  Readable'
  BY <1>3, FreeBlank, FreeEmpty, EmptyReads DEF Abort
<1>4. ASSUME NEW p \in Pushes, Finished(p), Commit(p)
      PROVE  Readable'
  BY <1>4, CommitReads DEF Finished
<1> QED
  BY <1>1, <1>2, <1>3, <1>4, WorkReads DEF ServerNext

\* Where pushes come one after another, whatever is taken of a day can be read
\* in its diary: the merge of _diary_entry loses none of the texts it meets.
THEOREM ReadingsSurvive == ServerSpec => ReadingsSurviveInTurn
<1>1. ServerInit => Readable
  BY DEF ServerInit, Readable, Taken, Free
<1>2. Readable => BothReadingsSurvive
  BY DEF Readable, BothReadingsSurvive, Taken, Holds
<1> QED
  BY <1>1, <1>2, NextReads, PushInvariant, PTL DEF ServerSpec, ReadingsSurviveInTurn

-----------------------------------------------------------------------------
(* Phones and server together: the server's side.                           *)

\* Nothing a transaction has staged changes when its answer leaves.
LEMMA RespondsKeeps ==
  ASSUME IInv, NEW p \in Pushes, NEW heard \in [Ops -> Answers], Responds(p, heard)
  PROVE  IInv'
<1> DEFINE t == [push[p] EXCEPT !.pc = "answered", !.answer = heard]
<1>1. push[p].pc = "reading" /\ Step(p, t)
  BY DEF Responds, Finished
<1>2. /\ t \in Transactions
      /\ t.rows = push[p].rows
      /\ t.adds = push[p].adds
      /\ t.todo = push[p].todo
      /\ t.pc = "answered"
  BY DEF IInv, ServerTypeOK, Transactions
<1> HIDE DEF t
<1>3. ServerTypeOK' /\ push'[p] = t
  BY <1>1, <1>2, StepType DEF IInv, Step, ServerTypeOK
<1>4. ASSUME NEW q \in Pushes
      PROVE  HandOK(q)' /\ \A o \in Ops : StagedOK(q, o)'
  <2>1. CASE q = p
    <3>1. HandOK(p)'
      BY <1>2, <1>3 DEF HandOK
    <3> QED
      BY <1>1, <1>2, <2>1, <3>1, OwnStaged
  <2> QED
    BY <1>1, <1>2, <2>1, OthersStaged
<1>5. NothingWrittenTwice'
  BY <1>1 DEF IInv, Step, NothingWrittenTwice
<1> QED
  BY <1>3, <1>4, <1>5 DEF IInv

LEMMA AnswerType ==
  ASSUME IInv, NEW p \in Pushes
  PROVE  push[p].answer \in [Ops -> Answers] /\ NoAnswer \in [Ops -> Answers]
  BY DEF IInv, ServerTypeOK, Transactions, NoAnswer, Answers

LEMMA CommitPushKeeps ==
  ASSUME IInv, NEW p \in Pushes, CommitPush(p)
  PROVE  IInv'
  BY CommitKeeps DEF CommitPush

\* What the network and the phones do leaves the server's invariant alone.
LEMMA ServerKeeps == IInv /\ [Next]_vars => IInv'
<1> SUFFICES ASSUME IInv, [Next]_vars
             PROVE  IInv'
  OBVIOUS
<1>1. CASE UNCHANGED serverVars
  BY <1>1 DEF serverVars, IInv, ServerTypeOK, HandOK, StagedOK, Current, Today, SeesPage,
              NothingWrittenTwice
<1>2. CASE UNCHANGED vars
  BY <1>1, <1>2 DEF vars, serverVars
<1>3. ASSUME NEW d \in Drains, NEW p \in Pushes, Send(d, p)
      PROVE  IInv'
  <2>1. Pending(PhoneOf[d]) \in SUBSET Ops
    BY DEF Pending
  <2> QED
    BY <1>3, <2>1, OpenKeeps DEF Send
<1>4. ASSUME NEW p \in Pushes, Serve(p)
      PROVE  IInv'
  BY <1>4, WorkKeeps DEF Serve
<1>5. ASSUME NEW p \in Pushes, ServerFails(p)
      PROVE  IInv'
  BY <1>5, FreeEmpty, EmptyKeeps DEF ServerFails, Abort
<1>6. ASSUME NEW p \in Pushes, Respond(p) \/ ResponseLost(p)
      PROVE  IInv'
  BY <1>6, AnswerType, RespondsKeeps DEF Respond, ResponseLost
<1> QED
  BY <1>1, <1>2, <1>3, <1>4, <1>5, <1>6, CommitPushKeeps
     DEF Next, OnPhone, SendLost, DrainFails, PhoneDies

LEMMA ServerInvariant == Spec => []IInv
<1>1. Init => IInv
  BY InitIInv DEF Init
<1> QED
  BY <1>1, ServerKeeps, PTL DEF Spec

\* Whatever drains and connections do, retries included, the row of a capture is
\* written once, exactly when its outcome says so.
THEOREM RetriesWriteOnce == Spec => []NothingWrittenTwice
<1>1. IInv => NothingWrittenTwice
  BY DEF IInv
<1> QED
  BY <1>1, ServerInvariant, PTL

-----------------------------------------------------------------------------
(* The phones' side.                                                        *)

\* A call that puts a record back has its refusal in hand.
Marks(d) ==
  drain[d].pc = "marking" =>
    Answered(d) # {} /\ drain[d].results[First(Answered(d))] = "rejected"

PhoneTypeOK ==
  /\ OutboxTypeOK
  /\ caller \in [Pushes -> Drains \cup {NoDrain}]
  /\ \A d \in Drains : Marks(d)

\* What OutboxTypeOK says a call of drain() is.
Calls == [pc : {"idle", "looking", "waiting", "settling", "marking"}, results : [Ops -> Answers]]

LEMMA IdleType == Idle \in Calls /\ Idle.pc = "idle"
  BY DEF Idle, Calls, Answers

LEMMA CallType ==
  ASSUME OutboxTypeOK, NEW d \in Drains
  PROVE  /\ drain[d] \in Calls
         /\ \A pc \in {"idle", "looking", "waiting", "settling", "marking"} : [drain[d] EXCEPT !.pc = pc] \in Calls
         /\ \A o \in Ops : /\ [drain[d] EXCEPT !.results[o] = "none"] \in Calls
                          /\ [drain[d] EXCEPT !.pc = "settling", !.results[o] = "none"] \in Calls
  BY DEF OutboxTypeOK, Calls, Answers

\* A call moves on; nothing changes on the phone but perhaps `running`.
LEMMA MovesOn ==
  ASSUME OutboxTypeOK, NEW d \in Drains, NEW c \in Calls, drain' = [drain EXCEPT ![d] = c],
         box' \in [Ops -> Places], running' \in [Devices -> BOOLEAN]
  PROVE  OutboxTypeOK'
  BY DEF OutboxTypeOK, Calls

\* The result a drain deals with next is one it has.
LEMMA FirstAnswered ==
  ASSUME NEW d \in Drains, Answered(d) # {}
  PROVE  First(Answered(d)) \in Answered(d) /\ First(Answered(d)) \in Ops
  BY FirstInBatch DEF Answered

LEMMA MarksKept ==
  ASSUME NEW d \in Drains, Marks(d), drain'[d] = drain[d]
  PROVE  Marks(d)'
<1>1. Answered(d)' = Answered(d)
  BY DEF Answered
<1> QED
  BY <1>1 DEF Marks

LEMMA MarksOff ==
  ASSUME NEW d \in Drains, drain'[d].pc # "marking"
  PROVE  Marks(d)'
  BY DEF Marks

\* What a call does about the result it has in hand: drop it, take the record
\* off the phone, get it, or put it back.
Deals(d, o, boxed, c) ==
  /\ o \in Answered(d)
  /\ box' = [box EXCEPT ![o] = boxed]
  /\ drain' = [drain EXCEPT ![d] = c]
  /\ UNCHANGED running

LEMMA SettleStep ==
  ASSUME OutboxTypeOK, NEW d \in Drains, Marks(d), Remove(d) \/ FindRejected(d) \/ MarkRejected(d)
  PROVE  \E o \in Ops :
           \/ /\ drain[d].results[o] # "rejected"
              /\ Deals(d, o, IF Stored(o) THEN "sent" ELSE box[o], [drain[d] EXCEPT !.results[o] = "none"])
           \/ /\ drain[d].results[o] = "rejected" /\ o = First(Answered(d))
              /\ \/ Deals(d, o, box[o], [drain[d] EXCEPT !.pc = "marking"])
                 \/ Deals(d, o, box[o], [drain[d] EXCEPT !.results[o] = "none"])
                 \/ Deals(d, o, "rejected", [drain[d] EXCEPT !.pc = "settling", !.results[o] = "none"])
<1>0. Answered(d) # {}
  BY DEF Remove, FindRejected, MarkRejected, Marks
<1>1. PICK o \in Ops : o = First(Answered(d)) /\ o \in Answered(d)
  BY <1>0, FirstAnswered
<1>2. [box EXCEPT ![o] = box[o]] = box
  BY DEF OutboxTypeOK
<1>3. CASE Remove(d)
  BY <1>1, <1>3 DEF Remove, Deals
<1>4. CASE FindRejected(d)
  BY <1>1, <1>2, <1>4 DEF FindRejected, Deals
<1>5. CASE MarkRejected(d)
  <2>1. drain' = [drain EXCEPT ![d] = [drain[d] EXCEPT !.pc = "settling", !.results[o] = "none"]]
    BY <1>1, <1>5 DEF MarkRejected, OutboxTypeOK
  <2> QED
    BY <1>1, <1>5, <2>1 DEF MarkRejected, Deals, Marks
<1> QED
  BY <1>3, <1>4, <1>5

\* A step of a call, as far as its type goes.
LEMMA CallStep ==
  ASSUME OutboxTypeOK, NEW d \in Drains, Marks(d),
         Look(d) \/ Settle(d) \/ Post(d, Pending(PhoneOf[d])) \/ GiveUp(d)
  PROVE  /\ OutboxTypeOK'
         /\ Marks(d)'
         /\ \A e \in Drains \ {d} : drain'[e] = drain[e]
<1>1. CASE Look(d) \/ NothingToSend(d) \/ GiveUp(d) \/ Done(d) \/ Post(d, Pending(PhoneOf[d]))
  <2>1. running' \in [Devices -> BOOLEAN] /\ box' \in [Ops -> Places]
    BY <1>1, OutboxAssumption DEF Look, NothingToSend, GiveUp, Done, Post, OutboxTypeOK
  <2>2. PICK c \in Calls : drain' = [drain EXCEPT ![d] = c] /\ c.pc # "marking"
    <3>0. drain[d] \in Calls
      BY CallType
    <3>1. \A pc \in {"looking", "waiting"} : [drain[d] EXCEPT !.pc = pc].pc = pc
      BY <3>0 DEF Calls
    <3>2. CASE Look(d)
      BY <3>1, <3>2, CallType DEF Look
    <3>3. CASE Post(d, Pending(PhoneOf[d]))
      BY <3>1, <3>3, CallType DEF Post
    <3> QED
      BY <1>1, <3>2, <3>3, IdleType DEF NothingToSend, GiveUp, Done
  <2>3. drain'[d] = c /\ \A e \in Drains \ {d} : drain'[e] = drain[e]
    BY <2>2 DEF OutboxTypeOK
  <2> QED
    BY <2>1, <2>2, <2>3, MovesOn, MarksOff
<1>2. CASE Remove(d) \/ FindRejected(d) \/ MarkRejected(d)
  <2>1. PICK o \in Ops :
           \/ /\ drain[d].results[o] # "rejected"
              /\ Deals(d, o, IF Stored(o) THEN "sent" ELSE box[o], [drain[d] EXCEPT !.results[o] = "none"])
           \/ /\ drain[d].results[o] = "rejected" /\ o = First(Answered(d))
              /\ \/ Deals(d, o, box[o], [drain[d] EXCEPT !.pc = "marking"])
                 \/ Deals(d, o, box[o], [drain[d] EXCEPT !.results[o] = "none"])
                 \/ Deals(d, o, "rejected", [drain[d] EXCEPT !.pc = "settling", !.results[o] = "none"])
    BY <1>2, SettleStep
  <2>2. running' \in [Devices -> BOOLEAN] /\ box' \in [Ops -> Places]
    BY <2>1 DEF Deals, OutboxTypeOK, Places
  <2>3. PICK c \in Calls : drain' = [drain EXCEPT ![d] = c]
    BY <2>1, CallType DEF Deals
  <2>4. drain'[d] = c /\ \A e \in Drains \ {d} : drain'[e] = drain[e]
    BY <2>3 DEF OutboxTypeOK
  <2>5. Marks(d)'
    <3>1. CASE FindRejected(d) /\ drain'[d].pc = "marking"
      <4>1. drain' = [drain EXCEPT ![d].pc = "marking"] \/ drain' = [drain EXCEPT ![d].results[First(Answered(d))] = "none"]
        BY <3>1 DEF FindRejected
      <4>2. drain'[d].results = drain[d].results
        BY <3>1, <4>1, CallType DEF OutboxTypeOK, FindRejected
      <4>3. Answered(d)' = Answered(d)
        BY <4>2 DEF Answered
      <4> QED
        BY <3>1, <4>2, <4>3 DEF Marks, FindRejected
    <3>2. CASE Remove(d) \/ MarkRejected(d)
      <4>1. drain'[d].pc = "settling"
        BY <3>2 DEF Remove, MarkRejected, OutboxTypeOK
      <4> QED
        BY <4>1, MarksOff
    <3> QED
      BY <1>2, <3>1, <3>2, MarksOff
  <2> QED
    BY <2>2, <2>3, <2>4, <2>5, MovesOn
<1> QED
  BY <1>1, <1>2 DEF Settle

LEMMA KillType ==
  ASSUME OutboxTypeOK, NEW v \in Devices, Kill(v)
  PROVE  OutboxTypeOK' /\ \A d \in Drains : drain'[d] = Idle \/ drain'[d] = drain[d]
  BY IdleType DEF Kill, OutboxTypeOK, Calls

LEMMA PhoneType == IInv /\ PhoneTypeOK /\ [Next]_vars => PhoneTypeOK'
<1> SUFFICES ASSUME IInv, PhoneTypeOK, [Next]_vars
             PROVE  PhoneTypeOK'
  OBVIOUS
<1>1. CASE UNCHANGED vars
  <2>1. \A d \in Drains : Marks(d)'
    BY <1>1, MarksKept DEF vars, PhoneTypeOK
  <2> QED
    BY <1>1, <2>1 DEF vars, PhoneTypeOK, OutboxTypeOK
<1>2. CASE UNCHANGED outboxVars /\ (UNCHANGED caller \/ \E p \in Pushes : caller' = [caller EXCEPT ![p] = NoDrain])
  <2>1. \A d \in Drains : Marks(d)'
    BY <1>2, MarksKept DEF outboxVars, PhoneTypeOK
  <2> QED
    BY <1>2, <2>1 DEF outboxVars, PhoneTypeOK, OutboxTypeOK
<1>3. ASSUME NEW p \in Pushes, Respond(p)
      PROVE  PhoneTypeOK'
  <2>1. push[p].answer \in [Ops -> Answers] /\ caller[p] \in Drains
    BY <1>3 DEF IInv, ServerTypeOK, Transactions, PhoneTypeOK, Respond
  <2>2. OutboxTypeOK'
    BY <1>3, <2>1 DEF Respond, Receive, PhoneTypeOK, OutboxTypeOK
  <2>3. drain'[caller[p]].pc = "settling" /\ \A e \in Drains \ {caller[p]} : drain'[e] = drain[e]
    BY <1>3, <2>1 DEF Respond, Receive, PhoneTypeOK, OutboxTypeOK
  <2>4. \A d \in Drains : Marks(d)'
    BY <2>3, MarksKept, MarksOff DEF PhoneTypeOK
  <2> QED
    BY <1>3, <2>2, <2>4 DEF Respond, Responds, PhoneTypeOK
<1>4. ASSUME NEW d \in Drains, Look(d) \/ Settle(d) \/ Post(d, Pending(PhoneOf[d])) \/ GiveUp(d),
             caller' \in [Pushes -> Drains \cup {NoDrain}]
      PROVE  PhoneTypeOK'
  <2>1. OutboxTypeOK' /\ Marks(d)' /\ \A e \in Drains \ {d} : drain'[e] = drain[e]
    BY <1>4, CallStep DEF PhoneTypeOK
  <2>2. \A e \in Drains : Marks(e)'
    BY <2>1, MarksKept DEF PhoneTypeOK
  <2> QED
    BY <1>4, <2>1, <2>2 DEF PhoneTypeOK
<1>5. ASSUME NEW d \in Drains, DrainFails(d) \/ SendLost(d) \/ (\E p \in Pushes : Send(d, p))
                               \/ ((Look(d) \/ Settle(d)) /\ OnPhone)
      PROVE  PhoneTypeOK'
  <2>1. caller' \in [Pushes -> Drains \cup {NoDrain}]
    BY <1>5 DEF DrainFails, SendLost, Send, OnPhone, HangUp, PhoneTypeOK
  <2> QED
    BY <1>4, <1>5, <2>1 DEF DrainFails, SendLost, Send
<1>6. ASSUME NEW v \in Devices, PhoneDies(v)
      PROVE  PhoneTypeOK'
  <2>1. OutboxTypeOK' /\ \A d \in Drains : drain'[d] = Idle \/ drain'[d] = drain[d]
    BY <1>6, KillType DEF PhoneDies, PhoneTypeOK
  <2>2. \A d \in Drains : Marks(d)'
    BY <2>1, IdleType, MarksKept, MarksOff DEF PhoneTypeOK
  <2>3. caller' \in [Pushes -> Drains \cup {NoDrain}]
    BY <1>6 DEF PhoneDies, HangUp, PhoneTypeOK
  <2> QED
    BY <2>1, <2>2, <2>3 DEF PhoneTypeOK
<1>7. ASSUME NEW o \in Ops, Capture(o) \/ Discard(o), OnPhone
      PROVE  PhoneTypeOK'
  <2>1. drain' = drain
    BY <1>7 DEF Capture, Discard
  <2>2. \A d \in Drains : Marks(d)'
    BY <2>1, MarksKept DEF PhoneTypeOK
  <2> QED
    BY <1>7, <2>2 DEF Capture, Discard, OnPhone, PhoneTypeOK, OutboxTypeOK, Places
<1> QED
  BY <1>1, <1>2, <1>3, <1>5, <1>6, <1>7
     DEF Next, Serve, ServerFails, CommitPush, ResponseLost, Responds

LEMMA PhoneInvariant == Spec => []PhoneTypeOK
<1>1. Init => PhoneTypeOK
  BY IdleType DEF Init, OutboxInit, PhoneTypeOK, OutboxTypeOK, Places, Calls, Marks
<1> QED
  BY <1>1, PhoneType, ServerInvariant, PTL DEF Spec

\* A drain that is under way and has set `running` or is about to find it unset.
Busy(d) == drain[d].pc \notin {"idle", "looking"}

\* A phone is never left with `running` up and no drain to take it down, whatever
\* overlaps, fails or is killed.
THEOREM SomeDrainRuns == Spec => []NeverWedged
<1>1. Init => NeverWedged
  BY DEF Init, OutboxInit, NeverWedged
<1>2. PhoneTypeOK /\ NeverWedged /\ [Next]_vars => NeverWedged'
  <2> SUFFICES ASSUME PhoneTypeOK, NeverWedged, [Next]_vars, NEW v \in Devices, running'[v]
               PROVE  \E d \in Drains : PhoneOf[d] = v /\ Busy(d)'
    BY DEF NeverWedged, Busy
  <2>1. ASSUME NEW d \in Drains, running'[PhoneOf[d]] = FALSE,
               running' = [running EXCEPT ![PhoneOf[d]] = FALSE],
               drain' = [drain EXCEPT ![d] = Idle]
        PROVE  \E e \in Drains : PhoneOf[e] = v /\ Busy(e)'
    <3>1. v # PhoneOf[d] /\ running[v]
      BY <2>1 DEF PhoneTypeOK, OutboxTypeOK
    <3>2. PICK e \in Drains : PhoneOf[e] = v /\ Busy(e)
      BY <3>1 DEF NeverWedged, Busy
    <3> QED
      BY <2>1, <3>1, <3>2 DEF Busy
  <2>2. ASSUME NEW d \in Drains, Post(d, Pending(PhoneOf[d]))
        PROVE  \E e \in Drains : PhoneOf[e] = v /\ Busy(e)'
    <3>1. drain'[d].pc = "waiting" /\ \A e \in Drains \ {d} : drain'[e] = drain[e]
      BY <2>2 DEF Post, PhoneTypeOK, OutboxTypeOK
    <3>2. CASE v = PhoneOf[d]
      BY <3>1, <3>2 DEF Busy
    <3>3. CASE v # PhoneOf[d]
      <4>1. running[v]
        BY <2>2, <3>3 DEF Post, PhoneTypeOK, OutboxTypeOK
      <4> QED
        BY <3>1, <3>3, <4>1 DEF NeverWedged, Busy
    <3> QED
      BY <3>2, <3>3
  <2>3. ASSUME UNCHANGED running,
               \A d \in Drains : Busy(d) => Busy(d)'
        PROVE  \E e \in Drains : PhoneOf[e] = v /\ Busy(e)'
    BY <2>3 DEF NeverWedged, Busy
  <2>4. ASSUME NEW w \in Devices, Kill(w)
        PROVE  \E e \in Drains : PhoneOf[e] = v /\ Busy(e)'
    BY <2>4 DEF Kill, NeverWedged, Busy, PhoneTypeOK, OutboxTypeOK
  <2>5. ASSUME NEW d \in Drains, Look(d) \/ NothingToSend(d) \/ Remove(d) \/ FindRejected(d) \/ MarkRejected(d)
        PROVE  \E e \in Drains : PhoneOf[e] = v /\ Busy(e)'
    <3>1. UNCHANGED running
      BY <2>5 DEF Look, NothingToSend, Remove, FindRejected, MarkRejected
    <3>2. \A e \in Drains \ {d} : drain'[e] = drain[e]
      BY <2>5 DEF Look, NothingToSend, Remove, FindRejected, MarkRejected, PhoneTypeOK, OutboxTypeOK
    <3>3. Busy(d) => Busy(d)'
      BY <2>5 DEF Look, NothingToSend, Remove, FindRejected, MarkRejected, PhoneTypeOK, OutboxTypeOK, Busy
    <3> QED
      BY <2>3, <3>1, <3>2, <3>3 DEF Busy
  <2>6. ASSUME NEW d \in Drains, GiveUp(d) \/ Done(d)
        PROVE  \E e \in Drains : PhoneOf[e] = v /\ Busy(e)'
    BY <2>1, <2>6, OutboxAssumption DEF GiveUp, Done, PhoneTypeOK, OutboxTypeOK
  <2>7. ASSUME NEW p \in Pushes, Respond(p)
        PROVE  \E e \in Drains : PhoneOf[e] = v /\ Busy(e)'
    BY <2>3, <2>7 DEF Respond, Receive, PhoneTypeOK, OutboxTypeOK, Busy
  <2>8. CASE UNCHANGED <<running, drain>>
    BY <2>3, <2>8 DEF Busy
  <2> QED
    BY <2>2, <2>4, <2>5, <2>6, <2>7, <2>8
       DEF Next, vars, outboxVars, Capture, Discard, Settle, Send, SendLost, DrainFails, Serve, ServerFails,
           CommitPush, ResponseLost, PhoneDies
<1> QED
  BY <1>1, <1>2, PhoneInvariant, PTL DEF Spec

-----------------------------------------------------------------------------
(* What the phones are told, and what becomes of it.                        *)

\* An answer is a row the push has staged; a duplicate has its outcome already.
AnswerOK(p) ==
  \A o \in Ops :
    /\ push[p].answer[o] \in Status => push[p].rows[o] = push[p].answer[o]
    /\ push[p].answer[o] = "duplicate" => syncOps[o] # "none"

\* The outcomes of a capture the server has committed to or has told a phone.
Word(o) == {s \in Status : syncOps[o] = s \/ Owed(o) = s \/ s \in broken[o]}

\* What a drain has in hand is what the server holds or has given its word for.
ResultOK(d) ==
  \A o \in Ops :
    /\ drain[d].results[o] # "none" => Word(o) # {}
    /\ drain[d].results[o] = "rejected" => "rejected" \in Word(o)

Trusted(o) ==
  /\ box[o] \in {"sent", "discarded"} => Word(o) # {}
  /\ box[o] \in {"rejected", "discarded"} => "rejected" \in Word(o)

Backing ==
  /\ broken \in [Ops -> SUBSET Status]
  /\ \A p \in Pushes : AnswerOK(p)
  /\ \A d \in Drains : ResultOK(d)
  /\ \A o \in Ops : Trusted(o)

\* The pushes that have told of a capture, and what they told.
Tellers(ps, o) == {p \in Pushes : ps[p].pc = "answered" /\ ps[p].answer[o] \in Status}
OwedIn(ps, o) ==
  IF Tellers(ps, o) = {} THEN "none" ELSE ps[CHOOSE p \in Tellers(ps, o) : TRUE].answer[o]

LEMMA OwedCases ==
  ASSUME NEW ps, NEW o
  PROVE  /\ Tellers(ps, o) = {} => OwedIn(ps, o) = "none"
         /\ Tellers(ps, o) # {} => /\ OwedIn(ps, o) \in Status
                                  /\ \E p \in Tellers(ps, o) : OwedIn(ps, o) = ps[p].answer[o]
<1>1. CASE Tellers(ps, o) # {}
  <2>1. PICK p : p = (CHOOSE q \in Tellers(ps, o) : TRUE)
    OBVIOUS
  <2>2. p \in Tellers(ps, o)
    BY <1>1, <2>1
  <2>3. OwedIn(ps, o) = ps[p].answer[o]
    BY <1>1, <2>1 DEF OwedIn
  <2> QED
    BY <1>1, <2>2, <2>3 DEF Tellers
<1> QED
  BY <1>1 DEF OwedIn

LEMMA OwedSame ==
  ASSUME NEW ps, NEW qs, NEW o, Tellers(qs, o) = Tellers(ps, o),
         \A p \in Tellers(ps, o) : qs[p].answer[o] = ps[p].answer[o]
  PROVE  OwedIn(qs, o) = OwedIn(ps, o)
<1>1. CASE Tellers(ps, o) # {}
  <2>1. PICK p : p = (CHOOSE q \in Tellers(ps, o) : TRUE)
    OBVIOUS
  <2>2. p \in Tellers(ps, o)
    BY <1>1, <2>1
  <2>3. OwedIn(ps, o) = ps[p].answer[o] /\ OwedIn(qs, o) = qs[p].answer[o]
    BY <1>1, <2>1 DEF OwedIn
  <2> QED
    BY <2>2, <2>3
<1> QED
  BY <1>1 DEF OwedIn

LEMMA OwedIs == \A o : Owed(o) = OwedIn(push, o)
  BY DEF Owed, Told, OwedIn, Tellers

LEMMA OwedIsNext == \A o : Owed(o)' = OwedIn(push', o)
  BY DEF Owed, Told, OwedIn, Tellers

\* Only one push at a time has told of a capture: it holds the row.
Telling ==
  \A o \in Ops : \A p \in Tellers(push, o) :
    /\ Owed(o) = push[p].answer[o] /\ push[p].rows[o] = push[p].answer[o]
    /\ push[p].answer[o] \in Status /\ syncOps[o] = "none"
    /\ \A q \in Pushes \ {p} : push[q].rows[o] = "none" /\ q \notin Tellers(push, o)

LEMMA OneTeller == IInv /\ (\A q \in Pushes : AnswerOK(q)) => Telling
<1> SUFFICES ASSUME IInv, \A q \in Pushes : AnswerOK(q), NEW o \in Ops, NEW p \in Tellers(push, o)
             PROVE  /\ Owed(o) = push[p].answer[o] /\ push[p].rows[o] = push[p].answer[o]
                    /\ push[p].answer[o] \in Status /\ syncOps[o] = "none"
                    /\ \A q \in Pushes \ {p} : push[q].rows[o] = "none" /\ q \notin Tellers(push, o)
  BY DEF Telling
<1>1. p \in Pushes /\ push[p].answer[o] \in Status /\ push[p].rows[o] = push[p].answer[o]
  BY DEF Tellers, AnswerOK
<1>2. push[p].rows[o] # "none"
  BY <1>1 DEF Status
<1>3. syncOps[o] = "none" /\ \A q \in Pushes \ {p} : push[q].rows[o] = "none"
  BY <1>1, <1>2 DEF IInv, StagedOK
<1>4. ASSUME NEW q \in Pushes \ {p} PROVE q \notin Tellers(push, o)
  BY <1>3 DEF Tellers, AnswerOK, Status
<1> QED
  BY <1>1, <1>3, <1>4, OwedIs, OwedCases DEF Tellers

LEMMA OneTellerNext == (IInv /\ (\A q \in Pushes : AnswerOK(q)) => Telling)'
  BY OneTeller, PTL

\* An outcome is never changed.
LEMMA OutcomeKept ==
  ASSUME IInv, [Next]_vars, NEW o \in Ops, syncOps[o] # "none"
  PROVE  syncOps'[o] = syncOps[o]
<1>1. ASSUME NEW p \in Pushes, CommitPush(p)
      PROVE  syncOps'[o] = syncOps[o]
  BY <1>1 DEF CommitPush, Commit, IInv, StagedOK
<1>2. ASSUME NEW p \in Pushes, Work(p)
      PROVE  UNCHANGED syncOps
  BY <1>2 DEF Work, Duplicate, Refuse, Read, Write, InsertRefused, InsertDiary, MergeDiary,
              WriteCrew, WriteRow, Victim, Record, Decide, Step
<1> QED
  BY <1>1, <1>2 DEF Next, vars, serverVars, Send, Open, SendLost, Serve, ServerFails, Abort, Respond,
              ResponseLost, Responds, DrainFails, PhoneDies, OnPhone, Step

\* One statement answers with the row it stages or with what is committed.
LEMMA WorkAnswers ==
  ASSUME IInv, NEW p \in Pushes, Work(p), NEW o \in Ops
  PROVE  /\ push'[p].pc \in {"reading", "writing", "recording"}
         /\ \/ push'[p].answer[o] = push[p].answer[o] /\ push'[p].rows[o] = push[p].rows[o]
            \/ push'[p].answer[o] = "duplicate" /\ syncOps[o] # "none"
            \/ push'[p].answer[o] = push'[p].rows[o] /\ push'[p].rows[o] \in Status
<1> DEFINE c == Current(p)
           t == push[p]
<1>0. /\ ServerTypeOK
      /\ t \in Transactions
      /\ t.pages \in [Days -> Pages \cup {Clean}]
      /\ t.crews \in [Days -> Ops \cup {Clean}]
  BY DEF IInv, ServerTypeOK, Transactions
<1>1. ASSUME NEW u, Step(p, u)
      PROVE  push'[p] = u
  BY <1>0, <1>1 DEF Step, ServerTypeOK
<1>2. ASSUME NEW u \in Transactions, NEW v \in Status, Decide(p, u, v), u.answer = t.answer, u.rows = t.rows
      PROVE  /\ push'[p].answer = t.answer
             /\ push'[p].rows = t.rows
             /\ push'[p].pc = "recording"
  <2> DEFINE w == [u EXCEPT !.verdict = v, !.pc = "recording"]
  <2>1. w.answer = u.answer /\ w.rows = u.rows /\ w.pc = "recording"
    BY DEF Transactions
  <2>2. Step(p, w)
    BY <1>2 DEF Decide
  <2> HIDE DEF w
  <2> QED
    BY <1>1, <1>2, <2>1, <2>2
<1>3. CASE Duplicate(p)
  <2> DEFINE u == [t EXCEPT !.answer[c] = "duplicate", !.todo = @ \ {c}]
  <2>1. t.pc = "reading" /\ c \in Ops /\ syncOps[c] # "none" /\ Step(p, u)
    BY <1>0, <1>3, CurrentType DEF Duplicate, Takes
  <2>2. u.answer = [t.answer EXCEPT ![c] = "duplicate"] /\ u.rows = t.rows /\ u.pc = t.pc
    BY <1>0 DEF Transactions
  <2>3. t.answer \in [Ops -> Answers]
    BY <1>0 DEF Transactions
  <2> HIDE DEF u
  <2> QED
    BY <1>1, <2>1, <2>2, <2>3
<1>4. CASE Refuse(p)
  BY <1>0, <1>2, <1>4 DEF Refuse, Status
<1>5. CASE Read(p)
  <2> DEFINE u == [t EXCEPT !.pc = "writing", !.page = SeesPage(p, Today(p)),
                            !.counted = SeesCrew(p, Today(p)) # NoCrew]
  <2>1. u.answer = t.answer /\ u.rows = t.rows /\ u.pc = "writing"
    BY <1>0 DEF Transactions
  <2>2. Step(p, u)
    BY <1>5 DEF Read
  <2> HIDE DEF u
  <2> QED
    BY <1>1, <2>1, <2>2
<1>6. CASE Write(p)
  <2>0. /\ c \in Ops
        /\ Today(p) \in Days
        /\ Says[c] \in Pages
        /\ HandOK(p)
        /\ t.pc = "writing"
    BY <1>0, <1>6, CurrentType, CapturesAssumption DEF IInv, Write, HandOK
  <2>1. CASE InsertRefused(p)
    BY <1>0, <1>2, <2>1 DEF InsertRefused, Status
  <2>2. CASE InsertDiary(p)
    <3> DEFINE u == [t EXCEPT !.pages[Today(p)] = Says[c]]
    <3>1. u \in Transactions /\ u.answer = t.answer /\ u.rows = t.rows
      BY <1>0, <2>0 DEF Transactions
    <3>2. Decide(p, u, "applied")
      BY <2>2 DEF InsertDiary
    <3> HIDE DEF u
    <3> QED
      BY <1>2, <3>1, <3>2 DEF Status
  <2>3. CASE MergeDiary(p)
    BY <1>0, <1>2, <2>0, <2>3, MergeStep
  <2>4. CASE WriteCrew(p)
    <3> DEFINE u == [t EXCEPT !.crews[Today(p)] = c]
    <3>1. u \in Transactions /\ u.answer = t.answer /\ u.rows = t.rows
      BY <1>0, <2>0 DEF Transactions
    <3>2. Decide(p, u, "applied")
      BY <2>4 DEF WriteCrew
    <3> HIDE DEF u
    <3> QED
      BY <1>2, <3>1, <3>2 DEF Status
  <2>5. CASE WriteRow(p)
    <3> DEFINE u == [t EXCEPT !.adds = @ \cup {c}]
    <3>1. u \in Transactions /\ u.answer = t.answer /\ u.rows = t.rows
      BY <1>0, <2>0 DEF Transactions
    <3>2. Decide(p, u, "applied")
      BY <2>5 DEF WriteRow
    <3> HIDE DEF u
    <3> QED
      BY <1>2, <3>1, <3>2 DEF Status
  <2> QED
    BY <1>6, <2>1, <2>2, <2>3, <2>4, <2>5 DEF Write
<1>7. CASE Victim(p)
  BY <1>0, <1>2, <1>7 DEF Victim, Status
<1>8. CASE Record(p)
  <2> DEFINE u == [t EXCEPT !.rows[c] = t.verdict, !.answer[c] = t.verdict,
                            !.todo = @ \ {c}, !.verdict = "none", !.page = NoDiary,
                            !.counted = FALSE, !.pc = "reading"]
  <2>1. /\ u.answer = [t.answer EXCEPT ![c] = t.verdict]
        /\ u.rows = [t.rows EXCEPT ![c] = t.verdict]
        /\ u.pc = "reading"
    BY <1>0 DEF Transactions
  <2>2. Step(p, u) /\ t.verdict \in Status /\ c \in Ops
    BY <1>0, <1>8, CurrentType DEF Record, IInv, HandOK
  <2>3. t.answer \in [Ops -> Answers] /\ t.rows \in [Ops -> Outcome]
    BY <1>0 DEF Transactions
  <2> HIDE DEF u
  <2> QED
    BY <1>1, <2>1, <2>2, <2>3
<1> QED
  BY <1>3, <1>4, <1>5, <1>6, <1>7, <1>8 DEF Work

\* A transaction that has answered nothing.
Silent(t) == \A o \in Ops : t.answer[o] = "none"

LEMMA FreeSilent == Silent(Free) /\ Free.pc = "free"
  BY DEF Silent, Free

LEMMA AnswersKept ==
  ASSUME IInv, Backing, [Next]_vars, NEW q \in Pushes
  PROVE  AnswerOK(q)'
<1>0. push \in [Pushes -> Transactions] /\ AnswerOK(q)
  BY DEF IInv, ServerTypeOK, Backing
<1>1. \A o \in Ops : syncOps[o] # "none" => syncOps'[o] = syncOps[o]
  BY OutcomeKept
<1>2. ASSUME push'[q] = push[q]
      PROVE  AnswerOK(q)'
  BY <1>0, <1>1, <1>2 DEF AnswerOK
<1>3. ASSUME Silent(push'[q])
      PROVE  AnswerOK(q)'
  BY <1>3 DEF AnswerOK, Status, Silent
<1>4. ASSUME Work(q), UNCHANGED syncOps
      PROVE  AnswerOK(q)'
  BY <1>0, <1>4, WorkAnswers DEF AnswerOK, Status
<1>5. CASE UNCHANGED push
  BY <1>2, <1>5
<1>6. ASSUME NEW d \in Drains, NEW p \in Pushes, Send(d, p)
      PROVE  AnswerOK(q)'
  <2>1. /\ push'[p].answer = Free.answer
        /\ \A r \in Pushes \ {p} : push'[r] = push[r]
    BY <1>0, <1>6 DEF Send, Open, Step, Free
  <2> QED
    BY <1>2, <1>3, <2>1, FreeSilent DEF Silent
<1>7. ASSUME NEW p \in Pushes, ServerFails(p) \/ CommitPush(p)
      PROVE  AnswerOK(q)'
  <2>1. push' = [push EXCEPT ![p] = Free]
    BY <1>7 DEF ServerFails, Abort, Step, CommitPush, Commit
  <2> QED
    BY <1>0, <1>2, <1>3, <2>1, FreeSilent
<1>8. ASSUME NEW p \in Pushes, NEW heard \in {push[p].answer, NoAnswer}, Responds(p, heard)
      PROVE  AnswerOK(q)'
  <2>1. push' = [push EXCEPT ![p] = [push[p] EXCEPT !.pc = "answered", !.answer = heard]]
    BY <1>8 DEF Responds, Step
  <2>2. CASE p # q
    BY <1>0, <1>2, <2>1, <2>2
  <2>3. CASE p = q
    <3>1. push'[q].rows = push[q].rows /\ push'[q].answer = heard
      BY <1>0, <2>1, <2>3 DEF Transactions
    <3>2. CASE heard = NoAnswer
      BY <1>3, <3>1, <3>2 DEF Silent, NoAnswer
    <3>3. CASE heard = push[q].answer
      BY <1>0, <1>1, <3>1, <3>3 DEF AnswerOK
    <3> QED
      BY <2>3, <3>2, <3>3
  <2> QED
    BY <2>2, <2>3
<1>9. ASSUME NEW p \in Pushes, Serve(p)
      PROVE  AnswerOK(q)'
  <2>1. UNCHANGED syncOps /\ Work(p)
    BY <1>9 DEF Serve, Work, Duplicate, Refuse, Read, Write, InsertRefused, InsertDiary, MergeDiary,
              WriteCrew, WriteRow, Victim, Record, Decide, Step
  <2> QED
    BY <1>2, <1>4, <2>1, WorkCommitsNothing
<1> QED
  BY <1>5, <1>6, <1>7, <1>8, <1>9
     DEF Next, vars, serverVars, SendLost, DrainFails, PhoneDies, OnPhone, Respond, ResponseLost

LEMMA BrokenType ==
  ASSUME IInv, Backing, [Next]_vars
  PROVE  broken' \in [Ops -> SUBSET Status]
<1>1. broken \in [Ops -> SUBSET Status]
  BY DEF Backing
<1>2. ASSUME NEW p \in Pushes, CommitPush(p) \/ ServerFails(p)
      PROVE  broken' \in [Ops -> SUBSET Status]
  BY <1>1, <1>2 DEF CommitPush, ServerFails, Told
<1> QED
  BY <1>1, <1>2 DEF Next, vars, Send, SendLost, Serve, Respond, ResponseLost, Responds, DrainFails, PhoneDies, OnPhone

\* What the server has told of a capture is told until it is committed or broken.
LEMMA OwedKept ==
  ASSUME IInv, Backing, [Next]_vars, NEW q \in Pushes, NEW o \in Ops, q \in Tellers(push, o)
  PROVE  \/ q \in Tellers(push', o) /\ push'[q] = push[q]
         \/ CommitPush(q)
         \/ ServerFails(q)
<1>0. push \in [Pushes -> Transactions] /\ push[q].pc = "answered"
  BY DEF IInv, ServerTypeOK, Tellers
<1>1. ASSUME push'[q] = push[q] PROVE q \in Tellers(push', o)
  BY <1>1 DEF Tellers
<1>2. ASSUME NEW d \in Drains, NEW p \in Pushes, Send(d, p) PROVE push'[q] = push[q]
  BY <1>0, <1>2 DEF Send, Open, Step
<1>3. ASSUME NEW p \in Pushes, NEW heard, Responds(p, heard) PROVE push'[q] = push[q]
  BY <1>0, <1>3 DEF Responds, Step, Finished
<1>4. ASSUME NEW p \in Pushes, Serve(p) PROVE push'[q] = push[q]
  <2>1. push[p].pc # "answered" /\ Work(p)
    BY <1>4 DEF Serve, Work, Duplicate, Refuse, Read, Write, Victim, Record, Takes
  <2> QED
    BY <1>0, <2>1, WorkCommitsNothing
<1>5. ASSUME NEW p \in Pushes \ {q}, CommitPush(p) \/ ServerFails(p) PROVE push'[q] = push[q]
  BY <1>0, <1>5 DEF CommitPush, Commit, ServerFails, Abort, Step
<1>6. CASE UNCHANGED push
  BY <1>1, <1>6
<1> QED
  BY <1>1, <1>2, <1>3, <1>4, <1>5, <1>6
     DEF Next, vars, serverVars, SendLost, DrainFails, PhoneDies, OnPhone, Respond, ResponseLost

\* An outcome the server has given its word for stays one.
LEMMA WordKept ==
  ASSUME IInv, Backing, [Next]_vars, NEW o \in Ops, NEW s \in Word(o)
  PROVE  s \in Word(o)'
<1>1. s \in Status /\ s # "none" /\ broken \in [Ops -> SUBSET Status]
  BY DEF Word, Status, Backing
<1>2. IInv' /\ \A q \in Pushes : AnswerOK(q) /\ AnswerOK(q)'
  BY ServerKeeps, AnswersKept DEF Backing
<1>3. ASSUME NEW p \in Pushes, CommitPush(p), push[p].rows[o] # "none"
      PROVE  syncOps'[o] = push[p].rows[o]
  BY <1>3 DEF CommitPush, Commit
<1>4. CASE syncOps[o] = s
  BY <1>1, <1>4, OutcomeKept DEF Word
<1>5. CASE s \in broken[o]
  <2>1. ASSUME NEW p \in Pushes, CommitPush(p) PROVE s \in broken'[o] \/ syncOps'[o] = s
    BY <1>1, <1>3, <1>5, <2>1 DEF CommitPush
  <2>2. ASSUME NEW p \in Pushes, ServerFails(p) PROVE s \in broken'[o]
    BY <1>5, <2>2 DEF ServerFails
  <2>3. UNCHANGED broken => s \in broken'[o]
    BY <1>5
  <2>4. s \in broken'[o] \/ syncOps'[o] = s
    BY <2>1, <2>2, <2>3
       DEF Next, vars, Send, SendLost, Serve, Respond, ResponseLost, Responds, DrainFails, PhoneDies, OnPhone
  <2> QED
    BY <1>1, <2>4 DEF Word
<1>6. CASE Owed(o) = s
  <2>1. PICK q \in Tellers(push, o) : s = push[q].answer[o]
    BY <1>1, <1>6, OwedIs, OwedCases
  <2>2. q \in Pushes /\ push[q].rows[o] = s
    BY <1>2, <2>1, OneTeller DEF Telling, Tellers
  <2>3. CASE q \in Tellers(push', o) /\ push'[q] = push[q]
    <3>1. Owed(o)' = push'[q].answer[o]
      BY <1>2, <2>3, OneTellerNext DEF Telling
    <3> QED
      BY <1>1, <2>1, <2>3, <3>1 DEF Word
  <2>4. CASE CommitPush(q)
    BY <1>1, <1>3, <2>2, <2>4 DEF Word
  <2>5. CASE ServerFails(q)
    <3>1. Told(q, o)
      BY <2>1 DEF Told, Tellers
    <3>2. s \in broken'[o]
      BY <2>1, <2>5, <3>1 DEF ServerFails
    <3> QED
      BY <1>1, <3>2 DEF Word
  <2> QED
    BY <2>1, <2>2, <2>3, <2>4, <2>5, OwedKept
<1> QED
  BY <1>4, <1>5, <1>6 DEF Word

LEMMA ResultsKept ==
  ASSUME IInv, PhoneTypeOK, Backing, [Next]_vars, NEW e \in Drains
  PROVE  ResultOK(e)'
<1>0. ResultOK(e) /\ drain \in [Drains -> Calls]
  BY DEF Backing, PhoneTypeOK, OutboxTypeOK, Calls
<1>1. \A o \in Ops : Word(o) \subseteq Word(o)'
  BY WordKept
<1>2. ASSUME \A o \in Ops : drain'[e].results[o] \in {"none", drain[e].results[o]}
      PROVE  ResultOK(e)'
  <2>1. ASSUME NEW o \in Ops
        PROVE  /\ drain'[e].results[o] # "none" => Word(o)' # {}
               /\ drain'[e].results[o] = "rejected" => "rejected" \in Word(o)'
    BY <1>0, <1>1, <1>2 DEF ResultOK
  <2> QED
    BY <2>1 DEF ResultOK
<1>3. CASE UNCHANGED drain
  BY <1>2, <1>3
<1>4. ASSUME NEW d \in Drains, drain' = [drain EXCEPT ![d] = Idle]
      PROVE  ResultOK(e)'
  BY <1>0, <1>2, <1>4 DEF Idle
<1>5. ASSUME NEW d \in Drains, NEW pc, drain' = [drain EXCEPT ![d].pc = pc]
      PROVE  ResultOK(e)'
  BY <1>0, <1>2, <1>5 DEF Calls
<1>6. ASSUME NEW d \in Drains, NEW o \in Ops, NEW boxed,
             \/ Deals(d, o, boxed, [drain[d] EXCEPT !.pc = "marking"])
             \/ Deals(d, o, boxed, [drain[d] EXCEPT !.results[o] = "none"])
             \/ Deals(d, o, boxed, [drain[d] EXCEPT !.pc = "settling", !.results[o] = "none"])
      PROVE  ResultOK(e)'
  <2>1. \A x \in Ops : drain'[e].results[x] \in {"none", drain[e].results[x]}
    <3>1. CASE d # e
      BY <1>0, <1>6, <3>1 DEF Deals
    <3>2. CASE d = e
      <4>1. drain[d] \in Calls /\ drain[d].results \in [Ops -> Answers]
        BY <1>0 DEF Calls
      <4>2. \/ drain'[d] = [drain[d] EXCEPT !.pc = "marking"]
            \/ drain'[d] = [drain[d] EXCEPT !.results[o] = "none"]
            \/ drain'[d] = [drain[d] EXCEPT !.pc = "settling", !.results[o] = "none"]
        BY <1>0, <1>6 DEF Deals
      <4>3. drain'[d].results = drain[d].results \/ drain'[d].results = [drain[d].results EXCEPT ![o] = "none"]
        BY <4>1, <4>2 DEF Calls
      <4> QED
        BY <3>2, <4>1, <4>3
    <3> QED
      BY <3>1, <3>2
  <2> QED
    BY <1>2, <2>1
<1>7. ASSUME NEW d \in Drains, Settle(d)
      PROVE  ResultOK(e)'
  <2>1. CASE NothingToSend(d) \/ Done(d)
    BY <1>4, <2>1 DEF NothingToSend, Done
  <2>2. CASE Remove(d) \/ FindRejected(d) \/ MarkRejected(d)
    BY <1>6, <2>2, SettleStep DEF PhoneTypeOK
  <2> QED
    BY <1>7, <2>1, <2>2 DEF Settle
<1>8. ASSUME NEW p \in Pushes, Respond(p)
      PROVE  ResultOK(e)'
  <2>1. /\ push[p].answer \in [Ops -> Answers]
        /\ caller[p] \in Drains
        /\ push' = [push EXCEPT ![p] = [push[p] EXCEPT !.pc = "answered", !.answer = push[p].answer]]
    BY <1>8, AnswerType DEF Respond, Responds, Step, PhoneTypeOK
  <2>2. push'[p].pc = "answered" /\ push'[p].answer = push[p].answer
    BY <2>1 DEF IInv, ServerTypeOK, Transactions
  <2>3. IInv' /\ \A q \in Pushes : AnswerOK(q)'
    BY ServerKeeps, AnswersKept
  <2>4. ASSUME NEW o \in Ops, push[p].answer[o] \in Status
        PROVE  push[p].answer[o] \in Word(o)'
    <3>1. p \in Tellers(push', o)
      BY <2>2, <2>4 DEF Tellers
    <3>2. Owed(o)' = push'[p].answer[o]
      BY <2>3, <3>1, OneTellerNext DEF Telling
    <3> QED
      BY <2>2, <2>4, <3>2 DEF Word
  <2>5. ASSUME NEW o \in Ops, push[p].answer[o] = "duplicate"
        PROVE  Word(o)' # {}
    <3>1. syncOps[o] # "none" /\ syncOps[o] \in Outcome
      BY <2>5 DEF Backing, AnswerOK, IInv, ServerTypeOK
    <3>2. syncOps[o] \in Word(o)
      BY <3>1 DEF Word, Outcome
    <3> QED
      BY <1>1, <3>2
  <2>6. drain'[e] = drain[e] \/ drain'[e].results = push[p].answer
    BY <1>0, <1>8, <2>1 DEF Respond, Receive
  <2>7. ASSUME NEW o \in Ops
        PROVE  /\ push[p].answer[o] # "none" => Word(o)' # {}
               /\ push[p].answer[o] = "rejected" => "rejected" \in Word(o)'
    BY <2>1, <2>4, <2>5 DEF Answers, Status
  <2> QED
    BY <1>2, <2>6, <2>7 DEF ResultOK
<1>9. ASSUME NEW v \in Devices, Kill(v)
      PROVE  ResultOK(e)'
  BY <1>0, <1>2, <1>9 DEF Kill, Idle
<1> QED
  BY <1>3, <1>4, <1>5, <1>7, <1>8, <1>9
     DEF Next, vars, outboxVars, Capture, Discard, Look, Send, SendLost, Post, DrainFails, GiveUp, Serve,
         ServerFails, CommitPush, ResponseLost, PhoneDies

\* What becomes of a capture on its phone rests on the word of the server.
LEMMA BoxKept ==
  ASSUME IInv, PhoneTypeOK, Backing, [Next]_vars, NEW x \in Ops
  PROVE  Trusted(x)'
<1>0. Trusted(x) /\ box \in [Ops -> Places] /\ Word(x) \subseteq Word(x)'
  BY WordKept DEF Backing, PhoneTypeOK, OutboxTypeOK
<1>1. CASE box'[x] = box[x]
  BY <1>0, <1>1 DEF Trusted
<1>2. ASSUME NEW o \in Ops, Capture(o) \/ Discard(o)
      PROVE  box'[x] = box[x] \/ box'[x] = "pending" \/ (box[x] = "rejected" /\ box'[x] = "discarded")
  BY <1>0, <1>2 DEF Capture, Discard
<1>3. ASSUME NEW d \in Drains, Remove(d) \/ FindRejected(d) \/ MarkRejected(d)
      PROVE  \/ box'[x] = box[x]
             \/ box'[x] = "sent" /\ Word(x) # {}
             \/ box'[x] = "rejected" /\ "rejected" \in Word(x)
  <2>0. ResultOK(d) /\ OutboxTypeOK /\ Marks(d)
    BY DEF Backing, PhoneTypeOK
  <2>1. PICK o \in Ops :
           \/ /\ drain[d].results[o] # "rejected"
              /\ Deals(d, o, IF Stored(o) THEN "sent" ELSE box[o], [drain[d] EXCEPT !.results[o] = "none"])
           \/ /\ drain[d].results[o] = "rejected" /\ o = First(Answered(d))
              /\ \/ Deals(d, o, box[o], [drain[d] EXCEPT !.pc = "marking"])
                 \/ Deals(d, o, box[o], [drain[d] EXCEPT !.results[o] = "none"])
                 \/ Deals(d, o, "rejected", [drain[d] EXCEPT !.pc = "settling", !.results[o] = "none"])
    BY <1>3, <2>0, SettleStep
  <2>2. /\ o \in Answered(d)
        /\ \/ box' = [box EXCEPT ![o] = IF Stored(o) THEN "sent" ELSE box[o]]
           \/ box' = [box EXCEPT ![o] = box[o]]
           \/ box' = [box EXCEPT ![o] = "rejected"] /\ drain[d].results[o] = "rejected"
    BY <2>1 DEF Deals
  <2>3. Word(o) # {} /\ (drain[d].results[o] = "rejected" => "rejected" \in Word(o))
    BY <2>0, <2>2 DEF ResultOK, Answered
  <2> QED
    BY <1>0, <2>2, <2>3
<1>4. CASE UNCHANGED box
  BY <1>1, <1>4
<1>5. ASSUME box'[x] \in {"sent", "rejected"}, Word(x)' # {},
             box'[x] = "rejected" => "rejected" \in Word(x)'
      PROVE  Trusted(x)'
  BY <1>5 DEF Trusted
<1>6. ASSUME box[x] = "rejected", box'[x] = "discarded" PROVE Trusted(x)'
  BY <1>0, <1>6 DEF Trusted
<1>7. box'[x] = "pending" => Trusted(x)'
  BY DEF Trusted
<1>8. ASSUME NEW o \in Ops, Capture(o) \/ Discard(o)
      PROVE  Trusted(x)'
  BY <1>1, <1>2, <1>6, <1>7, <1>8
<1>9. ASSUME NEW d \in Drains, Remove(d) \/ FindRejected(d) \/ MarkRejected(d)
      PROVE  Trusted(x)'
  BY <1>0, <1>1, <1>3, <1>5, <1>9
<1> QED
  BY <1>4, <1>8, <1>9
     DEF Next, vars, outboxVars, Look, Settle, NothingToSend, Done, Send, SendLost, Post, DrainFails, GiveUp,
         Serve, ServerFails, CommitPush, Respond, Receive, ResponseLost, PhoneDies, Kill

LEMMA BackingInvariant == Spec => []Backing
<1>1. Init => Backing
  <2> SUFFICES ASSUME Init PROVE Backing
    OBVIOUS
  <2>1. ASSUME NEW p \in Pushes
        PROVE  AnswerOK(p)
    <3>1. push[p] = Free
      BY DEF Init, ServerInit
    <3> QED
      BY <3>1, FreeSilent DEF Silent, AnswerOK, Status
  <2>2. ASSUME NEW d \in Drains
        PROVE  ResultOK(d)
    BY DEF Init, OutboxInit, Idle, ResultOK
  <2>3. \A o \in Ops : Trusted(o)
    BY DEF Init, OutboxInit, Trusted
  <2>4. broken \in [Ops -> SUBSET Status]
    BY DEF Init
  <2> QED
    BY <2>1, <2>2, <2>3, <2>4 DEF Backing
<1>2. IInv /\ PhoneTypeOK /\ Backing /\ [Next]_vars => Backing'
  BY BrokenType, BoxKept, AnswersKept, ResultsKept DEF Backing
<1> QED
  BY <1>1, <1>2, ServerInvariant, PhoneInvariant, PTL DEF Spec

\* Whatever the network loses, a phone lets go of a capture only when the server
\* holds its outcome, or has told it to a phone: what is then lost is lost by the
\* server, between the response and get_db's commit.
THEOREM NoCaptureLost == Spec => []NothingLost
<1>1. IInv /\ Backing => NothingLost
  BY DEF Backing, Trusted, Word, NothingLost, Status
<1> QED
  BY <1>1, ServerInvariant, BackingInvariant, PTL

\* A refusal that is shown is the outcome of the capture, or was told as it by a
\* push still to commit or lost, although a drain may put back what another has
\* removed (markRejected()).
THEOREM RefusalsAreTrue == Spec => []RefusalIsTrue
<1>1. Backing => RefusalIsTrue
  BY DEF Backing, Trusted, Word, RefusalIsTrue
<1> QED
  BY <1>1, BackingInvariant, PTL

-----------------------------------------------------------------------------
(* Phones, pushes and retries implement CaptureLedger.                      *)

\* The captures their phone no longer holds, and what is owed on each.
Gone == {o \in Ops : box[o] \in {"sent", "discarded"}}
Promised == [o \in Ops |-> Owed(o)]
Books == <<syncOps, filed, Promised, broken, Gone>>

LEMMA OwedType == \A o \in Ops : Owed(o) \in Status \cup {"none"}
  BY OwedIs, OwedCases

LEMMA OwedTypeNext == \A o \in Ops : Owed(o)' \in Status \cup {"none"}
  BY OwedIsNext, OwedCases

LEMMA LedgerInits == Init => Ledger!LedgerInit
<1> SUFFICES ASSUME Init PROVE Ledger!LedgerInit
  OBVIOUS
<1>1. Gone = {}
  BY DEF Init, OutboxInit, Gone
<1>2. ASSUME NEW o \in Ops
      PROVE  Owed(o) = "none"
  <2>1. Tellers(push, o) = {}
    BY FreeSilent DEF Init, ServerInit, Tellers
  <2> QED
    BY <2>1, OwedIs, OwedCases
<1> QED
  BY <1>1, <1>2 DEF Init, ServerInit, Ledger!LedgerInit, Gone

\* A step of a push that has told nothing of a capture, and tells nothing, leaves
\* what is owed on it alone.
LEMMA OwedStays ==
  ASSUME NEW p \in Pushes, NEW o \in Ops,
         \A q \in Pushes \ {p} : push'[q] = push[q],
         p \notin Tellers(push, o), p \notin Tellers(push', o)
  PROVE  Owed(o)' = Owed(o)
<1>1. Tellers(push', o) = Tellers(push, o)
  BY DEF Tellers
<1>2. \A q \in Tellers(push, o) : push'[q].answer[o] = push[q].answer[o]
  BY DEF Tellers
<1> QED
  BY <1>1, <1>2, OwedIs, OwedIsNext, OwedSame

LEMMA OwedFrame == UNCHANGED push => UNCHANGED Promised
<1> SUFFICES ASSUME UNCHANGED push, NEW o \in Ops PROVE Owed(o)' = Owed(o)
  BY DEF Promised
<1> QED
  BY OwedIs, OwedIsNext

\* A response that arrives tells what the push has staged.
LEMMA RespondTells ==
  ASSUME IInv, Backing, NEW p \in Pushes, Respond(p), \A q \in Pushes : AnswerOK(q)', IInv'
  PROVE  Ledger!Tells
<1>0. push \in [Pushes -> Transactions] /\ push[p].pc = "reading"
  BY DEF IInv, ServerTypeOK, Respond, Responds, Finished
<1>1. /\ push' = [push EXCEPT ![p] = [push[p] EXCEPT !.pc = "answered", !.answer = push[p].answer]]
      /\ UNCHANGED <<syncOps, filed, broken, box>>
  BY DEF Respond, Responds, Step, Receive
<1>2. push'[p].pc = "answered" /\ push'[p].answer = push[p].answer
  BY <1>0, <1>1 DEF Transactions
<1>3. ASSUME NEW o \in Ops
      PROVE  \/ Owed(o)' = Owed(o)
             \/ Owed(o) = "none" /\ syncOps[o] = "none"
  <2>1. CASE push[p].answer[o] \notin Status
    BY <1>0, <1>1, <1>2, <2>1, OwedStays DEF Tellers
  <2>2. CASE push[p].answer[o] \in Status
    <3>1. push[p].rows[o] # "none"
      BY <2>2 DEF Backing, AnswerOK, Status
    <3>2. syncOps[o] = "none" /\ \A q \in Pushes \ {p} : push[q].rows[o] = "none"
      BY <3>1 DEF IInv, StagedOK
    <3>3. Tellers(push, o) = {}
      BY <1>0, <3>2 DEF Tellers, Backing, AnswerOK, Status
    <3> QED
      BY <3>2, <3>3, OwedIs, OwedCases
  <2> QED
    BY <2>1, <2>2
<1>4. \A o \in Ops : Owed(o)' \in Ledger!Fates \cup {"none"}
  BY OwedTypeNext DEF Status, Ledger!Fates
<1>5. UNCHANGED Gone
  BY <1>1 DEF Gone
<1> QED
  BY <1>1, <1>3, <1>4, <1>5 DEF Ledger!Tells, Gone

\* A commit decides the captures it has staged, as told and effects included.
LEMMA CommitDecides ==
  ASSUME IInv, Backing, NEW p \in Pushes, CommitPush(p), \A q \in Pushes : AnswerOK(q)', IInv'
  PROVE  Ledger!Decides
<1> DEFINE new == push[p].rows
<1>0. push \in [Pushes -> Transactions] /\ broken \in [Ops -> SUBSET Status]
  BY DEF IInv, ServerTypeOK, Backing
<1>1. push[p].pc = "answered" /\ UNCHANGED box /\ push' = [push EXCEPT ![p] = Free]
  BY DEF CommitPush, Commit, outboxVars
<1>2. /\ syncOps' = [o \in Ops |-> IF new[o] # "none" THEN new[o] ELSE syncOps[o]]
      /\ filed' = [o \in Ops |-> IF o \in push[p].adds THEN filed[o] + 1 ELSE filed[o]]
      /\ broken' = [o \in Ops |-> broken[o] \ {new[o]}]
  BY DEF CommitPush, Commit
<1>3. new \in [Ops -> Status \cup {"none"}]
  BY <1>0 DEF Transactions, Outcome
<1>4. ASSUME NEW o \in Ops
      PROVE  /\ new[o] # "none" => syncOps[o] = "none"
             /\ o \in push[p].adds <=> OpType[o] = "site_issue" /\ new[o] = "applied"
  BY <1>1 DEF IInv, StagedOK
<1>5. ASSUME NEW o \in Ops, new[o] # "none"
      PROVE  Owed(o) \in {"none", new[o]} /\ Owed(o)' = "none"
  <2>1. ASSUME NEW q \in Tellers(push, o)
        PROVE  Owed(o) = new[o]
    <3>1. q \in Pushes /\ (q # p => push[p].rows[o] = "none")
      BY <2>1, OneTeller DEF Backing, Tellers, Telling
    <3> QED
      BY <1>5, <2>1, <3>1, OneTeller DEF Backing, Telling
  <2>2. syncOps'[o] # "none"
    BY <1>2, <1>5
  <2>3. Tellers(push', o) = {}
    BY <2>2, OneTellerNext DEF Telling
  <2> QED
    BY <2>1, <2>3, OwedIs, OwedIsNext, OwedCases
<1>6. ASSUME NEW o \in Ops, new[o] = "none"
      PROVE  Owed(o)' = Owed(o) /\ broken[o] \ {new[o]} = broken[o]
  <2>1. p \notin Tellers(push, o)
    BY <1>6 DEF Backing, AnswerOK, Tellers, Status
  <2>2. p \notin Tellers(push', o)
    BY <1>0, <1>1, FreeSilent DEF Tellers
  <2> QED
    BY <1>0, <1>1, <1>6, <2>1, <2>2, OwedStays DEF Status
<1>7. UNCHANGED Gone
  BY <1>1 DEF Gone
<1> HIDE DEF new
<1>8. /\ syncOps' \in [Ops -> Ledger!Fates \cup {"none"}]
      /\ \A o \in Ops : syncOps'[o] # syncOps[o] <=> new[o] # "none"
      /\ \A o \in Ops : new[o] # "none" => syncOps'[o] = new[o] /\ syncOps[o] = "none"
  <2>1. \A o \in Ops : syncOps'[o] \in Status \cup {"none"}
    BY <1>2, <1>3 DEF IInv, ServerTypeOK, Outcome
  <2>2. \A o \in Ops : syncOps'[o] # syncOps[o] <=> new[o] # "none"
    BY <1>2, <1>4
  <2>3. Status = Ledger!Fates
    BY DEF Status, Ledger!Fates
  <2> QED
    BY <1>2, <1>4, <2>1, <2>2, <2>3
<1>9. \A o \in Ops : syncOps'[o] # syncOps[o] =>
         syncOps[o] = "none" /\ Owed(o) \in {"none", syncOps'[o]}
  BY <1>5, <1>8
<1>10. \A o \in Ops : Owed(o)' = IF syncOps'[o] # syncOps[o] THEN "none" ELSE Owed(o)
  BY <1>5, <1>6, <1>8
<1>11. filed' = [o \in Ops |-> IF syncOps'[o] # syncOps[o] /\ syncOps'[o] = "applied"
                                  /\ o \in {x \in Ops : OpType[x] = "site_issue"}
                               THEN filed[o] + 1 ELSE filed[o]]
  <2>1. \A o \in Ops : o \in push[p].adds <=>
          syncOps'[o] # syncOps[o] /\ syncOps'[o] = "applied" /\ o \in {x \in Ops : OpType[x] = "site_issue"}
    BY <1>4, <1>8
  <2> QED
    BY <1>2, <2>1
<1>12. broken' = [o \in Ops |-> IF syncOps'[o] # syncOps[o] THEN broken[o] \ {syncOps'[o]} ELSE broken[o]]
  <2>1. \A o \in Ops : broken[o] \ {new[o]} =
          IF syncOps'[o] # syncOps[o] THEN broken[o] \ {syncOps'[o]} ELSE broken[o]
    BY <1>6, <1>8
  <2> QED
    BY <1>2, <2>1
<1> QED
  BY <1>7, <1>8, <1>9, <1>10, <1>11, <1>12 DEF Ledger!Decides, Gone

\* A push that fails after its response breaks what it told.
LEMMA FailureBreaks ==
  ASSUME IInv, Backing, NEW p \in Pushes, ServerFails(p)
  PROVE  Ledger!Breaks
<1>0. push \in [Pushes -> Transactions]
  BY DEF IInv, ServerTypeOK
<1>1. /\ push' = [push EXCEPT ![p] = Free]
      /\ UNCHANGED <<syncOps, filed, box>>
      /\ broken' = [o \in Ops |-> IF Told(p, o) THEN broken[o] \cup {push[p].answer[o]} ELSE broken[o]]
  BY DEF ServerFails, Abort, Step, outboxVars
<1>2. ASSUME NEW o \in Ops
      PROVE  p \notin Tellers(push', o)
  BY <1>0, <1>1, FreeSilent DEF Tellers
<1>3. ASSUME NEW o \in Ops, Told(p, o)
      PROVE  Owed(o) = push[p].answer[o] /\ Owed(o) # "none" /\ Owed(o)' = "none"
  <2>1. p \in Tellers(push, o)
    BY <1>3 DEF Told, Tellers
  <2>2. /\ Owed(o) = push[p].answer[o] /\ push[p].answer[o] \in Status
        /\ \A q \in Pushes \ {p} : q \notin Tellers(push, o)
    BY <2>1, OneTeller DEF Backing, Telling
  <2>3. Tellers(push', o) = {}
    BY <1>0, <1>1, <1>2, <2>2 DEF Tellers
  <2> QED
    BY <2>2, <2>3, OwedIsNext, OwedCases DEF Status
<1>4. ASSUME NEW o \in Ops, ~ Told(p, o)
      PROVE  Owed(o)' = Owed(o)
  <2>1. p \notin Tellers(push, o)
    BY <1>4 DEF Told, Tellers
  <2> QED
    BY <1>0, <1>1, <1>2, <2>1, OwedStays
<1>5. \A o \in Ops : Owed(o)' \in Ledger!Fates \cup {"none"}
  BY OwedTypeNext DEF Status, Ledger!Fates
<1>6. \A o \in Ops : Owed(o)' \in {Owed(o), "none"}
  BY <1>3, <1>4
<1>7. broken' = [o \in Ops |-> IF Owed(o)' # Owed(o) THEN broken[o] \cup {Owed(o)} ELSE broken[o]]
  <2>1. \A o \in Ops : (IF Told(p, o) THEN broken[o] \cup {push[p].answer[o]} ELSE broken[o]) =
                       IF Owed(o)' # Owed(o) THEN broken[o] \cup {Owed(o)} ELSE broken[o]
    BY <1>3, <1>4
  <2> QED
    BY <1>1, <2>1
<1>8. UNCHANGED Gone
  BY <1>1 DEF Gone
<1> QED
  BY <1>1, <1>5, <1>6, <1>7, <1>8 DEF Ledger!Breaks, Gone

\* What the phones do with a capture: keep it, let it go on the server's word, or
\* take back one that was refused.
LEMMA BoxMoves ==
  ASSUME IInv, PhoneTypeOK, Backing, UNCHANGED <<syncOps, filed, push, broken>>,
         \/ \E o \in Ops : Capture(o) \/ Discard(o)
         \/ \E d \in Drains : Remove(d) \/ FindRejected(d) \/ MarkRejected(d)
  PROVE  [Ledger!LedgerNext]_Books
<1>0. box \in [Ops -> Places] /\ UNCHANGED Promised
  BY OwedFrame DEF PhoneTypeOK, OutboxTypeOK
<1>w. ASSUME NEW o \in Ops, Word(o) # {}
      PROVE  syncOps[o] # "none" \/ Promised[o] # "none" \/ broken[o] # {}
  BY <1>w DEF Word, Promised, Status
<1>r. ASSUME NEW o \in Ops, "rejected" \in Word(o)
      PROVE  syncOps[o] = "rejected" \/ Promised[o] = "rejected" \/ "rejected" \in broken[o]
  BY <1>r DEF Word, Promised
<1>1. ASSUME NEW o \in Ops, Word(o) # {}, NEW b \in {"sent", "discarded"}, box' = [box EXCEPT ![o] = b]
      PROVE  Ledger!LedgerNext
  <2>1. Gone' = Gone \cup {o}
    BY <1>0, <1>1 DEF Gone
  <2>2. Ledger!LetGo(o)
    BY <1>0, <1>1, <1>w, <2>1 DEF Ledger!LetGo, Gone, Promised
  <2> QED
    BY <2>2 DEF Ledger!LedgerNext
<1>2. ASSUME NEW o \in Ops, "rejected" \in Word(o), box' = [box EXCEPT ![o] = "rejected"]
      PROVE  Ledger!LedgerNext
  <2>1. Gone' = Gone \ {o}
    BY <1>0, <1>2 DEF Gone
  <2>2. Ledger!TakeBack(o)
    BY <1>0, <1>2, <1>r, <2>1 DEF Ledger!TakeBack, Gone, Promised
  <2> QED
    BY <2>2 DEF Ledger!LedgerNext
<1>3. ASSUME NEW o \in Ops, Capture(o)
      PROVE  UNCHANGED Gone
  BY <1>0, <1>3 DEF Capture, Gone
<1>4. ASSUME NEW o \in Ops, Discard(o)
      PROVE  Ledger!LedgerNext
  <2>1. Word(o) # {}
    BY <1>4 DEF Discard, Backing, Trusted
  <2> QED
    BY <1>1, <1>4, <2>1 DEF Discard
<1>5. ASSUME NEW d \in Drains, Remove(d) \/ FindRejected(d) \/ MarkRejected(d)
      PROVE  Ledger!LedgerNext \/ UNCHANGED box
  <2>0. ResultOK(d) /\ OutboxTypeOK /\ Marks(d)
    BY DEF Backing, PhoneTypeOK
  <2>1. PICK o \in Ops :
           \/ /\ drain[d].results[o] # "rejected"
              /\ Deals(d, o, IF Stored(o) THEN "sent" ELSE box[o], [drain[d] EXCEPT !.results[o] = "none"])
           \/ /\ drain[d].results[o] = "rejected" /\ o = First(Answered(d))
              /\ \/ Deals(d, o, box[o], [drain[d] EXCEPT !.pc = "marking"])
                 \/ Deals(d, o, box[o], [drain[d] EXCEPT !.results[o] = "none"])
                 \/ Deals(d, o, "rejected", [drain[d] EXCEPT !.pc = "settling", !.results[o] = "none"])
    BY <1>5, <2>0, SettleStep
  <2>2. /\ o \in Answered(d)
        /\ \/ box' = [box EXCEPT ![o] = "sent"]
           \/ box' = [box EXCEPT ![o] = box[o]]
           \/ box' = [box EXCEPT ![o] = "rejected"] /\ drain[d].results[o] = "rejected"
    BY <2>1 DEF Deals
  <2>3. Word(o) # {} /\ (drain[d].results[o] = "rejected" => "rejected" \in Word(o))
    BY <2>0, <2>2 DEF ResultOK, Answered
  <2>4. [box EXCEPT ![o] = box[o]] = box
    BY <1>0
  <2> QED
    BY <1>1, <1>2, <2>2, <2>3, <2>4
<1>6. UNCHANGED box => UNCHANGED Gone
  BY DEF Gone
<1>7. UNCHANGED Gone => UNCHANGED Books
  BY <1>0 DEF Books
<1> QED
  BY <1>3, <1>4, <1>5, <1>6, <1>7

LEMMA LedgerSteps ==
  ASSUME IInv, PhoneTypeOK, Backing, [Next]_vars
  PROVE  [Ledger!LedgerNext]_Books
<1>0. /\ push \in [Pushes -> Transactions]
      /\ IInv' /\ \A q \in Pushes : AnswerOK(q)'
  BY ServerKeeps, AnswersKept DEF IInv, ServerTypeOK
<1>1. ASSUME UNCHANGED <<syncOps, filed, broken, box>>, \A o \in Ops : Owed(o)' = Owed(o)
      PROVE  UNCHANGED Books
  BY <1>1 DEF Books, Promised, Gone
<1>2. ASSUME UNCHANGED <<syncOps, filed, push, broken, box>>
      PROVE  UNCHANGED Books
  BY <1>2, OwedFrame DEF Books, Gone
<1>3. ASSUME NEW p \in Pushes, UNCHANGED <<syncOps, filed, broken, box>>,
             \A q \in Pushes \ {p} : push'[q] = push[q],
             push[p].pc # "answered",
             push'[p].pc # "answered" \/ Silent(push'[p])
      PROVE  UNCHANGED Books
  <2>1. ASSUME NEW o \in Ops PROVE Owed(o)' = Owed(o)
    <3>1. p \notin Tellers(push, o) /\ p \notin Tellers(push', o)
      BY <1>3 DEF Tellers, Silent, Status
    <3> QED
      BY <1>3, <3>1, OwedStays
  <2> QED
    BY <1>1, <1>3, <2>1
<1>4. ASSUME NEW p \in Pushes, Serve(p)
      PROVE  UNCHANGED Books
  <2>1. Work(p) /\ push[p].pc # "answered" /\ UNCHANGED <<syncOps, filed, broken, box>>
    BY <1>4 DEF Serve, Work, Duplicate, Refuse, Read, Write, InsertRefused, InsertDiary, MergeDiary,
                WriteCrew, WriteRow, Victim, Record, Takes, Decide, Step, outboxVars
  <2>2. \A q \in Pushes \ {p} : push'[q] = push[q]
    BY <2>1, <1>0, WorkCommitsNothing
  <2>3. push'[p].pc # "answered" \/ Silent(push'[p])
    BY <2>1, WorkAnswers DEF Silent
  <2> QED
    BY <1>3, <2>1, <2>2, <2>3
<1>5. ASSUME NEW d \in Drains, NEW p \in Pushes, Send(d, p)
      PROVE  UNCHANGED Books
  <2>1. /\ push' = [push EXCEPT ![p] = [Free EXCEPT !.pc = "reading", !.todo = Pending(PhoneOf[d])]]
        /\ push[p].pc = "free" /\ UNCHANGED <<syncOps, filed, broken, box>>
    BY <1>5 DEF Send, Open, Step, Post
  <2>2. push'[p].pc = "reading"
    BY <1>0, <2>1 DEF Free
  <2> QED
    BY <1>0, <1>3, <2>1, <2>2
<1>6. ASSUME NEW p \in Pushes, ResponseLost(p)
      PROVE  UNCHANGED Books
  <2>1. /\ push' = [push EXCEPT ![p] = [push[p] EXCEPT !.pc = "answered", !.answer = NoAnswer]]
        /\ push[p].pc = "reading" /\ UNCHANGED <<syncOps, filed, broken, box>>
    BY <1>6 DEF ResponseLost, Responds, Finished, Step, outboxVars
  <2>2. Silent(push'[p])
    BY <1>0, <2>1 DEF Transactions, Silent, NoAnswer
  <2> QED
    BY <1>0, <1>3, <2>1, <2>2
<1>7. ASSUME NEW d \in Drains,
             \/ SendLost(d) \/ DrainFails(d)
             \/ (Look(d) \/ NothingToSend(d) \/ Done(d)) /\ OnPhone
      PROVE  UNCHANGED Books
  BY <1>2, <1>7 DEF SendLost, DrainFails, GiveUp, Post, Look, NothingToSend, Done, OnPhone, serverVars
<1>8. ASSUME NEW v \in Devices, PhoneDies(v)
      PROVE  UNCHANGED Books
  BY <1>2, <1>8 DEF PhoneDies, Kill, serverVars
<1>9. CASE /\ OnPhone
           /\ \/ \E o \in Ops : Capture(o) \/ Discard(o)
              \/ \E d \in Drains : Remove(d) \/ FindRejected(d) \/ MarkRejected(d)
  BY <1>9, BoxMoves DEF OnPhone, serverVars
<1>10. CASE UNCHANGED vars
  BY <1>2, <1>10 DEF vars
<1>11. ASSUME NEW p \in Pushes, Respond(p) \/ CommitPush(p) \/ ServerFails(p)
       PROVE  Ledger!LedgerNext
  BY <1>0, <1>11, RespondTells, CommitDecides, FailureBreaks DEF Ledger!LedgerNext
<1> QED
  BY <1>4, <1>5, <1>6, <1>7, <1>8, <1>9, <1>10, <1>11 DEF Next, Settle

\* Phones that retry, drains that overlap and a server that answers before it
\* commits and may fail in between keep the promise of CaptureLedger: each
\* capture is decided once, as it was told and with its effect, and let go of
\* only once its phone has been told.
THEOREM PhonesImplementLedger == Spec => ImplementsLedger
<1>1. IInv /\ PhoneTypeOK /\ Backing /\ [Next]_vars => [Ledger!LedgerNext]_(Ledger!ledgerVars)
  BY LedgerSteps DEF Ledger!ledgerVars, Books, Promised, Gone
<1> QED
  BY <1>1, LedgerInits, ServerInvariant, PhoneInvariant, BackingInvariant, PTL
     DEF Spec, ImplementsLedger, Ledger!LedgerSpec
=============================================================================
