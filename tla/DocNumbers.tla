----------------------------- MODULE DocNumbers -----------------------------
(***************************************************************************)
(* common/doc_numbers.py next_doc_number(), by which fifteen services name *)
(* their documents PREFIX-YEAR-NNN, and what becomes of those numbers when *)
(* drafts are deleted into the trash and restored (admin/trash.py).        *)
(*                                                                         *)
(* One prefix and year.  A request finds the last number there is, waits   *)
(* for the lock on its row, and inserts the one after it; the lock and the *)
(* new rows are its own until it commits.                                  *)
(***************************************************************************)
EXTENDS Integers, Sequences, FiniteSets

CONSTANTS
  Workers,    \* the requests under way
  Width,      \* the digits a number is padded to: 3
  Lots,       \* how many rows may share a number: issuing a tracked item
              \* writes one movement for each lot, the others write one
  Drafts,     \* the numbers that stay drafts, which can be deleted
  MaxDocs     \* bound: no request starts once there are so many documents,
              \* those in the trash included

VARIABLES
  docs,       \* the committed documents
  trash,      \* the deleted ones
  worker      \* the requests

numberVars == <<docs, trash, worker>>

ASSUME DocNumbersAssumption ==
  /\ Width \in Nat \ {0} /\ Lots \in Nat \ {0} /\ MaxDocs \in Nat
  /\ Drafts \subseteq Nat

\* A document number is its NNN and, for the rows of all lots but the first,
\* the suffix "-2", "-3"...
Doc(num, lot) == [num |-> num, lot |-> lot]
Named(num, lots) == {Doc(num, 0)} \cup {Doc(num, lot) : lot \in 2 .. lots}

Power[k \in Nat] == IF k = 0 THEN 1 ELSE 10 * Power[k - 1]

\* The characters of a number, "-" sorting before the digits.
Digits(n, width) ==
  LET len == CHOOSE k \in width .. width + n : n < Power[k] /\ (k = width \/ n >= Power[k - 1])
  IN  [i \in 1 .. len |-> (n \div Power[len - i]) % 10]
\* Mutant: no zero padding.
TextUnpadded(d) == Digits(d.num, 1) \o IF d.lot = 0 THEN <<>> ELSE <<-1>> \o Digits(d.lot, 1)
Text(d) == Digits(d.num, Width) \o IF d.lot = 0 THEN <<>> ELSE <<-1>> \o Digits(d.lot, 1)

\* The order of strings, in which the database sorts the numbers.
Before(s, t) ==
  \/ Len(s) < Len(t) /\ s = SubSeq(t, 1, Len(s))
  \/ \E i \in (1 .. Len(s)) \cap (1 .. Len(t)) : s[i] < t[i] /\ SubSeq(s, 1, i - 1) = SubSeq(t, 1, i - 1)

Latest(rows) == CHOOSE d \in rows : \A e \in rows \ {d} : Before(Text(e), Text(d))

\* Mutant: the documents are counted.
FollowingByCount(rows) == Cardinality(rows) + 1

\* The number after the last, read off the end of its string.
Following(rows) ==
  IF rows = {} THEN 1
  ELSE LET last == Latest(rows) IN (IF last.lot = 0 THEN last.num ELSE last.lot) + 1

NoRequest == [pc |-> "idle", sees |-> {}, held |-> {}, adds |-> {}, num |-> 0]

NumberInit ==
  /\ docs = {}
  /\ trash = {}
  /\ worker = [w \in Workers |-> NoRequest]

\* What the other requests hold locked or have inserted.
Taken(w) == UNION {worker[v].held \cup worker[v].adds : v \in Workers \ {w}}

-----------------------------------------------------------------------------

\* The SELECT takes its snapshot.
Find(w) ==
  /\ worker[w].pc = "idle"
  /\ Cardinality(docs \cup trash) < MaxDocs
  /\ worker' = [worker EXCEPT ![w] = [NoRequest EXCEPT !.pc = "locking", !.sees = docs]]
  /\ UNCHANGED <<docs, trash>>

\* FOR UPDATE: a row of the snapshot that has been deleted since is passed
\* over, one that is locked is waited for; later rows are not seen.
Lock(w) ==
  LET rows == worker[w].sees \cap docs
      row  == IF rows = {} THEN {} ELSE {Latest(rows)}
  IN  /\ worker[w].pc = "locking"
      /\ row \cap Taken(w) = {}
      /\ worker' = [worker EXCEPT ![w].pc = "inserting", ![w].held = row,
                                  ![w].sees = {}, ![w].num = Following(rows)]
      /\ UNCHANGED <<docs, trash>>

\* The INSERTs of the document, which wait for a request that has inserted the
\* same number; when it is there already only Fail is left.
Insert(w, lots) ==
  LET new == Named(worker[w].num, lots)
  IN  /\ worker[w].pc = "inserting"
      /\ new \cap UNION {worker[v].adds : v \in Workers \ {w}} = {}
      /\ new \cap docs = {}
      /\ worker' = [worker EXCEPT ![w].pc = "committing", ![w].adds = new]
      /\ UNCHANGED <<docs, trash>>

Commit(w) ==
  /\ worker[w].pc = "committing"
  /\ docs' = docs \cup worker[w].adds
  /\ worker' = [worker EXCEPT ![w] = NoRequest]
  /\ UNCHANGED trash

\* The request fails: of its number being taken, or of anything else.
Fail(w) ==
  /\ worker[w].pc # "idle"
  /\ worker' = [worker EXCEPT ![w] = NoRequest]
  /\ UNCHANGED <<docs, trash>>

Locked(d) == \E w \in Workers : d \in worker[w].held

\* delete_rfq(), delete_valuation(), delete_pay_run(): a draft is copied to
\* the trash and deleted.
Delete(d) ==
  /\ d.num \in Drafts
  /\ d \in docs /\ ~ Locked(d)
  /\ docs' = docs \ {d}
  /\ trash' = trash \cup {d}
  /\ UNCHANGED worker

\* restore(): refused while the number is in use.
Restore(d) ==
  /\ d \in trash
  /\ d \notin docs
  /\ \A w \in Workers : d \notin worker[w].adds
  /\ docs' = docs \cup {d}
  /\ trash' = trash \ {d}
  /\ UNCHANGED worker

Serve(w) == Find(w) \/ Lock(w) \/ (\E lots \in 1 .. Lots : Insert(w, lots)) \/ Commit(w)

NumberNext ==
  \/ \E w \in Workers : Serve(w) \/ Fail(w)
  \/ \E d \in docs : Delete(d)
  \/ \E d \in trash : Restore(d)

NumberSpec == NumberInit /\ [][NumberNext]_numberVars

-----------------------------------------------------------------------------
(* Users come back until they have their document and every request runs   *)
(* to its end; none fails for ever for reasons of its own, and nobody       *)
(* deletes and restores for ever.                                           *)

Collides(w) ==
  /\ worker[w].pc = "inserting"
  /\ Named(worker[w].num, 1) \cap docs # {}

Trouble ==
  \/ \E w \in Workers : Fail(w) /\ ~ Collides(w)
  \/ \E d \in docs : Delete(d)
  \/ \E d \in trash : Restore(d)

FairNumberSpec ==
  /\ NumberSpec
  /\ \A w \in Workers : WF_numberVars(Serve(w) \/ (Collides(w) /\ Fail(w)))
  /\ <>[][~ Trouble]_numberVars

-----------------------------------------------------------------------------

\* The number a request works out when it is alone is one that is free.
NextIsFree == Doc(Following(docs), 0) \notin docs

\* Users who keep asking get their documents.
EveryoneIsServed == <>(Cardinality(docs \cup trash) >= MaxDocs)
=============================================================================
