------------------------------ MODULE Ingestion ------------------------------
(***************************************************************************)
(* The AI inbox: a page uploads documents and has a few of them read at a  *)
(* time (useUploadPump.ts), and people correct, approve or reject what was *)
(* read (ingestion/service.py, posting.py).                                *)
(*                                                                         *)
(* A request reads the status of its document when it begins and writes    *)
(* another when it is done, without a lock; to read a document takes a     *)
(* call of the model in between.  A page that has lost an answer asks      *)
(* again while the first request still runs.                               *)
(***************************************************************************)
EXTENDS Integers, Sequences

CONSTANTS
  Docs,
  MaxConcurrent,  \* documents a page has read at a time; 3 in the code
  MaxTries,       \* requests to read one document
  MaxFaults,      \* lost answers, server errors, pages left
  MaxReviews,     \* decisions of reviewers
  Reviewers,      \* requests of theirs at a time
  None

ASSUME IngestionAssumption ==
  /\ MaxConcurrent \in Nat \ {0} /\ MaxTries \in Nat \ {0}
  /\ MaxFaults \in Nat /\ MaxReviews \in Nat
  /\ None \notin Docs

VARIABLES
  status,    \* of the item on the server; "none" before it is there
  posted,    \* the records posted of it
  call,      \* the requests to read a document, and whether the page awaits them
  review,    \* the requests of the reviewers
  phase,     \* of the card of the page
  known,     \* the cards that know the item of their document
  queue,     \* of the documents that wait to be read
  inFlight,
  tries,     \* the requests to read each document so far
  reviews, faults,
  crossed    \* ghost: documents two requests had read at the same time

server == <<status, posted, crossed>>
page   == <<phase, known, queue, inFlight, tries>>
vars   == <<status, posted, call, review, phase, known, queue, inFlight, tries, reviews, faults, crossed>>

Tries == 1 .. MaxTries
Statuses == {"none", "received", "failed", "needs_info", "drafted", "posted", "rejected"}
Call == [pc : {"none", "sent", "reading", "answered", "refused"}, saw : Statuses, awaited : BOOLEAN]
Review == [op : {"approve", "reject", "redraft", None}, on : Docs \cup {None}, saw : Statuses]

NoCall == [pc |-> "none", saw |-> "none", awaited |-> FALSE]
NoReview == [op |-> None, on |-> None, saw |-> "none"]

TypeOK ==
  /\ status \in [Docs -> Statuses]
  /\ posted \in [Docs -> Nat]
  /\ call \in [Docs -> [Tries -> Call]]
  /\ review \in [Reviewers -> Review]
  /\ phase \in [Docs -> {"none", "uploading", "queued", "processing", "done", "error", "left"}]
  /\ known \subseteq Docs
  /\ queue \in Seq(Docs)
  /\ inFlight \in 0 .. MaxConcurrent
  /\ tries \in [Docs -> 0 .. MaxTries]
  /\ reviews \in Nat /\ faults \in Nat
  /\ crossed \subseteq Docs

Init ==
  /\ status = [d \in Docs |-> "none"]
  /\ posted = [d \in Docs |-> 0]
  /\ call = [d \in Docs |-> [k \in Tries |-> NoCall]]
  /\ review = [r \in Reviewers |-> NoReview]
  /\ phase = [d \in Docs |-> "none"]
  /\ known = {}
  /\ queue = << >>
  /\ inFlight = 0
  /\ tries = [d \in Docs |-> 0]
  /\ reviews = 0 /\ faults = 0
  /\ crossed = {}

-----------------------------------------------------------------------------
(* The page *)

\* pump(): as many documents of the queue as there is room for are sent.
Pump(cards, waiting, n, calls) ==
  LET k    == IF Len(waiting) < MaxConcurrent - n THEN Len(waiting) ELSE MaxConcurrent - n
      next == {waiting[i] : i \in 1 .. k}
      sent == [pc |-> "sent", saw |-> "none", awaited |-> TRUE]
  IN  /\ phase' = [d \in Docs |-> IF d \in next THEN "processing" ELSE cards[d]]
      /\ queue' = SubSeq(waiting, k + 1, Len(waiting))
      /\ inFlight' = n + k
      /\ tries' = [d \in Docs |-> IF d \in next THEN tries[d] + 1 ELSE tries[d]]
      /\ call' = [d \in Docs |-> IF d \in next THEN [calls[d] EXCEPT ![tries[d] + 1] = sent] ELSE calls[d]]

\* addFiles(): the card is there at once, and the file goes up.
AddFile(d) ==
  /\ phase[d] = "none"
  /\ phase' = [phase EXCEPT ![d] = "uploading"]
  /\ UNCHANGED <<call, review, known, queue, inFlight, tries, reviews, faults, server>>

\* The server has the file and the page is told.
Uploaded(d) ==
  /\ phase[d] = "uploading" /\ status[d] # "none"
  /\ known' = known \cup {d}
  /\ Pump([phase EXCEPT ![d] = "queued"], Append(queue, d), inFlight, call)
  /\ UNCHANGED <<review, reviews, faults, server>>

\* Mutant: the place of a document that was read is not given to another.
StillHeld(n) == n

Freed(n) == n - 1

\* The answer to a request to read a document; the next of the queue is sent.
Heard(d, k) ==
  LET c == call[d][k] IN
  /\ c.awaited /\ c.pc \in {"answered", "refused"}
  /\ Pump([phase EXCEPT ![d] = IF c.pc = "refused" \/ c.saw = "failed" THEN "error" ELSE "done"],
          queue, Freed(inFlight), [call EXCEPT ![d][k] = NoCall])
  /\ UNCHANGED <<known, review, reviews, faults, server>>

\* The button Try Again of a card whose item is known.
Retry(d) ==
  /\ phase[d] = "error" /\ d \in known
  /\ tries[d] < MaxTries
  /\ Pump([phase EXCEPT ![d] = "queued"], Append(queue, d), inFlight, call)
  /\ UNCHANGED <<known, review, reviews, faults, server>>

-----------------------------------------------------------------------------
(* The server *)

\* save_upload().
Save(d) ==
  /\ phase[d] = "uploading" /\ status[d] = "none"
  /\ status' = [status EXCEPT ![d] = "received"]
  /\ UNCHANGED <<posted, call, review, reviews, faults, crossed, page>>

\* An answer nobody awaits is gone.
Answer(c, pc, new) == IF c.awaited THEN [pc |-> pc, saw |-> new, awaited |-> TRUE] ELSE NoCall

\* Mutant: whatever was uploaded may be read.
AnyStatus(s) == TRUE

\* process_item() takes what was received or has failed.
Processable(s) == s \in {"received", "failed"}

BeginReading(d, k) ==
  /\ call[d][k].pc = "sent"
  /\ call' = [call EXCEPT ![d][k] =
       IF Processable(status[d]) THEN [pc |-> "reading", saw |-> status[d], awaited |-> @.awaited]
       ELSE Answer(@, "refused", "none")]
  /\ UNCHANGED <<review, reviews, faults, page, server>>

\* Requests that have read the document and are still to write.
Reading(d)   == {k \in Tries : call[d][k].pc = "reading"}
Reviewing(d) == {r \in Reviewers : review[r].on = d}

\* A request writes a status that is not the one it read.
Writes(d, saw, new, alone) ==
  /\ status' = IF new = saw THEN status ELSE [status EXCEPT ![d] = new]
  /\ crossed' = IF alone THEN crossed ELSE crossed \cup {d}

\* The model answers, or fails; what it read passes the gate or wants a person.
EndReading(d, k, new) ==
  /\ call[d][k].pc = "reading"
  /\ Writes(d, call[d][k].saw, new, Reading(d) = {k} /\ Reviewing(d) = {})
  /\ call' = [call EXCEPT ![d][k] = Answer(@, "answered", new)]
  /\ UNCHANGED <<posted, review, reviews, faults, page>>

\* approve_item() takes what is drafted, redraft_item() what awaits review and
\* reject_item() what is not final.
May(op, s) ==
  \/ op = "approve" /\ s = "drafted"
  \/ op = "redraft" /\ s \in {"needs_info", "drafted"}
  \/ op = "reject"  /\ s \notin {"none", "posted", "rejected"}

BeginReview(r, op, d) ==
  /\ review[r] = NoReview
  /\ May(op, status[d])
  /\ reviews < MaxReviews /\ reviews' = reviews + 1
  /\ review' = [review EXCEPT ![r] = [op |-> op, on |-> d, saw |-> status[d]]]
  /\ UNCHANGED <<call, faults, page, server>>

Outcomes(op) ==
  CASE op = "approve" -> {"posted"}
    [] op = "reject"  -> {"rejected"}
    [] op = "redraft" -> {"needs_info", "drafted"}

\* The review commits; when it is one of this page the card is told (refreshCard).
EndReview(r, new) ==
  LET d == review[r].on IN
  /\ review[r] # NoReview
  /\ new \in Outcomes(review[r].op)
  /\ Writes(d, review[r].saw, new, Reading(d) = {} /\ Reviewing(d) = {r})
  /\ posted' = IF review[r].op = "approve" THEN [posted EXCEPT ![d] = @ + 1] ELSE posted
  /\ review' = [review EXCEPT ![r] = NoReview]
  /\ \/ UNCHANGED phase
     \/ d \in known /\ phase[d] # "left" /\ phase' = [phase EXCEPT ![d] = "done"]
  /\ UNCHANGED <<call, known, queue, inFlight, tries, reviews, faults>>

-----------------------------------------------------------------------------
(* What goes wrong *)

Fault == faults < MaxFaults /\ faults' = faults + 1

\* An upload fails for the page; the server may have the file all the same.
UploadFails(d) ==
  /\ Fault
  /\ phase[d] = "uploading"
  /\ phase' = [phase EXCEPT ![d] = "error"]
  /\ \/ UNCHANGED status
     \/ status[d] = "none" /\ status' = [status EXCEPT ![d] = "received"]
  /\ UNCHANGED <<posted, call, review, known, queue, inFlight, tries, reviews, crossed>>

\* The page does not hear of a request to read that goes on.
AnswerLost(d, k) ==
  /\ Fault
  /\ call[d][k].awaited
  /\ Pump([phase EXCEPT ![d] = "error"], queue, Freed(inFlight),
          [call EXCEPT ![d][k] = IF @.pc \in {"sent", "reading"}
                                 THEN [pc |-> @.pc, saw |-> @.saw, awaited |-> FALSE] ELSE NoCall])
  /\ UNCHANGED <<known, review, reviews, server>>

\* A request to read fails on the server and changes nothing.
ReadingFails(d, k) ==
  /\ Fault
  /\ call[d][k].pc \in {"sent", "reading"}
  /\ call' = [call EXCEPT ![d][k] = Answer(@, "refused", "none")]
  /\ UNCHANGED <<review, reviews, page, server>>

\* The page is left: its cards and its queue are gone, its requests go on.
Leave ==
  /\ Fault
  /\ phase' = [d \in Docs |-> IF phase[d] = "none" THEN "none" ELSE "left"]
  /\ phase' # phase
  /\ queue' = << >> /\ inFlight' = 0
  /\ call' = [d \in Docs |-> [k \in Tries |->
       IF call[d][k].pc \in {"sent", "reading"}
       THEN [pc |-> call[d][k].pc, saw |-> call[d][k].saw, awaited |-> FALSE] ELSE NoCall]]
  /\ UNCHANGED <<review, known, tries, reviews, server>>

-----------------------------------------------------------------------------
Server(d) ==
  \/ Save(d)
  \/ \E k \in Tries :
       \/ BeginReading(d, k)
       \/ \E new \in {"failed", "needs_info", "drafted"} : EndReading(d, k, new)

Next ==
  \/ \E d \in Docs :
       \/ AddFile(d) \/ Uploaded(d) \/ Retry(d) \/ Server(d) \/ UploadFails(d)
       \/ \E k \in Tries : Heard(d, k) \/ AnswerLost(d, k) \/ ReadingFails(d, k)
       \/ \E r \in Reviewers, op \in {"approve", "reject", "redraft"} : BeginReview(r, op, d)
  \/ \E r \in Reviewers, new \in Statuses : review[r] # NoReview /\ EndReview(r, new)
  \/ Leave

Spec == Init /\ [][Next]_vars

\* Answers come: the server ends what it began and the page hears of it.
Fairness == \A d \in Docs : WF_vars(Server(d)) /\ WF_vars(Uploaded(d)) /\ WF_vars(\E k \in Tries : Heard(d, k))

FairSpec == Spec /\ Fairness

-----------------------------------------------------------------------------
(* What must hold *)

\* A document is posted once when it is posted and not otherwise, unless two
\* requests had read it at the same time: a posted one does not come back to be
\* approved again (approve_item, process_item).
PostedOnce ==
  \A d \in Docs \ crossed : posted[d] = IF status[d] = "posted" THEN 1 ELSE 0

\* Every document gets its turn: the queue moves on when one is read, refused or
\* lost (finally in pump).
EveryCardSettles ==
  \A d \in Docs : phase[d] = "queued" ~> phase[d] \in {"done", "error", "left"}

===============================================================================
