------------------------------- MODULE Claims --------------------------------
(***************************************************************************)
(* Expense claims (expenses/service.py) and the page that lists them       *)
(* (routes/_app/expenses/index.tsx), whose decisions are shown before the  *)
(* server has taken them (lib/api/optimistic.ts).                          *)
(*                                                                         *)
(* A decision cancels the fetch under way, keeps the list as it is, and    *)
(* changes it; when the server refuses, what was kept is put back; in the  *)
(* end the list is fetched anew.  The library (TanStack Query) cancels a   *)
(* fetch by going back to what the list was when the fetch began.          *)
(*                                                                         *)
(* The server answers before it commits (core/database.py, get_db), and    *)
(* goes on with a request whose sender has hung up: a commit may come      *)
(* after the page has fetched the list anew, or fail.                      *)
(***************************************************************************)
EXTENDS Integers, Sequences, FiniteSets

CONSTANTS
  Claims,
  Mine,       \* the claims of the user of the page
  Slots,      \* requests of the page at a time
  Others,     \* requests of anyone else at a time
  Amounts,
  MaxActs,    \* requests in all
  MaxFaults,  \* requests and commits that fail, connections that are lost, fetches given up
  None

ASSUME ClaimsAssumption ==
  /\ Mine \subseteq Claims
  /\ Slots \cap Others = {} /\ Amounts # {}
  /\ MaxActs \in Nat /\ MaxFaults \in Nat
  /\ None \notin Claims \cup Amounts

VARIABLES
  status, amount,  \* of the claims on the server; "none" before they are there
  costs,           \* the amounts of the cost entries made of each claim
  journals,        \* journals numbered so far
  request,
  list,            \* what the page shows
  kept,            \* what each request of the page would put back
  fetch,           \* the fetch of the list under way
  asked,           \* the question open on the page, before a claim is rejected or cancelled
  acts, faults,
  crossed,         \* ghost: claims decided while another request had read them
  missed,          \* ghost: what has happened since the list was last read
  mixed            \* ghost: requests of the page overlapped, or it was opened anew under one

server == <<status, amount, costs, journals, crossed>>
page   == <<list, kept, fetch, asked, mixed>>
vars   == <<server, request, page, acts, faults, missed>>

Statuses == {"none", "pending", "approved", "rejected", "cancelled"}
Decisions == {"approve", "reject", "cancel"}
List == [is : [Claims -> Statuses], saving : SUBSET Claims, placeholders : SUBSET Slots]
Request ==
  [pc : {"idle", "sent", "begun", "numbered", "answered"},
   page : {"none", "waiting", "ok", "error"},
   op : Decisions \cup {"create", "update", None},
   on : Claims \cup {None}, amount : Amounts \cup {None}, number : Nat, shown : BOOLEAN]
News == {"none", "change", "failure"}
Fetch == [pc : {"idle", "sent", "answered"}, prior : List, answer : List]

Idle == [pc |-> "idle", page |-> "none", op |-> None, on |-> None, amount |-> None, number |-> 0,
         shown |-> FALSE]
Listed(s) == [is |-> s, saving |-> {}, placeholders |-> {}]
Nothing == Listed([c \in Claims |-> "none"])
NoFetch == [pc |-> "idle", prior |-> Nothing, answer |-> Nothing]

TypeOK ==
  /\ status \in [Claims -> Statuses] /\ amount \in [Claims -> Amounts]
  /\ costs \in [Claims -> Seq(Amounts)] /\ journals \in Nat
  /\ request \in [Slots \cup Others -> Request]
  /\ list \in List /\ kept \in [Slots -> List] /\ fetch \in Fetch
  /\ asked \in {None} \cup ({"reject", "cancel"} \X Claims)
  /\ acts \in Nat /\ faults \in Nat
  /\ crossed \subseteq Claims /\ missed \in News /\ mixed \in BOOLEAN

Init ==
  /\ status \in [Claims -> {"none", "pending"}]
  /\ amount = [c \in Claims |-> CHOOSE a \in Amounts : TRUE]
  /\ costs = [c \in Claims |-> << >>]
  /\ journals = 0
  /\ request = [r \in Slots \cup Others |-> Idle]
  /\ list = Listed(status)
  /\ kept = [m \in Slots |-> Nothing]
  /\ fetch = NoFetch
  /\ asked = None
  /\ acts = 0 /\ faults = 0
  /\ crossed = {} /\ missed = "none" /\ mixed = FALSE

-----------------------------------------------------------------------------
(* The server *)

\* Requests that have read the claim and are still to write.
Reading == {"begun", "numbered", "answered"}
Readers(c) == {r \in Slots \cup Others : request[r].on = c /\ request[r].pc \in Reading}

\* The server is done with a request; the page may still have to hear of it.
Left(q) == IF q.page = "none" THEN Idle ELSE [q EXCEPT !.pc = "idle", !.amount = None, !.number = 0]

\* The same without an answer: whoever waits for one hears of a refusal or a failure.
Refused(q) == Left([q EXCEPT !.page = IF @ = "waiting" THEN "error" ELSE @])

\* Mutant: any claim may be decided.
AnyClaim(c) == TRUE

RequirePending(c) == status[c] = "pending"

\* A request reads its claim, and is refused unless the claim is pending
\* and its sender one who may decide it, which is left to the sender here.
Begin(r) ==
  LET q == request[r] IN
  /\ q.pc = "sent"
  /\ request' = [request EXCEPT ![r] =
       IF q.op = "create" \/ RequirePending(q.on)
       THEN [q EXCEPT !.pc = "begun", !.amount = IF q.op = "approve" THEN amount[q.on] ELSE @]
       ELSE Refused(q)]
  /\ UNCHANGED <<server, page, acts, faults, missed>>

\* approve_claim() has added the cost entry with the amount it read and numbers
\* the journal for it after those it can see.
Number(r) ==
  /\ request[r].pc = "begun" /\ request[r].op = "approve"
  /\ request' = [request EXCEPT ![r].pc = "numbered", ![r].number = journals + 1]
  /\ UNCHANGED <<server, page, acts, faults, missed>>

Outcome(op) ==
  CASE op = "approve" -> "approved"
    [] op = "reject"  -> "rejected"
    [] op = "cancel"  -> "cancelled"
    [] op = "create"  -> "pending"

\* The number of the journal was taken in the meantime: nothing is written.
NumberTaken(r) ==
  /\ request[r].pc = "numbered" /\ request[r].number <= journals
  /\ request' = [request EXCEPT ![r] = Refused(@)]
  /\ UNCHANGED <<server, page, acts, faults, missed>>

\* The answer leaves before the commit.  A journal waits for one of the same
\* number that is still to be committed.
Answers(r) ==
  LET q == request[r] IN
  /\ \/ q.pc = "begun" /\ q.op # "approve"
     \/ /\ q.pc = "numbered" /\ q.number > journals
        /\ \A s \in Slots \cup Others : ~(request[s].pc = "answered" /\ request[s].number = q.number)
  /\ request' = [request EXCEPT ![r].pc = "answered", ![r].page = IF @ = "waiting" THEN "ok" ELSE @]
  /\ UNCHANGED <<server, page, acts, faults, missed>>

\* The request commits.
Write(r) ==
  LET q == request[r]
      c == q.on
  IN
  /\ q.pc = "answered"
  /\ IF q.op = "update" THEN amount' = [amount EXCEPT ![c] = q.amount] /\ UNCHANGED status
     ELSE status' = [status EXCEPT ![c] = Outcome(q.op)] /\ UNCHANGED amount
  /\ IF q.op = "approve" THEN costs' = [costs EXCEPT ![c] = Append(@, q.amount)] /\ journals' = q.number
     ELSE UNCHANGED <<costs, journals>>
  /\ crossed' = IF Readers(c) = {r} THEN crossed ELSE crossed \cup {c}
  /\ request' = [request EXCEPT ![r] = Left(@)]
  /\ missed' = IF missed = "none" /\ q.page = "none" THEN "change" ELSE missed
  /\ UNCHANGED <<page, acts, faults>>

-----------------------------------------------------------------------------
(* The page *)

Busy(m) == request[m].page # "none"

\* Mutant: the list is not fetched anew.
NoRefetch(rows) == list' = rows /\ UNCHANGED fetch

\* invalidateQueries: a fetch under way is given up for a new one.
Refetch(rows) ==
  /\ list' = rows
  /\ fetch' = [pc |-> "sent", prior |-> rows, answer |-> Nothing]

\* Mutant: the fetch under way is let be.
LeftRunning == [rows |-> list, fetch |-> fetch]

\* cancelQueries: back to what the list was when the fetch under way began.
Cancelled == [rows |-> IF fetch.pc = "idle" THEN list ELSE fetch.prior, fetch |-> NoFetch]

\* addRow and patchRow.
Patched(rows, m, op, c) ==
  IF op = "create" THEN [rows EXCEPT !.placeholders = @ \cup {m}]
  ELSE IF rows.is[c] = "none" THEN rows
  ELSE [rows EXCEPT !.is[c] = Outcome(op), !.saving = @ \cup {c}]

\* onMutate, and the request goes out.
Mutate(m, op, c) ==
  LET rows == Cancelled.rows IN
  /\ request[m] = Idle
  /\ acts < MaxActs /\ acts' = acts + 1
  /\ kept' = [kept EXCEPT ![m] = rows]
  /\ list' = Patched(rows, m, op, c)
  /\ fetch' = Cancelled.fetch
  /\ request' = [request EXCEPT ![m] =
       [pc |-> "sent", page |-> "waiting", op |-> op, on |-> c, amount |-> None, number |-> 0,
        shown |-> TRUE]]
  /\ mixed' = (mixed \/ \E n \in Slots : Busy(n))
  /\ UNCHANGED <<server, faults, missed>>

\* The form of a new claim.
Submit(m, c) ==
  /\ asked = None
  /\ c \in Mine /\ status[c] = "none" /\ \A r \in Slots : request[r].on # c
  /\ Mutate(m, "create", c)
  /\ UNCHANGED asked

\* The button Approve, which is off while an approval of this page is on its way.
Approve(m, c) ==
  /\ asked = None
  /\ c \notin Mine /\ list.is[c] = "pending"
  /\ \A n \in Slots : ~(Busy(n) /\ request[n].op = "approve" /\ request[n].shown)
  /\ Mutate(m, "approve", c)
  /\ UNCHANGED asked

\* The buttons Reject and Cancel open a question.
Question(op, c) ==
  /\ asked = None
  /\ list.is[c] = "pending"
  /\ IF op = "cancel" THEN c \in Mine ELSE c \notin Mine
  /\ asked' = <<op, c>>
  /\ UNCHANGED <<server, request, list, kept, fetch, mixed, acts, faults, missed>>

Dismiss ==
  /\ asked # None /\ asked' = None
  /\ UNCHANGED <<server, request, list, kept, fetch, mixed, acts, faults, missed>>

Confirm(m) ==
  /\ asked # None
  /\ Mutate(m, asked[1], asked[2])
  /\ asked' = None

\* onError.
PutBack(m) == IF request[m].page = "error" THEN kept[m] ELSE list

\* The answer, or that there will be none: onError or onSuccess, then onSettled.
Heard(m) ==
  /\ request[m].page \in {"ok", "error"}
  /\ Refetch(PutBack(m))
  /\ request' = [request EXCEPT ![m] = IF @.pc = "idle" THEN Idle ELSE [@ EXCEPT !.page = "none"]]
  /\ kept' = [kept EXCEPT ![m] = Nothing]
  /\ mixed' = (mixed /\ \E n \in Slots \ {m} : Busy(n))
  /\ UNCHANGED <<server, asked, acts, faults, missed>>

\* list_claims() reads, and the list is replaced by what it read.
FetchRead ==
  /\ fetch.pc = "sent"
  /\ fetch' = [fetch EXCEPT !.pc = "answered", !.answer = Listed(status)]
  /\ missed' = "none"
  /\ UNCHANGED <<server, request, list, kept, asked, mixed, acts, faults>>

FetchArrives ==
  /\ fetch.pc = "answered"
  /\ list' = fetch.answer
  /\ fetch' = NoFetch
  /\ UNCHANGED <<server, request, kept, asked, mixed, acts, faults, missed>>

\* The page is left and opened anew, and its list is old enough to be fetched.
Reopen ==
  /\ fetch.pc = "idle"
  /\ Refetch(list)
  /\ asked' = None
  /\ request' = [r \in Slots \cup Others |-> [request[r] EXCEPT !.shown = FALSE]]
  /\ mixed' = \E m \in Slots : Busy(m)
  /\ UNCHANGED <<server, kept, acts, faults, missed>>

-----------------------------------------------------------------------------
(* Everyone else, and what goes wrong *)

Elsewhere(r, op, c, a) ==
  /\ request[r] = Idle
  /\ acts < MaxActs /\ acts' = acts + 1
  /\ IF op = "create" THEN c \notin Mine /\ status[c] = "none" /\ \A n \in Others : request[n].on # c
     ELSE status[c] # "none"
  /\ request' = [request EXCEPT ![r] =
       [pc |-> "sent", page |-> "none", op |-> op, on |-> c, number |-> 0, shown |-> FALSE,
        amount |-> IF op = "update" THEN a ELSE None]]
  /\ UNCHANGED <<server, page, faults, missed>>

Fault == faults < MaxFaults /\ faults' = faults + 1

\* A request fails on the server, which undoes it and says so.
RequestFails(m) ==
  /\ Fault
  /\ request[m].pc \in {"sent", "begun", "numbered"}
  /\ request' = [request EXCEPT ![m] = Refused(@)]
  /\ UNCHANGED <<server, page, acts, missed>>

\* The connection is lost with the answer, if there was one: the page goes by a
\* failure, and the server goes on.
HangUp(m) ==
  /\ Fault
  /\ request[m].page \in {"waiting", "ok"}
  /\ request' = [request EXCEPT ![m].page = "error"]
  /\ UNCHANGED <<server, page, acts, missed>>

\* A commit fails, when the answer is gone.
CommitFails(r) ==
  /\ Fault
  /\ request[r].pc = "answered"
  /\ request' = [request EXCEPT ![r] = Left(@)]
  /\ UNCHANGED <<server, page, acts, missed>>

\* A fetch fails, and so does its retry.
FetchFails ==
  /\ Fault
  /\ fetch.pc # "idle"
  /\ fetch' = NoFetch
  /\ missed' = "failure"
  /\ UNCHANGED <<server, request, list, kept, asked, mixed, acts>>

-----------------------------------------------------------------------------
Next ==
  \/ \E r \in Slots \cup Others :
       Begin(r) \/ Number(r) \/ NumberTaken(r) \/ Answers(r) \/ Write(r) \/ CommitFails(r)
  \/ \E m \in Slots :
       \/ \E c \in Claims : Submit(m, c) \/ Approve(m, c)
       \/ Confirm(m) \/ Heard(m) \/ RequestFails(m) \/ HangUp(m)
  \/ \E op \in {"reject", "cancel"}, c \in Claims : Question(op, c)
  \/ \E r \in Others, op \in Decisions \cup {"create", "update"}, c \in Claims, a \in Amounts :
       Elsewhere(r, op, c, a)
  \/ Dismiss \/ FetchRead \/ FetchArrives \/ Reopen \/ FetchFails

Spec == Init /\ [][Next]_vars

-----------------------------------------------------------------------------
(* What must hold *)

\* An approved claim has one cost, of its own amount, and no other claim has
\* any, unless a request decided or changed it while another had read it
\* (approve_claim, update_claim).
CostIsTheClaim ==
  \A c \in Claims \ crossed : costs[c] = IF status[c] = "approved" THEN <<amount[c]>> ELSE << >>

\* Once the page is at rest no guess is left on it, however many were made, taken
\* back or overtaken, and it shows the claims as they are, unless a fetch failed,
\* or something was committed since the list was last read that the page is not
\* still to hear of: by others, or by a request of its own that it has heard of
\* already (optimistic: "so the server's truth replaces the guess").
ScreenIsTruth ==
  (\A m \in Slots : ~Busy(m)) /\ fetch.pc = "idle" =>
    /\ missed # "failure" => list = Listed(list.is)
    /\ missed = "none" => list = Listed(status)

\* A decision on its way takes the buttons of its claim off the page, so that it
\* is not made twice, as long as no other request of the page is under way.
NotOfferedTwice ==
  \A m \in Slots :
    Busy(m) /\ request[m].op \in Decisions /\ ~mixed => list.is[request[m].on] # "pending"

===============================================================================
