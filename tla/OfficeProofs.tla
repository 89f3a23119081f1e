---------------------------- MODULE OfficeProofs ----------------------------
(***************************************************************************)
(* Proofs about two services of the office that share nothing: expense     *)
(* claims and the page that decides them (Claims), for any number of       *)
(* claims, requests and amounts; and the dependencies between the tasks of *)
(* a project (Dependencies) with what is worked out from them (Schedule),  *)
(* for any number of tasks and requests and any dates and lags.            *)
(***************************************************************************)
EXTENDS Claims, Schedule, FiniteData, SequenceTheorems

-----------------------------------------------------------------------------
(* Expense claims: the inductive invariant *)

Senders == Slots \cup Others
Paid == Amounts \cup {None}
Asked == {None} \cup ({"reject", "cancel"} \X Claims)

Ops == Decisions \cup {"create", "update"}

Requests(new) ==
  /\ new \in [Senders -> Request]
  /\ \A r \in Senders :
       /\ new[r].pc # "idle" \/ new[r].page # "none" => new[r].on \in Claims /\ new[r].op \in Ops
       /\ new[r].page # "none" => r \in Slots

\* What the server and the requests are made of.
Shape ==
  /\ status \in [Claims -> Statuses]
  /\ amount \in [Claims -> Paid]
  /\ costs \in [Claims -> Seq(Paid)]
  /\ journals \in Nat
  /\ crossed \subseteq Claims
  /\ asked \in Asked
  /\ Requests(request)

\* A request that is to decide or change a claim read what the claim still is, as
\* long as none has written it.
Due ==
  \A r \in Senders :
    /\ request[r].pc \in Reading /\ request[r].op # "create" /\ request[r].on \notin crossed =>
         /\ status[request[r].on] = "pending"
         /\ request[r].op = "approve" => request[r].amount = amount[request[r].on]
    /\ request[r].pc = "numbered" => request[r].op = "approve"

Creating(r) == request[r].op = "create" /\ request[r].pc \in {"sent", "begun", "answered"}

\* A claim that is being made is not there yet, and is made by one request.
New ==
  /\ \A r \in Senders : Creating(r) => /\ status[request[r].on] = "none"
                                       /\ (request[r].on \in Mine) <=> (r \in Slots)
  /\ \A r, s \in Senders : Creating(r) /\ Creating(s) /\ request[r].on = request[s].on => r = s
  /\ \A c \in Claims : status[c] = "none" => c \notin crossed

IInv == Shape /\ Due /\ New /\ CostIsTheClaim

-----------------------------------------------------------------------------
(* Requests *)

\* Requests end, or change in what the server does not look at.
Calmer(new) ==
  /\ Requests(new)
  /\ \A r \in Senders : new[r].pc # "idle" =>
       /\ new[r].pc = request[r].pc /\ new[r].op = request[r].op
       /\ new[r].on = request[r].on /\ new[r].amount = request[r].amount

LEMMA Calm ==
  ASSUME IInv, Calmer(request'), asked' \in Asked, UNCHANGED server
  PROVE  IInv'
<1>1. Shape'
  BY DEF IInv, Shape, Calmer, server
<1>2. Due'
  BY DEF IInv, Due, Calmer, Reading, server
<1>3. \A r \in Senders : Creating(r)' => Creating(r) /\ request'[r].on = request[r].on
  BY DEF Calmer, Creating
<1>4. New'
  BY <1>3 DEF IInv, New, server
<1>5. CostIsTheClaim'
  BY DEF IInv, CostIsTheClaim, server
<1> QED
  BY <1>1, <1>2, <1>4, <1>5 DEF IInv

LEMMA IdleType == Idle \in Request /\ Idle.pc = "idle" /\ Idle.page = "none" /\ Idle.on \notin Claims
  BY ClaimsAssumption DEF Idle, Request

\* What becomes of a request the server is done with.
LEMMA LeftKind ==
  ASSUME NEW q \in Request
  PROVE  /\ Left(q) \in Request /\ Left(q).pc = "idle" /\ Left(q).page = q.page
         /\ q.page # "none" => Left(q).op = q.op /\ Left(q).on = q.on
<1>1. CASE q.page = "none"
  BY <1>1, IdleType DEF Left
<1>2. CASE q.page # "none"
  <2>1. Left(q) = [q EXCEPT !.pc = "idle", !.amount = None, !.number = 0]
    BY <1>2 DEF Left
  <2>2. [q EXCEPT !.pc = "idle", !.amount = None, !.number = 0] \in Request
    BY DEF Request
  <2> QED
    BY <2>1, <2>2 DEF Request
<1> QED
  BY <1>1, <1>2

LEMMA RefusedKind ==
  ASSUME NEW q \in Request
  PROVE  /\ Refused(q) \in Request /\ Refused(q).pc = "idle"
         /\ Refused(q).page # "none" <=> q.page # "none"
         /\ q.page # "none" => Refused(q).op = q.op /\ Refused(q).on = q.on
<1> DEFINE p == [q EXCEPT !.page = IF @ = "waiting" THEN "error" ELSE @]
<1>1. p \in Request /\ p.op = q.op /\ p.on = q.on /\ (p.page # "none" <=> q.page # "none")
  BY DEF Request
<1>2. Refused(q) = Left(p)
  BY DEF Refused
<1> HIDE DEF p
<1> QED
  BY <1>1, <1>2, LeftKind

\* A request that ends, or changes in what the server does not look at.
LEMMA EndCalmer ==
  ASSUME IInv, NEW r \in Senders, NEW q \in Request,
         \/ q.pc = "idle"
         \/ /\ q.pc = request[r].pc /\ q.op = request[r].op
            /\ q.on = request[r].on /\ q.amount = request[r].amount,
         q.page # "none" => request[r].page # "none" /\ q.op = request[r].op /\ q.on = request[r].on
  PROVE  Calmer([request EXCEPT ![r] = q])
<1> DEFINE new == [request EXCEPT ![r] = q]
<1>1. request \in [Senders -> Request] /\ request[r] \in Request
  BY DEF IInv, Shape, Requests
<1>2. /\ q.pc # "idle" \/ q.page # "none" => q.on \in Claims /\ q.op \in Ops
      /\ q.page # "none" => r \in Slots
  BY DEF IInv, Shape, Requests
<1>3. new \in [Senders -> Request] /\ \A s \in Senders : new[s] = IF s = r THEN q ELSE request[s]
  BY <1>1
<1>4. Requests(new)
  BY <1>2, <1>3 DEF IInv, Shape, Requests
<1> HIDE DEF new
<1>5. \A s \in Senders : new[s].pc # "idle" =>
        /\ new[s].pc = request[s].pc /\ new[s].op = request[s].op
        /\ new[s].on = request[s].on /\ new[s].amount = request[s].amount
  BY <1>3
<1>6. Calmer(new)
  BY <1>4, <1>5 DEF Calmer
<1> QED
  BY <1>6 DEF new

\* A request goes out.
LEMMA Sends ==
  ASSUME IInv, NEW r \in Senders, NEW q \in Request, request' = [request EXCEPT ![r] = q],
         q.pc = "sent", q.page # "none" => r \in Slots, q.on \in Claims, q.op \in Ops, asked' \in Asked, UNCHANGED server,
         q.op = "create" => /\ status[q.on] = "none"
                            /\ (q.on \in Mine) <=> (r \in Slots)
                            /\ \A s \in Senders : Creating(s) /\ s # r => request[s].on # q.on
  PROVE  IInv'
<1>1. Requests(request') /\ \A s \in Senders : request'[s] = IF s = r THEN q ELSE request[s]
  BY DEF IInv, Shape, Requests
<1>2. Shape'
  BY <1>1 DEF IInv, Shape, server
<1>3. Due'
  BY <1>1 DEF IInv, Due, Reading, server
<1>4. \A s \in Senders : s # r => (Creating(s)' <=> Creating(s)) /\ request'[s].on = request[s].on
  BY <1>1 DEF Creating
<1>5. request'[r] = q /\ (Creating(r)' => q.op = "create")
  BY <1>1 DEF Creating
<1>6. \A s \in Senders : Creating(s)' => /\ status[request'[s].on] = "none"
                                         /\ (request'[s].on \in Mine) <=> (s \in Slots)
  BY <1>4, <1>5 DEF IInv, New
<1>7. \A s, t \in Senders : Creating(s)' /\ Creating(t)' /\ request'[s].on = request'[t].on => s = t
  BY <1>4, <1>5 DEF IInv, New
<1>8. New'
  BY <1>6, <1>7 DEF IInv, New, server
<1>9. CostIsTheClaim'
  BY DEF IInv, CostIsTheClaim, server
<1> QED
  BY <1>2, <1>3, <1>8, <1>9 DEF IInv

-----------------------------------------------------------------------------
(* The server *)

LEMMA Start == Init => IInv
<1> SUFFICES ASSUME Init PROVE IInv
  OBVIOUS
<1>1. (CHOOSE a \in Amounts : TRUE) \in Paid
  BY ClaimsAssumption DEF Paid
<1>2. \A r \in Senders : request[r] = Idle
  BY DEF Init, Senders
<1>3. Requests(request)
  BY <1>2, IdleType DEF Init, Requests, Senders
<1>4. Shape
  <2>1. status \in [Claims -> Statuses] /\ crossed \subseteq Claims /\ journals \in Nat /\ asked \in Asked
    BY DEF Init, Statuses, Asked
  <2>2. amount \in [Claims -> Paid]
    BY <1>1 DEF Init
  <2>3. costs \in [Claims -> Seq(Paid)]
    BY DEF Init
  <2> QED
    BY <1>3, <2>1, <2>2, <2>3 DEF Shape
<1>5. Due /\ New
  BY <1>2, IdleType DEF Init, Due, New, Creating, Reading
<1>6. CostIsTheClaim
  BY DEF Init, CostIsTheClaim
<1> QED
  BY <1>4, <1>5, <1>6 DEF IInv

LEMMA BeginStep == ASSUME IInv, NEW r \in Senders, Begin(r) PROVE IInv'
<1>1. PICK q \in Request : q = request[r]
  BY DEF IInv, Shape, Requests
<1>2. /\ q.on \in Claims /\ q.op \in Ops /\ amount[q.on] \in Paid /\ q.pc = "sent"
      /\ q.page # "none" => r \in Slots
  BY <1>1 DEF IInv, Shape, Requests, Begin
<1>3. UNCHANGED <<server, asked>>
  BY DEF Begin, page
<1>4. CASE q.op = "create" \/ RequirePending(q.on)
  <2> DEFINE p == [q EXCEPT !.pc = "begun", !.amount = IF q.op = "approve" THEN amount[q.on] ELSE @]
  <2>1. request' = [request EXCEPT ![r] = p]
    BY <1>1, <1>4 DEF Begin
  <2>2. /\ p \in Request /\ p.pc = "begun" /\ p.op = q.op /\ p.on = q.on /\ p.page = q.page
        /\ q.op = "approve" => p.amount = amount[q.on]
    BY <1>2 DEF Request, Paid
  <2> HIDE DEF p
  <2>3. Requests(request') /\ \A s \in Senders : request'[s] = IF s = r THEN p ELSE request[s]
    BY <1>2, <2>1, <2>2 DEF IInv, Shape, Requests
  <2>4. Shape'
    BY <1>3, <2>3 DEF IInv, Shape, server
  <2>5. Due'
    BY <1>3, <1>4, <2>2, <2>3 DEF IInv, Due, Reading, RequirePending, server
  <2>6. \A s \in Senders : Creating(s)' => Creating(s) /\ request'[s].on = request[s].on
    BY <1>1, <1>2, <2>2, <2>3 DEF Creating
  <2>7. New' /\ CostIsTheClaim'
    BY <1>3, <2>6 DEF IInv, New, CostIsTheClaim, server
  <2> QED
    BY <2>4, <2>5, <2>7 DEF IInv
<1>5. CASE ~(q.op = "create" \/ RequirePending(q.on))
  <2>1. request' = [request EXCEPT ![r] = Refused(q)]
    BY <1>1, <1>5 DEF Begin
  <2>2. Calmer(request')
    BY <1>1, <2>1, RefusedKind, EndCalmer
  <2> QED
    BY <1>3, <2>2, Calm DEF IInv, Shape
<1> QED
  BY <1>4, <1>5

\* A request that goes on towards its commit.
LEMMA GoesOn ==
  ASSUME IInv, NEW r \in Senders, NEW q \in Request, request' = [request EXCEPT ![r] = q],
         UNCHANGED <<server, asked>>,
         request[r].pc \in Reading, q.pc \in Reading, q.pc = "numbered" => q.op = "approve",
         q.op = request[r].op, q.on = request[r].on, q.amount = request[r].amount,
         q.op = "create" => request[r].pc # "numbered",
         q.page # "none" => request[r].page # "none"
  PROVE  IInv'
<1>1. Requests(request') /\ \A s \in Senders : request'[s] = IF s = r THEN q ELSE request[s]
  BY DEF IInv, Shape, Requests, Reading
<1>2. Shape'
  BY <1>1 DEF IInv, Shape, server
<1>3. Due'
  BY <1>1 DEF IInv, Due, server
<1>4. \A s \in Senders : Creating(s)' => Creating(s) /\ request'[s].on = request[s].on
  BY <1>1 DEF Creating, Reading
<1>5. New' /\ CostIsTheClaim'
  BY <1>4 DEF IInv, New, CostIsTheClaim, server
<1> QED
  BY <1>2, <1>3, <1>5 DEF IInv

LEMMA NumberStep == ASSUME IInv, NEW r \in Senders, Number(r) PROVE IInv'
<1> DEFINE q == [request[r] EXCEPT !.pc = "numbered", !.number = journals + 1]
<1>1. request[r] \in Request /\ journals \in Nat
  BY DEF IInv, Shape, Requests, Number
<1>2. /\ q \in Request /\ q.page = request[r].page
      /\ q.pc = "numbered" /\ q.op = request[r].op /\ q.on = request[r].on /\ q.amount = request[r].amount
  <2>1. PICK n \in Nat : n = journals + 1
    BY <1>1
  <2> QED
    BY <1>1, <2>1 DEF Request
<1>3. request' = [request EXCEPT ![r] = q] /\ request[r].pc = "begun" /\ request[r].op = "approve"
  BY DEF Number
<1>4. UNCHANGED <<server, asked>>
  BY DEF Number, page
<1> HIDE DEF q
<1> QED
  BY <1>2, <1>3, <1>4, GoesOn DEF Reading

LEMMA AnswersStep == ASSUME IInv, NEW r \in Senders, Answers(r) PROVE IInv'
<1> DEFINE q == [request[r] EXCEPT !.pc = "answered", !.page = IF @ = "waiting" THEN "ok" ELSE @]
<1>1. request[r] \in Request /\ request[r].pc \in {"begun", "numbered"}
      /\ (request[r].pc = "numbered" => request[r].op = "approve")
  BY DEF IInv, Shape, Requests, Answers, Due
<1>2. /\ q \in Request /\ (q.page # "none" => request[r].page # "none")
      /\ q.pc = "answered" /\ q.op = request[r].op /\ q.on = request[r].on /\ q.amount = request[r].amount
  BY <1>1 DEF Request
<1>3. request' = [request EXCEPT ![r] = q]
  BY DEF Answers
<1>4. UNCHANGED <<server, asked>>
  BY DEF Answers, page
<1> HIDE DEF q
<1> QED
  BY <1>1, <1>2, <1>3, <1>4, GoesOn DEF Reading

\* What a request writes of the claim it had to itself.
LEMMA WriteClaim ==
  ASSUME IInv, NEW r \in Senders, Write(r), request[r].on \notin crossed'
  PROVE  /\ \A s \in Senders : request[s].on = request[r].on /\ request[s].pc \in Reading => s = r
         /\ costs'[request[r].on] = IF status'[request[r].on] = "approved" THEN <<amount'[request[r].on]>> ELSE << >>
<1> DEFINE c == request[r].on
           op == request[r].op
<1>1. c \in Claims /\ request[r].pc = "answered" /\ request[r].pc \in Reading /\ request[r] \in Request
  BY DEF Write, IInv, Shape, Requests, Reading
<1>2. Readers(c) = {r} /\ c \notin crossed
  BY DEF Write
<1>3. \A s \in Senders : request[s].on = c /\ request[s].pc \in Reading => s = r
  BY <1>2 DEF Readers, Senders
<1>4. status[c] \in {"none", "pending"} /\ (op # "create" => status[c] = "pending")
  BY <1>1, <1>2 DEF IInv, Due, New, Creating
<1>5. costs[c] = << >>
  BY <1>1, <1>2, <1>4 DEF IInv, CostIsTheClaim
<1>6. CASE op = "update"
  <2>1. status' = status /\ costs' = costs
    BY <1>6 DEF Write
  <2> QED
    BY <1>3, <1>4, <1>5, <2>1
<1>7. CASE op = "approve"
  <2>1. status' = [status EXCEPT ![c] = "approved"] /\ amount' = amount
        /\ costs' = [costs EXCEPT ![c] = Append(costs[c], request[r].amount)]
    BY <1>7 DEF Write, Outcome
  <2>2. request[r].amount = amount[c]
    BY <1>1, <1>2, <1>7 DEF IInv, Due
  <2>3. status'[c] = "approved" /\ costs'[c] = Append(<< >>, amount[c])
    BY <1>1, <1>5, <2>1, <2>2 DEF IInv, Shape
  <2>4. Append(<< >>, amount[c]) = <<amount[c]>>
    OBVIOUS
  <2> QED
    BY <1>3, <2>1, <2>3, <2>4
<1>8. CASE op \in {"reject", "cancel", "create"}
  <2>1. status' = [status EXCEPT ![c] = Outcome(op)] /\ costs' = costs
    BY <1>8 DEF Write
  <2>2. Outcome(op) # "approved"
    BY <1>8 DEF Outcome
  <2>3. status'[c] # "approved" /\ costs'[c] = << >>
    BY <1>1, <1>5, <2>1, <2>2 DEF IInv, Shape
  <2> QED
    BY <1>3, <2>3
<1>9. op \in {"update", "approve", "reject", "cancel", "create"}
  BY <1>1 DEF IInv, Shape, Requests, Ops, Decisions
<1> QED
  BY <1>6, <1>7, <1>8, <1>9

LEMMA WriteStep == ASSUME IInv, NEW r \in Senders, Write(r) PROVE IInv'
<1> DEFINE c == request[r].on
           op == request[r].op
<1>1. /\ c \in Claims /\ op \in Ops /\ request[r] \in Request
      /\ request[r].pc = "answered"
  BY DEF Write, IInv, Shape, Requests
<1>2. Calmer(request')
  <2>1. request' = [request EXCEPT ![r] = Left(request[r])]
    BY DEF Write
  <2> QED
    BY <1>1, <2>1, LeftKind, EndCalmer
<1>3. request'[r].pc = "idle"
  BY <1>1, LeftKind DEF Write, IInv, Shape, Requests
<1>4. UNCHANGED asked /\ crossed' \subseteq Claims /\ crossed \subseteq crossed'
  BY <1>1 DEF Write, page, IInv, Shape
<1>5. status[c] = "none" => op = "create"
  BY <1>1 DEF IInv, Due, New, Reading
<1>6. op = "create" => status[c] = "none"
  BY <1>1 DEF IInv, Due, New, Creating
<1>7. /\ op = "update" => status' = status /\ amount' = [amount EXCEPT ![c] = request[r].amount]
      /\ op # "update" => status' = [status EXCEPT ![c] = Outcome(op)] /\ amount' = amount
      /\ op = "approve" => /\ costs' = [costs EXCEPT ![c] = Append(@, request[r].amount)]
                           /\ journals' = request[r].number
      /\ op # "approve" => costs' = costs /\ journals' = journals
  BY DEF Write
<1>8. (Outcome(op) \in Statuses /\ Outcome(op) # "none") \/ op = "update"
  BY <1>1 DEF Outcome, Statuses, Ops, Decisions
<1>9. status' \in [Claims -> Statuses] /\ \A d \in Claims : d # c => status'[d] = status[d]
  BY <1>1, <1>7, <1>8 DEF IInv, Shape
<1>10. request[r].amount \in Paid /\ request[r].number \in Nat
  BY <1>1 DEF Request, Paid
<1>11. amount' \in [Claims -> Paid] /\ \A d \in Claims : d # c => amount'[d] = amount[d]
  BY <1>1, <1>7, <1>10 DEF IInv, Shape
<1>12. costs' \in [Claims -> Seq(Paid)] /\ \A d \in Claims : d # c => costs'[d] = costs[d]
  <2>1. CASE op = "approve"
    <3>1. Append(costs[c], request[r].amount) \in Seq(Paid)
      BY <1>1, <1>10 DEF IInv, Shape
    <3> QED
      BY <1>1, <1>7, <2>1, <3>1 DEF IInv, Shape
  <2>2. CASE op # "approve"
    BY <1>7, <2>2 DEF IInv, Shape
  <2> QED
    BY <2>1, <2>2
<1>13. Shape'
  BY <1>2, <1>4, <1>7, <1>9, <1>10, <1>11, <1>12 DEF IInv, Shape, Calmer
<1>14. status'[c] # "none"
  BY <1>1, <1>5, <1>7, <1>8 DEF IInv, Shape
<1>15. \A s \in Senders : request'[s].on = c /\ request'[s].pc \in Reading => c \in crossed'
  <2> SUFFICES ASSUME NEW s \in Senders, request'[s].on = c, request'[s].pc \in Reading,
                      c \notin crossed'
               PROVE  FALSE
    OBVIOUS
  <2>1. request[s].on = c /\ request[s].pc \in Reading /\ s # r
    BY <1>2, <1>3 DEF Calmer, Reading
  <2> QED
    BY <2>1, WriteClaim
<1>16. Due'
  BY <1>2, <1>4, <1>9, <1>11, <1>15 DEF IInv, Shape, Due, Calmer, Requests, Reading
<1>17. New'
  <2>1. \A s \in Senders : Creating(s)' => /\ Creating(s) /\ request'[s].on = request[s].on
                                           /\ request[s].on \in Claims /\ request[s].on # c
    <3> SUFFICES ASSUME NEW s \in Senders, Creating(s)'
                 PROVE  /\ Creating(s) /\ request'[s].on = request[s].on
                        /\ request[s].on \in Claims /\ request[s].on # c
      OBVIOUS
    <3>1. Creating(s) /\ request'[s].on = request[s].on /\ s # r
      BY <1>2, <1>3 DEF Calmer, Creating
    <3>2. request[s].on \in Claims /\ status[request[s].on] = "none"
      BY <3>1 DEF Creating, IInv, Shape, Requests, New
    <3>3. request[s].on = c => Creating(r)
      BY <1>1, <1>5, <3>2 DEF Creating, IInv, Due
    <3>4. request[s].on # c
      BY <3>1, <3>3 DEF IInv, New
    <3> QED
      BY <3>1, <3>2, <3>4
  <2>2. \A s \in Senders : Creating(s)' => /\ status'[request'[s].on] = "none"
                                           /\ (request'[s].on \in Mine) <=> (s \in Slots)
    BY <1>9, <2>1 DEF IInv, New
  <2>3. \A s, t \in Senders : Creating(s)' /\ Creating(t)' /\ request'[s].on = request'[t].on => s = t
    BY <2>1 DEF IInv, New
  <2>4. \A d \in Claims : status'[d] = "none" => d \notin crossed'
    BY <1>9, <1>14 DEF IInv, New, Write
  <2> QED
    BY <2>2, <2>3, <2>4 DEF New
<1>18. CostIsTheClaim'
  <2> SUFFICES ASSUME NEW d \in Claims \ crossed'
               PROVE  costs'[d] = IF status'[d] = "approved" THEN <<amount'[d]>> ELSE << >>
    BY DEF CostIsTheClaim
  <2>1. CASE d = c
    BY <2>1, WriteClaim
  <2>2. CASE d # c
    BY <1>4, <1>9, <1>11, <1>12, <2>2 DEF IInv, CostIsTheClaim
  <2> QED
    BY <2>1, <2>2
<1> QED
  BY <1>13, <1>16, <1>17, <1>18 DEF IInv

\* The server gives a request up.
LEMMA GiveUpStep ==
  ASSUME IInv, NEW r \in Senders, NumberTaken(r) \/ CommitFails(r) \/ RequestFails(r)
  PROVE  IInv'
<1>1. PICK q \in Request : q = request[r]
  BY DEF IInv, Shape, Requests
<1>2. request' = [request EXCEPT ![r] = Refused(q)] \/ request' = [request EXCEPT ![r] = Left(q)]
  BY <1>1 DEF NumberTaken, CommitFails, RequestFails
<1>3. Calmer(request')
  BY <1>1, <1>2, LeftKind, RefusedKind, EndCalmer
<1> QED
  BY <1>3, Calm DEF NumberTaken, CommitFails, RequestFails, page, IInv, Shape

-----------------------------------------------------------------------------
(* The page and everyone else *)

\* A request of the page.
LEMMA MutateStep ==
  ASSUME IInv, NEW m \in Slots, NEW op \in Ops, NEW c \in Claims, Mutate(m, op, c), asked' \in Asked,
         op = "create" => c \in Mine /\ status[c] = "none" /\ \A r \in Slots : request[r].on # c
  PROVE  IInv'
<1> DEFINE q == [pc |-> "sent", page |-> "waiting", op |-> op, on |-> c, amount |-> None, number |-> 0,
                 shown |-> TRUE]
<1>1. q \in Request
  BY DEF Request, Ops
<1>2. request' = [request EXCEPT ![m] = q] /\ UNCHANGED server
  BY DEF Mutate
<1>3. op = "create" => \A s \in Senders : Creating(s) => request[s].on # c
  BY DEF IInv, New, Senders
<1>4. m \in Senders /\ m \in Slots
  BY DEF Senders
<1> QED
  BY <1>1, <1>2, <1>3, <1>4, Sends

LEMMA PageRequestStep ==
  ASSUME IInv, NEW m \in Slots, (\E c \in Claims : Submit(m, c) \/ Approve(m, c)) \/ Confirm(m)
  PROVE  IInv'
<1>1. ASSUME NEW c \in Claims, Submit(m, c) PROVE IInv'
  BY <1>1, MutateStep DEF Submit, Ops, IInv, Shape
<1>2. ASSUME NEW c \in Claims, Approve(m, c) PROVE IInv'
  BY <1>2, MutateStep DEF Approve, Ops, Decisions, IInv, Shape
<1>3. CASE Confirm(m)
  <2>1. asked[1] \in {"reject", "cancel"} /\ asked[2] \in Claims
    BY <1>3 DEF Confirm, IInv, Shape, Asked
  <2>2. asked[1] \in Ops /\ asked[1] # "create" /\ None \in Asked
    BY <2>1 DEF Ops, Decisions, Asked
  <2> QED
    BY <1>3, <2>1, <2>2, MutateStep DEF Confirm
<1> QED
  BY <1>1, <1>2, <1>3

\* Answers, failures and what the page does by itself.
LEMMA QuietStep ==
  ASSUME IInv,
         \/ \E m \in Slots : Heard(m) \/ HangUp(m)
         \/ \E op \in {"reject", "cancel"}, c \in Claims : Question(op, c)
         \/ Dismiss \/ FetchRead \/ FetchArrives \/ Reopen \/ FetchFails
  PROVE  IInv'
<1>1. Calmer(request) /\ None \in Asked /\ asked \in Asked
  BY DEF IInv, Shape, Calmer, Asked
<1>2. ASSUME NEW m \in Slots, Heard(m) PROVE IInv'
  <2>1. PICK q \in Request : q = request[m]
    BY DEF IInv, Shape, Requests, Senders
  <2>2. CASE q.pc = "idle"
    <3>1. request' = [request EXCEPT ![m] = Idle]
      BY <1>2, <2>1, <2>2 DEF Heard
    <3>2. Calmer(request')
      BY <3>1, IdleType, EndCalmer DEF Senders
    <3> QED
      BY <1>1, <1>2, <3>2, Calm DEF Heard
  <2>3. CASE q.pc # "idle"
    <3> DEFINE p == [q EXCEPT !.page = "none"]
    <3>1. request' = [request EXCEPT ![m] = p]
      BY <1>2, <2>1, <2>3 DEF Heard
    <3>2. /\ p \in Request /\ p.page = "none"
          /\ p.pc = q.pc /\ p.op = q.op /\ p.on = q.on /\ p.amount = q.amount
      BY DEF Request
    <3> HIDE DEF p
    <3>3. Calmer(request')
      BY <2>1, <3>1, <3>2, EndCalmer DEF Senders
    <3> QED
      BY <1>1, <1>2, <3>3, Calm DEF Heard
  <2> QED
    BY <2>2, <2>3
<1>3. ASSUME NEW m \in Slots, HangUp(m) PROVE IInv'
  <2>1. PICK q \in Request : q = request[m]
    BY DEF IInv, Shape, Requests, Senders
  <2> DEFINE p == [q EXCEPT !.page = "error"]
  <2>2. request' = [request EXCEPT ![m] = p] /\ q.page # "none"
    BY <1>3, <2>1 DEF HangUp
  <2>3. /\ p \in Request
        /\ p.pc = q.pc /\ p.op = q.op /\ p.on = q.on /\ p.amount = q.amount
    BY DEF Request
  <2> HIDE DEF p
  <2>4. Calmer(request')
    BY <2>1, <2>2, <2>3, EndCalmer DEF Senders
  <2> QED
    BY <1>1, <1>3, <2>4, Calm DEF HangUp, page
<1>5. ASSUME NEW op \in {"reject", "cancel"}, NEW c \in Claims, Question(op, c) PROVE IInv'
  <2>1. <<op, c>> \in Asked
    BY DEF Asked
  <2> QED
    BY <1>1, <1>5, <2>1, Calm DEF Question
<1>6. CASE Dismiss \/ FetchRead \/ FetchArrives \/ FetchFails
  BY <1>1, <1>6, Calm DEF Dismiss, FetchRead, FetchArrives, FetchFails
<1>7. CASE Reopen
  <2>1. \A r \in Senders : request'[r] = [request[r] EXCEPT !.shown = FALSE]
    BY <1>7 DEF Reopen, Senders
  <2>2. \A r \in Senders : /\ request'[r] \in Request
                           /\ request'[r].pc = request[r].pc /\ request'[r].page = request[r].page /\ request'[r].op = request[r].op
                           /\ request'[r].on = request[r].on /\ request'[r].amount = request[r].amount
    <3> SUFFICES ASSUME NEW r \in Senders
                 PROVE  /\ request'[r] \in Request
                        /\ request'[r].pc = request[r].pc /\ request'[r].page = request[r].page /\ request'[r].op = request[r].op
                        /\ request'[r].on = request[r].on /\ request'[r].amount = request[r].amount
      OBVIOUS
    <3>1. PICK q \in Request : q = request[r]
      BY DEF IInv, Shape, Requests
    <3>2. request'[r] = [q EXCEPT !.shown = FALSE]
      BY <2>1, <3>1
    <3>3. [q EXCEPT !.shown = FALSE] \in Request
      BY DEF Request
    <3>4. \A f \in {"pc", "page", "op", "on", "amount"} : [q EXCEPT !.shown = FALSE][f] = q[f]
      BY DEF Request
    <3> QED
      BY <3>1, <3>2, <3>3, <3>4
  <2>3. request' \in [Senders -> Request]
    BY <1>7, <2>2 DEF Reopen, Senders
  <2>4. Calmer(request')
    BY <2>2, <2>3 DEF Calmer, Requests, IInv, Shape
  <2> QED
    BY <1>1, <1>7, <2>4, Calm DEF Reopen
<1> QED
  BY <1>2, <1>3, <1>5, <1>6, <1>7

LEMMA ElsewhereStep ==
  ASSUME IInv, NEW r \in Others, NEW op \in Ops, NEW c \in Claims, NEW a \in Amounts, Elsewhere(r, op, c, a)
  PROVE  IInv'
<1> DEFINE q == [pc |-> "sent", page |-> "none", op |-> op, on |-> c, number |-> 0, shown |-> FALSE,
                 amount |-> IF op = "update" THEN a ELSE None]
<1>1. q \in Request
  BY DEF Request, Ops
<1>2. request' = [request EXCEPT ![r] = q] /\ UNCHANGED server /\ UNCHANGED asked
  BY DEF Elsewhere, page
<1>3. r \in Senders /\ r \notin Slots
  BY ClaimsAssumption DEF Senders
<1>4. op = "create" => /\ status[c] = "none" /\ c \notin Mine
                       /\ \A s \in Senders : Creating(s) => request[s].on # c
  BY DEF Elsewhere, IInv, New, Senders
<1> HIDE DEF q
<1>5. q.pc = "sent" /\ q.page = "none" /\ q.op = op /\ q.on = c
  BY DEF q
<1> QED
  BY <1>1, <1>2, <1>3, <1>4, <1>5, Sends DEF IInv, Shape

LEMMA Inductive == IInv /\ [Next]_vars => IInv'
<1> SUFFICES ASSUME IInv, [Next]_vars PROVE IInv'
  OBVIOUS
<1>1. CASE UNCHANGED vars
  <2>1. Calmer(request) /\ asked \in Asked
    BY DEF IInv, Shape, Calmer
  <2> QED
    BY <1>1, <2>1, Calm DEF vars, page
<1>2. ASSUME NEW r \in Senders,
             \/ Begin(r) \/ Number(r) \/ NumberTaken(r) \/ Answers(r) \/ Write(r) \/ CommitFails(r)
             \/ RequestFails(r)
      PROVE  IInv'
  BY <1>2, BeginStep, NumberStep, AnswersStep, WriteStep, GiveUpStep
<1>3. ASSUME NEW m \in Slots, (\E c \in Claims : Submit(m, c) \/ Approve(m, c)) \/ Confirm(m) PROVE IInv'
  BY <1>3, PageRequestStep
<1>4. ASSUME NEW r \in Others, NEW op \in Ops, NEW c \in Claims, NEW a \in Amounts, Elsewhere(r, op, c, a)
      PROVE  IInv'
  BY <1>4, ElsewhereStep
<1>5. ASSUME \/ \E m \in Slots : Heard(m) \/ HangUp(m)
             \/ \E op \in {"reject", "cancel"}, c \in Claims : Question(op, c)
             \/ Dismiss \/ FetchRead \/ FetchArrives \/ Reopen \/ FetchFails
      PROVE  IInv'
  BY <1>5, QuietStep
<1> QED
  BY <1>1, <1>2, <1>3, <1>4, <1>5 DEF Next, Senders, Ops

-----------------------------------------------------------------------------
(* What the page shows *)

\* While the page is at rest the list, or the answer that is to replace it, holds
\* no guess, and is what the server has when nothing has happened since it was
\* read; while the page has one request under way no fetch is, and the claim that
\* is decided shows as decided.
Screen ==
  /\ list \in List /\ kept \in [Slots -> List] /\ fetch \in Fetch
  /\ missed \in News
  /\ (\A m \in Slots : ~Busy(m)) /\ missed # "failure" /\ fetch.pc = "idle" => list = Listed(list.is)
  /\ (\A m \in Slots : ~Busy(m)) /\ missed = "none" /\ fetch.pc = "idle" => list = Listed(status)
  /\ fetch.pc = "answered" => fetch.answer = Listed(fetch.answer.is)
  /\ (\A m \in Slots : ~Busy(m)) /\ missed = "none" /\ fetch.pc = "answered" => fetch.answer = Listed(status)
  /\ ~mixed => \A m \in Slots : Busy(m) =>
       /\ fetch.pc = "idle"
       /\ request[m].op \in Decisions => list.is[request[m].on] # "pending"
       /\ \A n \in Slots : Busy(n) => n = m

LEMMA ListedType ==
  /\ \A s \in [Claims -> Statuses] : Listed(s) \in List /\ Listed(s).is = s
  /\ Nothing \in List /\ NoFetch \in Fetch /\ NoFetch.pc = "idle"
<1>1. \A s \in [Claims -> Statuses] : Listed(s) \in List /\ Listed(s).is = s
  BY DEF Listed, List
<1>2. [c \in Claims |-> "none"] \in [Claims -> Statuses]
  BY DEF Statuses
<1>3. Nothing \in List
  BY <1>1, <1>2 DEF Nothing
<1> QED
  BY <1>1, <1>3 DEF NoFetch, Fetch

LEMMA StartScreen == Init => Screen
<1> SUFFICES ASSUME Init PROVE Screen
  OBVIOUS
<1>1. status \in [Claims -> Statuses] /\ list = Listed(status) /\ fetch = NoFetch
      /\ kept = [m \in Slots |-> Nothing]
  BY DEF Init, Statuses
<1>2. \A m \in Slots : ~Busy(m)
  BY IdleType DEF Init, Busy
<1> QED
  BY <1>1, <1>2, ListedType DEF Init, Screen, News

\* A request that goes on, or a step that is not seen on the page.
LEMMA UnseenStep ==
  ASSUME Screen, UNCHANGED <<list, kept, fetch, mixed>>,
         missed' = missed \/ (missed = "none" /\ missed' = "change"),
         status' = status \/ missed' # "none" \/ \E m \in Slots : Busy(m)',
         \A m \in Slots : /\ Busy(m)' <=> Busy(m)
                          /\ Busy(m) => request'[m].op = request[m].op /\ request'[m].on = request[m].on
  PROVE  Screen'
<1>1. (\A m \in Slots : ~Busy(m)') /\ missed' = "none" =>
        /\ fetch'.pc = "idle" => list' = Listed(status')
        /\ fetch'.pc = "answered" => fetch'.answer = Listed(status')
  BY DEF Screen, Listed
<1>2. (\A m \in Slots : ~Busy(m)') /\ missed' # "failure" /\ fetch'.pc = "idle" => list' = Listed(list'.is)
  BY DEF Screen, Listed
<1>3. ~mixed' => \A m \in Slots : Busy(m)' =>
        /\ fetch'.pc = "idle"
        /\ request'[m].op \in Decisions => list'.is[request'[m].on] # "pending"
        /\ \A n \in Slots : Busy(n)' => n = m
  BY DEF Screen
<1>4. /\ list' \in List /\ kept' \in [Slots -> List] /\ fetch' \in Fetch /\ missed' \in News
      /\ fetch'.pc = "answered" => fetch'.answer = Listed(fetch'.answer.is)
  BY DEF Screen, News, Listed
<1> QED
  BY <1>1, <1>2, <1>3, <1>4 DEF Screen, Listed

LEMMA SenderScreen ==
  ASSUME IInv, Screen, NEW r \in Senders,
         \/ Begin(r) \/ Number(r) \/ NumberTaken(r) \/ Answers(r) \/ Write(r) \/ CommitFails(r)
         \/ RequestFails(r) \/ HangUp(r)
  PROVE  Screen'
<1>1. request \in [Senders -> Request] /\ \A m \in Slots : m \in Senders
  BY DEF IInv, Shape, Requests, Senders
<1>2. PICK p \in Request : p = request[r]
  BY <1>1
<1> DEFINE Goes(q) == /\ request' = [request EXCEPT ![r] = q]
                      /\ q.page # "none" <=> p.page # "none"
                      /\ p.page # "none" => q.op = p.op /\ q.on = p.on
<1>3. \E q : Goes(q)
  <2>1. ASSUME Begin(r), p.op = "create" \/ RequirePending(p.on) PROVE \E q : Goes(q)
    <3> DEFINE q == [p EXCEPT !.pc = "begun", !.amount = IF p.op = "approve" THEN amount[p.on] ELSE @]
    <3>1. Goes(q)
      BY <1>2, <2>1 DEF Begin, Request
    <3> QED
      BY <3>1
  <2>2. ASSUME request' = [request EXCEPT ![r] = Refused(p)] PROVE \E q : Goes(q)
    <3>1. Goes(Refused(p))
      BY <1>2, <2>2, RefusedKind
    <3> QED
      BY <3>1
  <2>3. ASSUME request' = [request EXCEPT ![r] = Left(p)] PROVE \E q : Goes(q)
    <3>1. Goes(Left(p))
      BY <1>2, <2>3, LeftKind
    <3> QED
      BY <3>1
  <2>4. ASSUME Number(r) PROVE \E q : Goes(q)
    <3>1. Goes([p EXCEPT !.pc = "numbered", !.number = journals + 1])
      BY <1>2, <2>4 DEF Number, Request
    <3> QED
      BY <3>1
  <2>5. ASSUME Answers(r) PROVE \E q : Goes(q)
    <3>1. Goes([p EXCEPT !.pc = "answered", !.page = IF @ = "waiting" THEN "ok" ELSE @])
      BY <1>2, <2>5 DEF Answers, Request
    <3> QED
      BY <3>1
  <2>6. ASSUME HangUp(r) PROVE \E q : Goes(q)
    <3>1. Goes([p EXCEPT !.page = "error"])
      BY <1>2, <2>6 DEF HangUp, Request
    <3> QED
      BY <3>1
  <2>7. ASSUME Begin(r), ~(p.op = "create" \/ RequirePending(p.on))
        PROVE  request' = [request EXCEPT ![r] = Refused(p)]
    BY <1>2, <2>7 DEF Begin
  <2>8. NumberTaken(r) \/ RequestFails(r) => request' = [request EXCEPT ![r] = Refused(p)]
    BY <1>2 DEF NumberTaken, RequestFails
  <2>9. Write(r) \/ CommitFails(r) => request' = [request EXCEPT ![r] = Left(p)]
    BY <1>2 DEF Write, CommitFails
  <2> QED
    BY <2>1, <2>2, <2>3, <2>4, <2>5, <2>6, <2>7, <2>8, <2>9
<1>4. \A m \in Slots : /\ Busy(m)' <=> Busy(m)
                       /\ Busy(m) => request'[m].op = request[m].op /\ request'[m].on = request[m].on
  <2>1. PICK q : Goes(q)
    BY <1>3
  <2>2. /\ request' = [request EXCEPT ![r] = q]
        /\ q.page # "none" <=> p.page # "none"
        /\ p.page # "none" => q.op = p.op /\ q.on = p.on
    BY <2>1
  <2> QED
    BY <1>1, <1>2, <2>2 DEF Busy
<1>5. UNCHANGED <<list, kept, fetch, mixed>>
  BY DEF Begin, Number, NumberTaken, Answers, Write, CommitFails, RequestFails, HangUp, page
<1>6. CASE Write(r)
  <2>1. missed' = missed \/ (missed = "none" /\ missed' = "change")
    BY <1>6 DEF Write
  <2>2. missed' # "none" \/ \E m \in Slots : Busy(m)'
    <3>1. CASE request[r].page = "none"
      BY <1>6, <3>1 DEF Write
    <3>2. CASE request[r].page # "none"
      <4>1. r \in Slots /\ Busy(r)
        BY <3>2 DEF IInv, Shape, Requests, Busy
      <4> QED
        BY <1>4, <4>1
    <3> QED
      BY <3>1, <3>2
  <2> QED
    BY <1>4, <1>5, <2>1, <2>2, UnseenStep
<1>7. CASE ~Write(r)
  <2>1. missed' = missed /\ status' = status
    BY <1>7 DEF Begin, Number, NumberTaken, Answers, CommitFails, RequestFails, HangUp, server
  <2> QED
    BY <1>4, <1>5, <2>1, UnseenStep
<1> QED
  BY <1>6, <1>7

\* What a request of the page would show, and what it would put back.
LEMMA MutateScreen ==
  ASSUME IInv, Screen, NEW m \in Slots, NEW op \in Decisions \cup {"create"}, NEW c \in Claims,
         Mutate(m, op, c)
  PROVE  Screen'
<1> DEFINE q == [pc |-> "sent", page |-> "waiting", op |-> op, on |-> c, amount |-> None, number |-> 0,
                 shown |-> TRUE]
<1>1. PICK rows : rows = Cancelled.rows
  OBVIOUS
<1>2. rows \in List
  BY <1>1 DEF Screen, Cancelled, Fetch
<1>3. kept' \in [Slots -> List] /\ fetch' = NoFetch
  BY <1>1, <1>2 DEF Mutate, Cancelled, Screen
<1>4. list' = Patched(rows, m, op, c) /\ mixed' = (mixed \/ \E n \in Slots : Busy(n))
      /\ request' = [request EXCEPT ![m] = q]
  BY <1>1 DEF Mutate
<1>5. /\ q.page = "waiting" /\ q.op = op /\ q.on = c
      /\ m \in Senders /\ request \in [Senders -> Request] /\ \A n \in Slots : n \in Senders
  BY DEF IInv, Shape, Requests, Senders
<1> HIDE DEF q
<1>6. \A n \in Slots : request'[n] = IF n = m THEN q ELSE request[n]
  BY <1>4, <1>5
<1>7. Busy(m)' /\ \A n \in Slots \ {m} : Busy(n)' <=> Busy(n)
  BY <1>5, <1>6 DEF Busy
<1>8. list' \in List /\ (op \in Decisions => list'.is[c] # "pending")
  <2>1. CASE op = "create"
    BY <1>2, <1>4, <2>1 DEF Patched, List, Decisions
  <2>2. CASE op # "create" /\ rows.is[c] = "none"
    BY <1>2, <1>4, <2>2 DEF Patched
  <2>3. CASE op # "create" /\ rows.is[c] # "none"
    <3>1. Outcome(op) \in Statuses /\ Outcome(op) # "pending"
      BY <2>3 DEF Decisions, Outcome, Statuses
    <3>2. PICK o \in Statuses : o = Outcome(op) /\ o # "pending"
      BY <3>1
    <3>3. list' = [rows EXCEPT !.is[c] = o, !.saving = @ \cup {c}]
      BY <1>4, <2>3, <3>2 DEF Patched
    <3> QED
      BY <1>2, <3>2, <3>3 DEF List
  <2> QED
    BY <2>1, <2>2, <2>3
<1>9. ASSUME ~mixed' PROVE \A n \in Slots : Busy(n)' => n = m
  BY <1>4, <1>7, <1>9
<1>10. ~mixed' => \A n \in Slots : Busy(n)' =>
         /\ fetch'.pc = "idle"
         /\ request'[n].op \in Decisions => list'.is[request'[n].on] # "pending"
         /\ \A k \in Slots : Busy(k)' => k = n
  BY <1>3, <1>5, <1>6, <1>8, <1>9, ListedType
<1>11. fetch' \in Fetch /\ fetch'.pc = "idle" /\ ~(\A n \in Slots : ~Busy(n)') /\ missed' \in News
  BY <1>3, <1>7, ListedType DEF Mutate, Screen
<1> QED
  BY <1>3, <1>8, <1>10, <1>11 DEF Screen

LEMMA PageRequestScreen ==
  ASSUME IInv, Screen, NEW m \in Slots, (\E c \in Claims : Submit(m, c) \/ Approve(m, c)) \/ Confirm(m)
  PROVE  Screen'
<1>1. ASSUME NEW c \in Claims, Submit(m, c) \/ Approve(m, c) PROVE Screen'
  BY <1>1, MutateScreen DEF Submit, Approve, Decisions
<1>2. CASE Confirm(m)
  <2>1. asked[1] \in Decisions /\ asked[2] \in Claims
    BY <1>2 DEF Confirm, IInv, Shape, Asked, Decisions
  <2> QED
    BY <1>2, <2>1, MutateScreen DEF Confirm
<1> QED
  BY <1>1, <1>2

LEMMA HeardScreen ==
  ASSUME IInv, Screen, NEW m \in Slots, Heard(m) PROVE Screen'
<1>1. PICK rows : rows = PutBack(m)
  OBVIOUS
<1>2. rows \in List
  BY <1>1 DEF PutBack, Screen
<1>3. /\ list' = rows /\ fetch' = [pc |-> "sent", prior |-> rows, answer |-> Nothing]
      /\ request' = [request EXCEPT ![m] = IF @.pc = "idle" THEN Idle ELSE [@ EXCEPT !.page = "none"]]
      /\ kept' = [kept EXCEPT ![m] = Nothing]
      /\ mixed' = (mixed /\ \E n \in Slots \ {m} : Busy(n))
  BY <1>1 DEF Heard, Refetch
<1>4. /\ list' \in List /\ kept' \in [Slots -> List] /\ missed' \in News
      /\ fetch' \in Fetch /\ fetch'.pc = "sent"
  BY <1>2, <1>3, ListedType DEF Screen, Fetch, Heard
<1>5. Busy(m) /\ \A n \in Slots : Busy(n)' <=> n # m /\ Busy(n)
  <2>1. PICK q \in Request : q = request[m]
    BY DEF IInv, Shape, Requests, Senders
  <2>2. \E p : p.page = "none" /\ request' = [request EXCEPT ![m] = p]
    <3>1. CASE q.pc = "idle"
      BY <1>3, <2>1, <3>1, IdleType
    <3>2. CASE q.pc # "idle"
      <4> DEFINE p == [q EXCEPT !.page = "none"]
      <4>1. p.page = "none" /\ request' = [request EXCEPT ![m] = p]
        BY <1>3, <2>1, <3>2 DEF Request
      <4> HIDE DEF p
      <4> QED
        BY <4>1
    <3> QED
      BY <3>1, <3>2
  <2>3. PICK p : p.page = "none" /\ request' = [request EXCEPT ![m] = p]
    BY <2>2
  <2> QED
    BY <2>1, <2>3 DEF Heard, Busy, IInv, Shape, Requests, Senders
<1>6. ~mixed' => \A n \in Slots : ~Busy(n)'
  BY <1>3, <1>5 DEF Screen
<1> QED
  BY <1>4, <1>6 DEF Screen

\* The fetch, and the page opened anew.
LEMMA FetchScreen ==
  ASSUME IInv, Screen, FetchRead \/ FetchArrives \/ FetchFails \/ Reopen PROVE Screen'
<1>1. list \in List /\ kept \in [Slots -> List] /\ fetch \in Fetch /\ status \in [Claims -> Statuses]
  BY DEF Screen, IInv, Shape
<1>2. CASE FetchRead
  <2>1. PICK s \in List : s = Listed(status) /\ s.is = status
    BY <1>1, ListedType
  <2>2. fetch' = [fetch EXCEPT !.pc = "answered", !.answer = s] /\ UNCHANGED <<status, request, list, kept, mixed>>
        /\ fetch.pc = "sent" /\ missed' \in News
    BY <1>2, <2>1 DEF FetchRead, server, News
  <2>3. /\ fetch' \in Fetch /\ fetch'.pc = "answered" /\ fetch'.answer = Listed(status)
        /\ fetch'.answer = Listed(fetch'.answer.is)
    BY <1>1, <2>1, <2>2 DEF Fetch
  <2>4. ~mixed => \A m \in Slots : ~Busy(m)
    BY <2>2 DEF Screen
  <2> QED
    BY <1>1, <2>2, <2>3, <2>4 DEF Screen, Busy, Listed
<1>3. CASE FetchArrives
  <2>1. /\ list' = fetch.answer /\ fetch' = NoFetch /\ fetch.pc = "answered"
        /\ UNCHANGED <<status, request, kept, mixed, missed>>
    BY <1>3 DEF FetchArrives, server
  <2>2. list' \in List /\ fetch' \in Fetch /\ fetch'.pc = "idle"
    BY <1>1, <2>1, ListedType DEF Fetch
  <2>3. ~mixed => \A m \in Slots : ~Busy(m)
    BY <2>1 DEF Screen
  <2> QED
    BY <1>1, <2>1, <2>2, <2>3 DEF Screen, Busy, Listed
<1>4. CASE FetchFails
  <2>1. fetch' = NoFetch /\ missed' = "failure" /\ UNCHANGED <<status, request, list, kept, mixed>>
    BY <1>4 DEF FetchFails, server
  <2> QED
    BY <1>1, <2>1, ListedType DEF Screen, Busy, News
<1>5. CASE Reopen
  <2>1. /\ list' = list /\ fetch' = [pc |-> "sent", prior |-> list, answer |-> Nothing]
        /\ kept' = kept /\ mixed' = \E m \in Slots : Busy(m)
        /\ \A m \in Slots : request'[m] = [request[m] EXCEPT !.shown = FALSE]
    BY <1>5 DEF Reopen, Refetch
  <2>2. fetch' \in Fetch /\ fetch'.pc = "sent" /\ missed' \in News
    BY <1>1, <1>5, <2>1, ListedType DEF Fetch, Reopen, Screen
  <2>3. \A m \in Slots : request'[m].page = request[m].page
    <3>1. \A m \in Slots : request[m] \in Request
      BY DEF IInv, Shape, Requests, Senders
    <3> QED
      BY <2>1, <3>1 DEF Request
  <2>4. ~mixed' => \A m \in Slots : ~Busy(m)'
    BY <2>1, <2>3 DEF Busy
  <2> QED
    BY <1>1, <2>1, <2>2, <2>4 DEF Screen
<1> QED
  BY <1>2, <1>3, <1>4, <1>5

LEMMA OtherScreen ==
  ASSUME IInv, Screen,
         \/ \E r \in Others, op \in Ops, c \in Claims, a \in Amounts : Elsewhere(r, op, c, a)
         \/ \E op \in {"reject", "cancel"}, c \in Claims : Question(op, c)
         \/ Dismiss \/ UNCHANGED vars
  PROVE  Screen'
<1>1. UNCHANGED <<status, list, kept, fetch, mixed, missed>>
  BY DEF Elsewhere, Question, Dismiss, vars, server, page
<1>2. request \in [Senders -> Request] /\ \A m \in Slots : m \in Senders /\ m \notin Others
  BY ClaimsAssumption DEF IInv, Shape, Requests, Senders
<1> DEFINE Same == \A m \in Slots :
             /\ Busy(m)' <=> Busy(m)
             /\ Busy(m) => request'[m].op = request[m].op /\ request'[m].on = request[m].on
<1>3. Same
  <2>1. ASSUME NEW r \in Others, NEW q, request' = [request EXCEPT ![r] = q] PROVE Same
    BY <1>2, <2>1 DEF Busy
  <2>2. ASSUME request' = request PROVE Same
    BY <2>2 DEF Busy
  <2> QED
    BY <2>1, <2>2 DEF Elsewhere, Question, Dismiss, vars
<1> QED
  BY <1>1, <1>3, UnseenStep

LEMMA ScreenStep == IInv /\ Screen /\ [Next]_vars => Screen'
<1> SUFFICES ASSUME IInv, Screen, [Next]_vars PROVE Screen'
  OBVIOUS
<1>1. ASSUME NEW r \in Senders,
             \/ Begin(r) \/ Number(r) \/ NumberTaken(r) \/ Answers(r) \/ Write(r) \/ CommitFails(r)
             \/ RequestFails(r) \/ HangUp(r)
      PROVE  Screen'
  BY <1>1, SenderScreen
<1>2. ASSUME NEW m \in Slots, (\E c \in Claims : Submit(m, c) \/ Approve(m, c)) \/ Confirm(m) PROVE Screen'
  BY <1>2, PageRequestScreen
<1>3. ASSUME NEW m \in Slots, Heard(m) PROVE Screen'
  BY <1>3, HeardScreen
<1>4. CASE FetchRead \/ FetchArrives \/ FetchFails \/ Reopen
  BY <1>4, FetchScreen
<1>5. ASSUME \/ \E r \in Others, op \in Ops, c \in Claims, a \in Amounts : Elsewhere(r, op, c, a)
             \/ \E op \in {"reject", "cancel"}, c \in Claims : Question(op, c)
             \/ Dismiss \/ UNCHANGED vars
      PROVE  Screen'
  BY <1>5, OtherScreen
<1> QED
  BY <1>1, <1>2, <1>3, <1>4, <1>5 DEF Next, Senders, Ops

-----------------------------------------------------------------------------
(* Theorems *)

\* An approved claim has one cost, of its own amount, and no other claim has any,
\* unless a request decided or changed it while another had read it
\* (approve_claim, update_claim).
THEOREM ClaimIsPaidOnce == Spec => []CostIsTheClaim
<1>1. IInv => CostIsTheClaim
  BY DEF IInv
<1> QED
  BY <1>1, Start, Inductive, PTL DEF Spec

THEOREM ScreenInvariance == Spec => []Screen
<1>1. Spec => []IInv
  BY Start, Inductive, PTL DEF Spec
<1> QED
  BY <1>1, StartScreen, ScreenStep, PTL DEF Spec

\* Once the page is at rest no guess is left on it, however many were made, taken
\* back or overtaken, and it shows the claims as they are, unless a fetch failed,
\* or something was committed since the list was last read that the page is not
\* still to hear of: by others, or by a request of its own whose answer came before
\* its commit (optimistic.ts, database.py).
THEOREM RestingScreenIsTruth == Spec => []ScreenIsTruth
<1>1. Screen => ScreenIsTruth
  BY DEF Screen, ScreenIsTruth
<1> QED
  BY <1>1, ScreenInvariance, PTL

\* A decision on its way takes the buttons of its claim off the page (optimistic.ts).
THEOREM DecisionIsNotOfferedTwice == Spec => []NotOfferedTwice
<1>1. Screen => NotOfferedTwice
  BY DEF Screen, NotOfferedTwice
<1> QED
  BY <1>1, ScreenInvariance, PTL

-----------------------------------------------------------------------------
(* The dependencies between tasks. *)

\* No dependency in hand would close a cycle, as long as none was added that
\* another request had not seen.
Sound ==
  /\ TaskTypeOK
  /\ overtaken \/ (/\ Acyclic(Tasks)
                   /\ \A r \in Additions : \A p \in Pair :
                        addition[r] = p => ~WouldCreateCycle(p[1], p[2]))

\* With fewer dependencies a cycle is no nearer.
LEMMA FewerLinks ==
  ASSUME TaskTypeOK, DOMAIN links' \subseteq DOMAIN links
  PROVE  /\ Acyclic(Tasks) => Acyclic(Tasks)'
         /\ \A p \in Pair : WouldCreateCycle(p[1], p[2])' => WouldCreateCycle(p[1], p[2])
<1>1. ASSUME Acyclic(Tasks)
      PROVE  Acyclic(Tasks)'
  BY <1>1 DEF Acyclic
<1>2. ASSUME NEW start, NEW t \in Visited(start)'
      PROVE  t \in Visited(start)
  <2>1. ASSUME NEW some \in SUBSET Tasks, start \in some, Closed(some)
        PROVE  t \in some
    <3>1. Closed(some)'
      BY <2>1 DEF Closed
    <3> QED
      BY <1>2, <2>1, <3>1 DEF Visited
  <2> QED
    BY <1>2, <2>1 DEF Visited
<1> QED
  BY <1>1, <1>2 DEF WouldCreateCycle

\* The argument of add_dependency(): where the predecessor cannot be reached from
\* the successor, the tasks that can be reached are left out of any cycle through
\* the new dependency, and without it there was none.
LEMMA OneMoreLink ==
  ASSUME TaskTypeOK, NEW pred \in Tasks, NEW succ \in Tasks,
         Acyclic(Tasks), ~WouldCreateCycle(pred, succ),
         DOMAIN links' \subseteq DOMAIN links \cup {<<pred, succ>>}
  PROVE  Acyclic(Tasks)'
<1>1. PICK reached \in SUBSET Tasks : succ \in reached /\ Closed(reached) /\ pred \notin reached
  BY DEF WouldCreateCycle, Visited
<1>2. ASSUME NEW some \in (SUBSET Tasks) \ {{}}
      PROVE  \E t \in some : \A p \in DOMAIN links' : p[2] = t => p[1] \notin some
  <2>1. CASE pred \in some
    <3>1. PICK t \in some \ reached : \A p \in DOMAIN links : p[2] = t => p[1] \notin some \ reached
      BY <1>1, <2>1 DEF Acyclic
    <3>2. ASSUME NEW p \in DOMAIN links', p[2] = t
          PROVE  p[1] \notin some
      <4>1. p \in DOMAIN links
        BY <1>1, <3>1, <3>2
      <4>2. p[1] \in reached => p[2] \in reached
        BY <1>1, <4>1 DEF Closed
      <4> QED
        BY <3>1, <3>2, <4>1, <4>2
    <3> QED
      BY <3>1, <3>2
  <2>2. CASE pred \notin some
    <3>1. PICK t \in some : \A p \in DOMAIN links : p[2] = t => p[1] \notin some
      BY DEF Acyclic
    <3>2. \A p \in DOMAIN links' : p[2] = t => p[1] \notin some
      BY <2>2, <3>1
    <3> QED
      BY <3>1, <3>2
  <2> QED
    BY <2>1, <2>2
<1> QED
  BY <1>2 DEF Acyclic

\* A step that adds no dependency leaves what was found sound.
LEMMA FewerSound ==
  ASSUME Sound, TaskTypeOK', DOMAIN links' \subseteq DOMAIN links, UNCHANGED overtaken,
         \A r \in Additions : addition'[r] \in {addition[r], NoPair}
  PROVE  Sound'
<1>1. TaskTypeOK
  BY DEF Sound
<1>2. ASSUME ~overtaken, NEW r \in Additions, NEW p \in Pair, addition'[r] = p
      PROVE  ~WouldCreateCycle(p[1], p[2])'
  <2>1. addition[r] = p
    BY <1>2, DependenciesAssumption DEF Pair
  <2>2. ~WouldCreateCycle(p[1], p[2])
    BY <1>2, <2>1 DEF Sound
  <2> QED
    BY <1>1, <2>2, FewerLinks
<1>3. ~overtaken => Acyclic(Tasks)'
  BY <1>1, FewerLinks DEF Sound
<1> QED
  BY <1>2, <1>3 DEF Sound

LEMMA CheckSound ==
  ASSUME Sound, NEW r \in Additions, NEW p \in Pair, CheckDependency(r, p[1], p[2])
  PROVE  Sound'
<1>1. UNCHANGED <<planned, links, overtaken>> /\ TaskTypeOK /\ ~WouldCreateCycle(p[1], p[2])
  BY DEF Sound, CheckDependency
<1>2. addition' = [addition EXCEPT ![r] = <<p[1], p[2]>>] /\ <<p[1], p[2]>> = p
  BY DEF CheckDependency, Pair
<1>3. TaskTypeOK'
  BY <1>1, <1>2 DEF TaskTypeOK
<1>4. ASSUME NEW x, NEW y
      PROVE  WouldCreateCycle(x, y)' = WouldCreateCycle(x, y)
  BY <1>1 DEF WouldCreateCycle, Visited, Closed
<1>5. Acyclic(Tasks)' = Acyclic(Tasks)
  BY <1>1 DEF Acyclic
<1>6. ASSUME ~overtaken, NEW n \in Additions, NEW q \in Pair, addition'[n] = q
      PROVE  ~WouldCreateCycle(q[1], q[2])'
  <2>1. ~WouldCreateCycle(q[1], q[2])
    BY <1>1, <1>2, <1>6 DEF Sound, TaskTypeOK
  <2> QED
    BY <1>4, <2>1
<1>7. ~overtaken => Acyclic(Tasks)'
  BY <1>5 DEF Sound
<1> QED
  BY <1>1, <1>3, <1>6, <1>7 DEF Sound

LEMMA AddSound ==
  ASSUME Sound, NEW r \in Additions, NEW kind \in Kinds, AddDependency(r, kind)
  PROVE  Sound'
<1>1. PICK p \in Pair : p = addition[r]
  BY DEF Sound, TaskTypeOK, AddDependency
<1>2. /\ TaskTypeOK
      /\ addition' = [addition EXCEPT ![r] = NoPair]
      /\ UNCHANGED planned
      /\ \A n \in Additions : addition'[n] \in {addition[n], NoPair}
  BY DEF Sound, AddDependency, TaskTypeOK
<1>3. CASE {p[1], p[2]} \subseteq Here /\ p \notin DOMAIN links
  <2>1. /\ links' = [q \in DOMAIN links \cup {p} |-> IF q = p THEN kind ELSE links[q]]
        /\ overtaken' = (overtaken \/ \E n \in Additions \ {r} : addition[n] # NoPair)
    BY <1>1, <1>3 DEF AddDependency
  <2>2. /\ DOMAIN links' = DOMAIN links \cup {p}
        /\ \A q \in DOMAIN links' : links'[q] = IF q = p THEN kind ELSE links[q]
    BY <2>1, <1>3
  <2>3. TaskTypeOK'
    BY <1>1, <1>2, <2>1, <2>2 DEF TaskTypeOK
  <2>4. ASSUME ~overtaken'
        PROVE  Acyclic(Tasks)' /\ \A n \in Additions : addition'[n] = NoPair
    <3>1. ~overtaken /\ \A n \in Additions : n # r => addition[n] = NoPair
      BY <2>1, <2>4 DEF Sound, TaskTypeOK
    <3>2. Acyclic(Tasks) /\ ~WouldCreateCycle(p[1], p[2])
      BY <1>1, <3>1 DEF Sound, AddDependency
    <3>3. p[1] \in Tasks /\ p[2] \in Tasks /\ p = <<p[1], p[2]>>
      BY DEF Pair
    <3> QED
      BY <1>2, <2>2, <3>1, <3>2, <3>3, OneMoreLink DEF TaskTypeOK
  <2> QED
    BY <2>3, <2>4, DependenciesAssumption DEF Sound, Pair
<1>4. CASE ~({p[1], p[2]} \subseteq Here /\ p \notin DOMAIN links)
  <2>1. UNCHANGED <<links, overtaken>>
    BY <1>1, <1>4 DEF AddDependency
  <2>2. TaskTypeOK'
    BY <1>2, <2>1 DEF TaskTypeOK
  <2> QED
    BY <1>2, <2>1, <2>2, FewerSound
<1> QED
  BY <1>3, <1>4

LEMMA SoundStart == TaskInit => Sound
<1> SUFFICES ASSUME TaskInit PROVE Sound
  OBVIOUS
<1>1. links = << >> /\ DOMAIN links = {}
  BY DEF TaskInit
<1> QED
  BY <1>1, DependenciesAssumption DEF TaskInit, Sound, TaskTypeOK, Acyclic, Pair

LEMMA SoundNext == Sound /\ [TaskNext]_taskVars => Sound'
<1> SUFFICES ASSUME Sound, [TaskNext]_taskVars PROVE Sound'
  OBVIOUS
<1>0. TaskTypeOK
  BY DEF Sound
<1>1. CASE UNCHANGED taskVars
  <2>1. TaskTypeOK'
    BY <1>0, <1>1 DEF taskVars, TaskTypeOK
  <2> QED
    BY <1>1, <2>1, FewerSound DEF taskVars
<1>2. ASSUME NEW t \in Tasks, DeleteTask(t)
      PROVE  Sound'
  <2>1. /\ DOMAIN links' \subseteq DOMAIN links
        /\ \A p \in DOMAIN links' : links'[p] = links[p]
    BY <1>2 DEF DeleteTask
  <2>2. TaskTypeOK'
    BY <1>0, <1>2, <2>1 DEF DeleteTask, TaskTypeOK
  <2> QED
    BY <1>2, <2>1, <2>2, FewerSound DEF DeleteTask
<1>3. ASSUME NEW t \in Tasks, NEW dates \in Spans \cup {Undated}, Plan(t, dates)
      PROVE  Sound'
  <2>1. TaskTypeOK'
    BY <1>0, <1>3 DEF Plan, TaskTypeOK
  <2> QED
    BY <1>3, <2>1, FewerSound DEF Plan
<1>4. ASSUME NEW p \in DOMAIN links, RemoveDependency(p)
      PROVE  Sound'
  <2>1. /\ DOMAIN links' \subseteq DOMAIN links
        /\ \A q \in DOMAIN links' : links'[q] = links[q]
    BY <1>4 DEF RemoveDependency
  <2>2. TaskTypeOK'
    BY <1>0, <1>4, <2>1 DEF RemoveDependency, TaskTypeOK
  <2> QED
    BY <1>4, <2>1, <2>2, FewerSound DEF RemoveDependency
<1> QED
  BY <1>1, <1>2, <1>3, <1>4, CheckSound, AddSound DEF TaskNext

\* The dependencies of a project never close a cycle, whatever tasks and
\* dependencies are added and removed, unless two were added at a time, each
\* checked against a graph without the other (add_dependency).
THEOREM NoCycleAlone == TaskSpec => []AcyclicUnlessOvertaken
<1>1. Sound => AcyclicUnlessOvertaken
  BY DEF Sound, AcyclicUnlessOvertaken
<1> QED
  BY <1>1, SoundStart, SoundNext, PTL DEF TaskSpec

-----------------------------------------------------------------------------
(* Greatest and least numbers, and sets as sequences *)

\* A finite set of integers has a greatest and a least.
LEMMA Extremes ==
  ASSUME NEW S \in SUBSET Int, IsFiniteSet(S), S # {}
  PROVE  /\ \E x \in S : \A y \in S : x >= y
         /\ \E x \in S : \A y \in S : x <= y
<1> DEFINE good == {s \in SUBSET S : /\ \E x \in s : \A y \in s : x >= y
                                     /\ \E x \in s : \A y \in s : x <= y}
           bad  == {s \in SUBSET S : s # {} /\ s \notin good}
<1> SUFFICES ASSUME bad # {} PROVE FALSE
  OBVIOUS
<1>1. PICK s \in bad : \A t \in (SUBSET s) \ {s} : t \notin bad
  <2>1. bad \in SUBSET (SUBSET S)
    OBVIOUS
  <2> HIDE DEF bad
  <2> QED
    BY <2>1, LeastSubset
<1>2. PICK x \in s : TRUE
  BY <1>1
<1>3. CASE s = {x}
  BY <1>1, <1>3
<1>4. CASE s # {x}
  <2>1. s \ {x} \in (SUBSET s) \ {s} /\ s \ {x} # {} /\ s \ {x} \in SUBSET S
    BY <1>1, <1>2, <1>4
  <2>2. s \ {x} \in good
    BY <1>1, <2>1
  <2>3. PICK hi \in s \ {x} : \A y \in s \ {x} : hi >= y
    BY <2>2
  <2>4. PICK lo \in s \ {x} : \A y \in s \ {x} : lo <= y
    BY <2>2
  <2>5. x \in Int /\ hi \in Int /\ lo \in Int /\ s \subseteq Int
    BY <1>1, <1>2
  <2>6. \E z \in s : \A y \in s : z >= y
    <3>1. CASE x >= hi
      BY <2>3, <2>5, <3>1
    <3>2. CASE ~ (x >= hi)
      BY <2>3, <2>5, <3>2
    <3> QED
      BY <3>1, <3>2
  <2>7. \E z \in s : \A y \in s : z <= y
    <3>1. CASE x <= lo
      BY <2>4, <2>5, <3>1
    <3>2. CASE ~ (x <= lo)
      BY <2>4, <2>5, <3>2
    <3> QED
      BY <3>1, <3>2
  <2> QED
    BY <1>1, <2>6, <2>7
<1> QED
  BY <1>3, <1>4

LEMMA MaxIs ==
  ASSUME NEW S \in SUBSET Int, IsFiniteSet(S), S # {}
  PROVE  Max(S) \in S /\ Max(S) \in Int /\ \A y \in S : y <= Max(S)
<1>1. PICK x \in S : \A y \in S : x >= y
  BY Extremes
<1>2. Max(S) \in S /\ \A y \in S : Max(S) >= y
  BY <1>1 DEF Max
<1> QED
  BY <1>2

LEMMA MinIs ==
  ASSUME NEW S \in SUBSET Int, IsFiniteSet(S), S # {}
  PROVE  Min(S) \in S /\ Min(S) \in Int /\ \A y \in S : Min(S) <= y
<1>1. PICK x \in S : \A y \in S : x <= y
  BY Extremes
<1>2. Min(S) \in S /\ \A y \in S : Min(S) <= y
  BY <1>1 DEF Min
<1> QED
  BY <1>2

\* The sequence of a set has each of its elements once.
LEMMA SequenceOfSet ==
  ASSUME NEW S, IsFiniteSet(S)
  PROVE  /\ SetToSeq(S) \in Seq(S)
         /\ Len(SetToSeq(S)) = Cardinality(S) /\ Cardinality(S) \in Nat
         /\ \A x \in S : \E i \in 1 .. Cardinality(S) : SetToSeq(S)[i] = x
         /\ \A i, j \in 1 .. Cardinality(S) : SetToSeq(S)[i] = SetToSeq(S)[j] => i = j
<1> DEFINE n == Cardinality(S)
<1>1. n \in Nat /\ ExistsBijection(1 .. n, S)
  BY FS_CardinalityType
<1>2. PICK f : f \in Bijection(1 .. n, S)
  BY <1>1 DEF ExistsBijection
<1>3. f \in [1 .. n -> S] /\ IsInjective(f)
  BY <1>2 DEF Bijection, Injection
<1>4. SetToSeq(S) \in [1 .. n -> S] /\ IsInjective(SetToSeq(S))
  BY <1>3 DEF SetToSeq
<1> DEFINE s == SetToSeq(S)
<1> HIDE DEF s
<1>5. s \in [1 .. n -> S] /\ IsInjective(s)
  BY <1>4 DEF s
<1>6. s \in Injection(1 .. n, S) /\ IsFiniteSet(S) /\ Cardinality(1 .. n) = n
  BY <1>1, <1>5, FS_Interval DEF Injection
<1>7. s \in Surjection(1 .. n, S)
  BY <1>6, FS_Injection
<1>8. s \in Seq(S) /\ Len(s) = n
  BY <1>1, <1>5
<1> QED
  BY <1>1, <1>5, <1>7, <1>8 DEF Surjection, IsInjective, s

-----------------------------------------------------------------------------
(* The search for a cycle *)

LEMMA LinksAreFinite ==
  ASSUME TaskTypeOK, NEW some \in SUBSET (DOMAIN links)
  PROVE  IsFiniteSet(some) /\ Cardinality(some) \in Nat /\ some \subseteq Pair
<1>1. IsFiniteSet(Tasks) /\ DOMAIN links \subseteq Pair
  BY DependenciesAssumption DEF TaskTypeOK
<1>2. IsFiniteSet(Pair)
  BY <1>1, FS_Product DEF Pair
<1>3. IsFiniteSet(some)
  BY <1>1, <1>2, FS_Subset
<1> QED
  BY <1>1, <1>3, FS_CardinalityType

On(stack) == {stack[i] : i \in 1 .. Len(stack)}

NextTo(t) == {q[2] : q \in {p \in DOMAIN links : p[1] = t}}

Unvisited(visited) == {p \in DOMAIN links : p[1] \notin visited}

\* What the search may be after n turns.
SearchOK(start, target, n) ==
  {search \in [stack : Seq(Tasks), visited : SUBSET Tasks] :
     /\ start \in search.visited \cup On(search.stack)
     /\ search.visited \cup On(search.stack) \subseteq Visited(start)
     /\ target \notin search.visited
     /\ \A p \in DOMAIN links : p[1] \in search.visited => p[2] \in search.visited \cup On(search.stack)
     /\ \/ search.stack = << >>
        \/ Last(search.stack) = target
        \/ Len(search.stack) + Cardinality(Unvisited(search.visited)) + n <= 1 + Cardinality(DOMAIN links)}

\* The successors of a task, each once.
LEMMA NextOf ==
  ASSUME TaskTypeOK, NEW t \in Tasks
  PROVE  /\ IsFiniteSet(NextTo(t)) /\ NextTo(t) \subseteq Tasks
         /\ Cardinality(NextTo(t)) = Cardinality({p \in DOMAIN links : p[1] = t})
<1> DEFINE out == {p \in DOMAIN links : p[1] = t}
           f == [p \in out |-> p[2]]
<1>1. IsFiniteSet(out) /\ out \subseteq Pair
  BY LinksAreFinite
<1>2. f \in Bijection(out, NextTo(t))
  <2>1. f \in [out -> NextTo(t)]
    BY DEF NextTo
  <2>2. \A x \in NextTo(t) : \E p \in out : f[p] = x
    BY DEF NextTo
  <2>3. \A p, q \in out : f[p] = f[q] => p = q
    BY <1>1 DEF Pair
  <2> QED
    BY <2>1, <2>2, <2>3 DEF Bijection, Injection, Surjection, IsInjective
<1>3. ExistsBijection(out, NextTo(t))
  BY <1>2 DEF ExistsBijection
<1>4. NextTo(t) \subseteq Tasks
  BY <1>1 DEF NextTo, Pair
<1> HIDE DEF out
<1>5. IsFiniteSet(NextTo(t)) /\ Cardinality(NextTo(t)) = Cardinality(out)
  BY <1>1, <1>3, FS_Bijection
<1> QED
  BY <1>4, <1>5 DEF out

\* The tasks that can be reached from a task go on to their successors.
LEMMA VisitedIsClosed ==
  ASSUME TaskTypeOK, NEW start \in Tasks
  PROVE  start \in Visited(start) /\ Closed(Visited(start))
<1>1. \A p \in DOMAIN links : p[1] \in Tasks /\ p[2] \in Tasks
  BY DEF TaskTypeOK, Pair
<1> QED
  BY <1>1 DEF Visited, Closed

\* A stack without its top.
LEMMA TopOf ==
  ASSUME NEW S, NEW stack \in Seq(S), stack # << >>
  PROVE  /\ Last(stack) \in S /\ Front(stack) \in Seq(S)
         /\ Len(Front(stack)) = Len(stack) - 1 /\ Len(stack) \in Nat \ {0}
         /\ On(stack) = On(Front(stack)) \cup {Last(stack)}
<1>1. Len(stack) \in Nat \ {0} /\ \A i \in 1 .. Len(stack) : stack[i] \in S
  BY EmptySeq, ElementOfSeq
<1>2. /\ Front(stack) \in Seq(S)
      /\ Len(Front(stack)) = Len(stack) - 1
      /\ \A i \in 1 .. Len(stack) - 1 : Front(stack)[i] = stack[i]
  <2>1. \A i \in 1 .. Len(stack) - 1 : stack[i] \in S
    BY <1>1
  <2>2. /\ SubSeq(stack, 1, Len(stack) - 1) \in Seq(S)
        /\ Len(SubSeq(stack, 1, Len(stack) - 1)) = IF 1 <= Len(stack) - 1 THEN Len(stack) - 1 - 1 + 1 ELSE 0
        /\ \A i \in 1 .. Len(stack) - 1 - 1 + 1 : SubSeq(stack, 1, Len(stack) - 1)[i] = stack[1 + i - 1]
    BY <1>1, <2>1, SubSeqProperties
  <2>3. (IF 1 <= Len(stack) - 1 THEN Len(stack) - 1 - 1 + 1 ELSE 0) = Len(stack) - 1
    <3>1. \A k \in Nat \ {0} : (IF 1 <= k - 1 THEN k - 1 - 1 + 1 ELSE 0) = k - 1
      OBVIOUS
    <3> QED
      BY <1>1, <3>1
  <2>4. \A i \in 1 .. Len(stack) - 1 : i \in 1 .. Len(stack) - 1 - 1 + 1 /\ 1 + i - 1 = i
    BY <1>1
  <2> HIDE DEF Front
  <2> QED
    BY <2>2, <2>3, <2>4 DEF Front
<1>3. On(stack) = On(Front(stack)) \cup {Last(stack)}
  <2>1. \A x \in On(stack) : x \in On(Front(stack)) \cup {Last(stack)}
    <3> SUFFICES ASSUME NEW i \in 1 .. Len(stack) PROVE stack[i] \in On(Front(stack)) \cup {Last(stack)}
      BY DEF On
    <3>1. CASE i = Len(stack)
      BY <3>1 DEF Last
    <3>2. CASE i # Len(stack)
      <4>1. i \in 1 .. Len(stack) - 1
        BY <1>1, <3>2
      <4> QED
        BY <1>2, <4>1 DEF On
    <3> QED
      BY <3>1, <3>2
  <2>2. \A x \in On(Front(stack)) \cup {Last(stack)} : x \in On(stack)
    <3>1. Last(stack) \in On(stack)
      BY <1>1 DEF Last, On
    <3>2. ASSUME NEW i \in 1 .. Len(Front(stack))
          PROVE  Front(stack)[i] \in On(stack)
      <4>1. i \in 1 .. Len(stack) - 1 /\ i \in 1 .. Len(stack)
        BY <1>1, <1>2
      <4> QED
        BY <1>2, <4>1 DEF On
    <3> QED
      BY <3>1, <3>2 DEF On
  <2> QED
    BY <2>1, <2>2
<1> QED
  BY <1>1, <1>2, <1>3 DEF Last

LEMMA OnBoth ==
  ASSUME NEW S, NEW s \in Seq(S), NEW t \in Seq(S)
  PROVE  On(s \o t) = On(s) \cup On(t)
<1>1. /\ Len(s) \in Nat /\ Len(t) \in Nat /\ Len(s \o t) = Len(s) + Len(t)
      /\ \A i \in 1 .. Len(s) + Len(t) : (s \o t)[i] = IF i <= Len(s) THEN s[i] ELSE t[i - Len(s)]
  BY ConcatProperties, LenProperties
<1>2. ASSUME NEW i \in 1 .. Len(s) + Len(t)
      PROVE  (s \o t)[i] \in On(s) \cup On(t)
  <2>1. CASE i <= Len(s)
    BY <1>1, <2>1 DEF On
  <2>2. CASE ~ (i <= Len(s))
    <3>1. i - Len(s) \in 1 .. Len(t)
      BY <1>1, <2>2
    <3> QED
      BY <1>1, <2>2, <3>1 DEF On
  <2> QED
    BY <2>1, <2>2
<1>3. ASSUME NEW i \in 1 .. Len(s)
      PROVE  s[i] \in On(s \o t)
  <2>1. i \in 1 .. Len(s) + Len(t) /\ (s \o t)[i] = s[i]
    BY <1>1
  <2> QED
    BY <1>1, <2>1 DEF On
<1>4. ASSUME NEW i \in 1 .. Len(t)
      PROVE  t[i] \in On(s \o t)
  <2>1. Len(s) + i \in 1 .. Len(s) + Len(t) /\ (s \o t)[Len(s) + i] = t[i]
    BY <1>1
  <2> QED
    BY <1>1, <2>1 DEF On
<1> QED
  BY <1>1, <1>2, <1>3, <1>4 DEF On

LEMMA OnSetToSeq ==
  ASSUME NEW S, IsFiniteSet(S)
  PROVE  On(SetToSeq(S)) = S
<1>1. \A i \in 1 .. Len(SetToSeq(S)) : SetToSeq(S)[i] \in S
  BY SequenceOfSet, ElementOfSeq
<1> QED
  BY <1>1, SequenceOfSet DEF On

\* A turn.
LEMMA VisitKeeps ==
  ASSUME TaskTypeOK, NEW start \in Tasks, NEW target \in Tasks,
         NEW n \in Nat \ {0}, NEW search \in SearchOK(start, target, n - 1)
  PROVE  Visit(search, target) \in SearchOK(start, target, n)
<1> DEFINE stack   == search.stack
           visited == search.visited
           top     == Last(stack)
           rest    == Front(stack)
           all     == Cardinality(DOMAIN links)
<1>0. all \in Nat
  BY LinksAreFinite
<1>1. /\ search \in [stack : Seq(Tasks), visited : SUBSET Tasks]
      /\ start \in visited \cup On(stack)
      /\ visited \cup On(stack) \subseteq Visited(start)
      /\ target \notin visited
      /\ \A p \in DOMAIN links : p[1] \in visited => p[2] \in visited \cup On(stack)
      /\ stack = << >> \/ top = target \/ Len(stack) + Cardinality(Unvisited(visited)) + (n - 1) <= 1 + all
  BY DEF SearchOK
<1>2. CASE stack = << >> \/ top = target
  <2>1. Visit(search, target) = search
    BY <1>2 DEF Visit
  <2> QED
    BY <1>1, <1>2, <2>1 DEF SearchOK
<1>3. CASE stack # << >> /\ top # target
  <2>1. /\ top \in Tasks /\ rest \in Seq(Tasks) /\ Len(rest) = Len(stack) - 1 /\ Len(stack) \in Nat
        /\ On(stack) = On(rest) \cup {top}
    BY <1>1, <1>3, TopOf
  <2>2. top \in Visited(start)
    BY <1>1, <2>1
  <2>3. Cardinality(Unvisited(visited)) \in Nat
    BY LinksAreFinite DEF Unvisited
  <2>4. CASE top \in visited
    <3>1. Visit(search, target) = [stack |-> rest \o SetToSeq({}), visited |-> visited \cup {top}]
      BY <1>3, <2>4 DEF Visit
    <3>2. SetToSeq({}) \in Seq({}) /\ Len(SetToSeq({})) = 0
      BY SequenceOfSet, FS_EmptySet
    <3>3. SetToSeq({}) = << >>
      BY <3>2, EmptySeq
    <3>4. rest \o SetToSeq({}) = rest /\ visited \cup {top} = visited
      BY <2>1, <2>4, <3>3, ConcatEmptySeq
    <3>5. Visit(search, target) = [stack |-> rest, visited |-> visited]
      BY <3>1, <3>4
    <3>6. Len(rest) + Cardinality(Unvisited(visited)) + n <= 1 + all
      BY <1>0, <1>1, <1>3, <2>1, <2>3
    <3> QED
      BY <1>1, <2>1, <2>4, <3>5, <3>6 DEF SearchOK
  <2>5. CASE top \notin visited
    <3> DEFINE next == SetToSeq(NextTo(top))
    <3>1. Visit(search, target) = [stack |-> rest \o next, visited |-> visited \cup {top}]
      BY <1>3, <2>5 DEF Visit, NextTo
    <3>2. IsFiniteSet(NextTo(top)) /\ NextTo(top) \subseteq Tasks
      BY <2>1, NextOf
    <3>3. next \in Seq(Tasks) /\ Len(next) = Cardinality(NextTo(top)) /\ On(next) = NextTo(top)
      BY <3>2, SequenceOfSet, OnSetToSeq, SeqMonotonic
    <3> HIDE DEF next
    <3>4. /\ rest \o next \in Seq(Tasks) /\ Len(rest \o next) = Len(rest) + Len(next)
          /\ On(rest \o next) = On(rest) \cup NextTo(top)
      <4>1. rest \o next \in Seq(Tasks) /\ Len(rest \o next) = Len(rest) + Len(next)
        BY <2>1, <3>3, ConcatProperties
      <4>2. On(rest \o next) = On(rest) \cup On(next)
        BY <2>1, <3>3, OnBoth
      <4> QED
        BY <3>3, <4>1, <4>2
    <3>5. Cardinality(Unvisited(visited)) = Cardinality(Unvisited(visited \cup {top})) + Len(next)
      <4> DEFINE out == {p \in DOMAIN links : p[1] = top}
                 others == Unvisited(visited \cup {top})
      <4>1. Unvisited(visited) = others \cup out /\ others \cap out = {}
        BY <2>5 DEF Unvisited
      <4>2. IsFiniteSet(out) /\ IsFiniteSet(others) /\ Cardinality(out) \in Nat /\ Cardinality(others) \in Nat
        BY LinksAreFinite DEF Unvisited
      <4>3. Cardinality(out) = Len(next)
        BY <2>1, <3>3, NextOf
      <4> HIDE DEF out, others
      <4>4. Cardinality(others \cup out) = Cardinality(others) + Cardinality(out) - Cardinality({})
        BY <4>1, <4>2, FS_Union
      <4> QED
        BY <4>1, <4>2, <4>3, <4>4, FS_EmptySet DEF others
    <3>6. Len(rest \o next) + Cardinality(Unvisited(visited \cup {top})) + n <= 1 + all
      <4>1. Cardinality(Unvisited(visited \cup {top})) \in Nat /\ Len(next) \in Nat
        BY <3>3, LinksAreFinite, LenProperties DEF Unvisited
      <4> QED
        BY <1>0, <1>1, <1>3, <2>1, <2>3, <3>4, <3>5, <4>1, SMTT(20)
    <3>7. NextTo(top) \subseteq Visited(start)
      BY <2>2, VisitedIsClosed DEF Closed, NextTo
    <3>8. \A p \in DOMAIN links : p[1] \in visited \cup {top} => p[2] \in (visited \cup {top}) \cup On(rest \o next)
      <4> SUFFICES ASSUME NEW p \in DOMAIN links, p[1] \in visited \cup {top}
                   PROVE  p[2] \in (visited \cup {top}) \cup On(rest \o next)
        OBVIOUS
      <4>1. CASE p[1] = top
        BY <3>4, <4>1 DEF NextTo
      <4>2. CASE p[1] # top
        BY <1>1, <2>1, <3>4, <4>2
      <4> QED
        BY <4>1, <4>2
    <3>9. /\ start \in (visited \cup {top}) \cup On(rest \o next)
          /\ (visited \cup {top}) \cup On(rest \o next) \subseteq Visited(start)
          /\ target \notin visited \cup {top} /\ visited \cup {top} \subseteq Tasks
      BY <1>1, <1>3, <2>1, <2>2, <3>4, <3>7
    <3> DEFINE new == [stack |-> rest \o next, visited |-> visited \cup {top}]
    <3>10. /\ new \in [stack : Seq(Tasks), visited : SUBSET Tasks]
           /\ new.stack = rest \o next /\ new.visited = visited \cup {top}
      BY <3>4, <3>9
    <3> HIDE DEF new
    <3>11. new \in SearchOK(start, target, n)
      BY <3>6, <3>8, <3>9, <3>10 DEF SearchOK
    <3> QED
      BY <3>1, <3>11 DEF new
  <2> QED
    BY <2>4, <2>5
<1> QED
  BY <1>2, <1>3

\* _would_create_cycle() finds the target where it can be reached and only there.
LEMMA SearchFinds ==
  ASSUME TaskTypeOK, NEW start \in Tasks, NEW target \in Tasks
  PROVE  Finds(start, target) <=> target \in Visited(start)
<1> DEFINE turns == 1 + Cardinality(DOMAIN links)
           begin == [stack |-> <<start>>, visited |-> {}]
           search[n \in 0 .. turns] == IF n = 0 THEN begin ELSE Visit(search[n - 1], target)
           may == [n \in 0 .. turns |-> SearchOK(start, target, n)]
           h == [n \in 1 .. turns |-> [s \in may[n - 1] |-> Visit(s, target)]]
<1>1. turns \in Nat
  BY LinksAreFinite
<1>2. begin \in may[0]
  <2>1. On(<<start>>) = {start} /\ <<start>> \in Seq(Tasks) /\ Len(<<start>>) = 1 /\ <<start>> # << >>
    BY DEF On
  <2>2. Unvisited({}) = DOMAIN links
    BY DEF Unvisited
  <2>3. start \in Visited(start) /\ Cardinality(DOMAIN links) \in Nat
    BY VisitedIsClosed, LinksAreFinite
  <2>4. /\ begin \in [stack : Seq(Tasks), visited : SUBSET Tasks]
        /\ begin.stack = <<start>> /\ begin.visited = {}
    BY <2>1
  <2> HIDE DEF begin
  <2>5. 1 + Cardinality(Unvisited({})) + 0 <= 1 + Cardinality(DOMAIN links)
    BY <2>2, <2>3
  <2>6. begin \in SearchOK(start, target, 0)
    BY <2>1, <2>3, <2>4, <2>5 DEF SearchOK
  <2> QED
    BY <1>1, <2>6
<1>3. \A n \in 1 .. turns : \A s \in may[n - 1] : h[n][s] = Visit(s, target) /\ h[n][s] \in may[n]
  <2> SUFFICES ASSUME NEW n \in 1 .. turns, NEW s \in SearchOK(start, target, n - 1)
               PROVE  Visit(s, target) \in SearchOK(start, target, n)
    BY <1>1
  <2> QED
    BY <1>1, VisitKeeps
<1> HIDE DEF turns, begin, may, h
<1>4. PICK r : IsLoop(r, turns, begin, h) /\ \A n \in 0 .. turns : r[n] \in may[n]
  <2>1. \A n \in 1 .. turns : \A s \in may[n - 1] : h[n][s] \in may[n]
    BY <1>3
  <2> QED
    BY <1>1, <1>2, <2>1, LoopIs
<1>5. r = [n \in 0 .. turns |-> IF n = 0 THEN begin ELSE Visit(r[n - 1], target)]
  <2>1. \A n \in 0 .. turns : n # 0 => n - 1 \in 0 .. turns /\ n \in 1 .. turns
    BY <1>1
  <2>2. \A n \in 0 .. turns : n # 0 => h[n][r[n - 1]] = Visit(r[n - 1], target)
    BY <1>3, <1>4, <2>1
  <2> QED
    BY <1>4, <2>2 DEF IsLoop
<1>6. search = [n \in 0 .. turns |-> IF n = 0 THEN begin ELSE Visit(search[n - 1], target)]
  BY <1>5
<1> HIDE DEF search
<1>7. search[turns] \in SearchOK(start, target, turns)
  <2> DEFINE good == {n \in 0 .. turns : search[n] \in may[n]}
  <2>1. 0 \in good
    BY <1>1, <1>2, <1>6
  <2>2. ASSUME NEW n \in 1 .. turns, n - 1 \in good PROVE n \in good
    <3>1. search[n] = Visit(search[n - 1], target) /\ search[n - 1] \in may[n - 1]
      BY <1>1, <1>6, <2>2
    <3> QED
      BY <1>3, <3>1
  <2> HIDE DEF good
  <2>3. turns \in good
    BY <1>1, <2>1, <2>2, EveryTurn
  <2> QED
    BY <1>1, <2>3 DEF good, may
<1>8. Finds(start, target) <=> search[turns].stack # << >>
  BY DEF Finds, search, turns, begin
<1> DEFINE stack == search[turns].stack
           visited == search[turns].visited
<1>9. /\ stack \in Seq(Tasks) /\ visited \in SUBSET Tasks
      /\ start \in visited \cup On(stack)
      /\ visited \cup On(stack) \subseteq Visited(start)
      /\ target \notin visited
      /\ \A p \in DOMAIN links : p[1] \in visited => p[2] \in visited \cup On(stack)
      /\ stack = << >> \/ Last(stack) = target \/ Len(stack) + Cardinality(Unvisited(visited)) + turns <= turns
  BY <1>7 DEF SearchOK, turns
<1> HIDE DEF stack, visited
<1>10. CASE stack = << >>
  <2>1. On(stack) = {}
    BY <1>10 DEF On
  <2>2. Closed(visited) /\ start \in visited
    BY <1>9, <2>1 DEF Closed
  <2>3. target \notin Visited(start)
    BY <1>9, <2>2 DEF Visited
  <2> QED
    BY <1>8, <1>10, <2>3 DEF stack
<1>11. CASE stack # << >>
  <2>1. Len(stack) \in Nat \ {0} /\ Last(stack) \in On(stack)
    <3>1. On(stack) = On(Front(stack)) \cup {Last(stack)} /\ Len(stack) \in Nat \ {0}
      BY <1>9, <1>11, TopOf
    <3> QED
      BY <3>1
  <2>2. Cardinality(Unvisited(visited)) \in Nat
    BY LinksAreFinite DEF Unvisited
  <2>3. Last(stack) = target
    BY <1>1, <1>9, <1>11, <2>1, <2>2
  <2> QED
    BY <1>8, <1>9, <1>11, <2>1, <2>3 DEF stack
<1> QED
  BY <1>10, <1>11

-----------------------------------------------------------------------------
(* The order of the dated tasks *)

Once(s) == \A i, j \in 1 .. Len(s) : s[i] = s[j] => i = j

LEMMA RangeIsOn ==
  ASSUME NEW S, NEW s \in Seq(S)
  PROVE  Range(s) = On(s) /\ On(s) \subseteq S /\ Len(s) \in Nat
<1>1. DOMAIN s = 1 .. Len(s) /\ \A i \in 1 .. Len(s) : s[i] \in S
  BY LenProperties, ElementOfSeq
<1>2. Range(s) = On(s) /\ On(s) \subseteq S
  BY <1>1 DEF Range, On
<1> QED
  BY <1>2, LenProperties

LEMMA HeadOf ==
  ASSUME NEW S, NEW s \in Seq(S), s # << >>
  PROVE  /\ Head(s) \in S /\ Tail(s) \in Seq(S)
         /\ On(s) = On(Tail(s)) \cup {Head(s)}
         /\ Once(s) => Once(Tail(s)) /\ Head(s) \notin On(Tail(s))
<1>1. /\ Len(s) \in Nat \ {0} /\ Head(s) \in S /\ Tail(s) \in Seq(S) /\ Len(Tail(s)) = Len(s) - 1
      /\ \A i \in 1 .. Len(s) - 1 : Tail(s)[i] = s[i + 1]
  BY EmptySeq, HeadTailProperties
<1>2. Head(s) = s[1]
  BY <1>1 DEF Head
<1>3. \A i \in 1 .. Len(s) - 1 : i + 1 \in 1 .. Len(s) /\ i + 1 # 1
  BY <1>1
<1>4. \A i \in 1 .. Len(s) : i # 1 => i - 1 \in 1 .. Len(s) - 1 /\ Tail(s)[i - 1] = s[i]
  BY <1>1
<1>5. 1 \in 1 .. Len(s)
  BY <1>1
<1>6. On(s) \subseteq On(Tail(s)) \cup {Head(s)}
  <2> SUFFICES ASSUME NEW i \in 1 .. Len(s) PROVE s[i] \in On(Tail(s)) \cup {Head(s)}
    BY DEF On
  <2>1. CASE i = 1
    BY <1>2, <2>1
  <2>2. CASE i # 1
    BY <1>1, <1>4, <2>2 DEF On
  <2> QED
    BY <2>1, <2>2
<1>7. On(Tail(s)) \cup {Head(s)} \subseteq On(s)
  <2>1. \A i \in 1 .. Len(Tail(s)) : Tail(s)[i] \in On(s)
    BY <1>1, <1>3 DEF On
  <2> QED
    BY <1>2, <1>5, <2>1 DEF On
<1>8. ASSUME Once(s)
      PROVE  Once(Tail(s)) /\ Head(s) \notin On(Tail(s))
  <2>1. ASSUME NEW i \in 1 .. Len(s) - 1, NEW j \in 1 .. Len(s) - 1, Tail(s)[i] = Tail(s)[j]
        PROVE  i = j
    <3>1. i + 1 = j + 1
      BY <1>1, <1>3, <1>8, <2>1 DEF Once
    <3> QED
      BY <3>1
  <2>2. \A i \in 1 .. Len(s) - 1 : Tail(s)[i] # Head(s)
    BY <1>1, <1>2, <1>3, <1>5, <1>8 DEF Once
  <2> QED
    BY <1>1, <2>1, <2>2 DEF Once, On
<1> QED
  BY <1>1, <1>6, <1>7, <1>8

LEMMA OneMore ==
  ASSUME NEW S, NEW s \in Seq(S), NEW x \in S
  PROVE  /\ Append(s, x) \in Seq(S) /\ Len(Append(s, x)) = Len(s) + 1
         /\ On(Append(s, x)) = On(s) \cup {x}
         /\ Once(s) /\ x \notin On(s) => Once(Append(s, x))
<1> DEFINE t == Append(s, x)
<1>1. /\ t \in Seq(S) /\ Len(t) = Len(s) + 1 /\ Len(s) \in Nat
      /\ \A i \in 1 .. Len(s) : t[i] = s[i] /\ s[i] \in On(s)
      /\ t[Len(s) + 1] = x
  BY AppendProperties, LenProperties DEF On
<1> HIDE DEF t
<1>2. \A i \in 1 .. Len(s) + 1 : i = Len(s) + 1 \/ i \in 1 .. Len(s)
  BY <1>1
<1>3. Len(s) + 1 \in 1 .. Len(s) + 1 /\ \A i \in 1 .. Len(s) : i \in 1 .. Len(s) + 1
  BY <1>1
<1>4. On(t) = On(s) \cup {x}
  <2>1. \A i \in 1 .. Len(t) : t[i] \in On(s) \cup {x}
    BY <1>1, <1>2
  <2>2. \A i \in 1 .. Len(s) : s[i] \in On(t)
    <3> SUFFICES ASSUME NEW i \in 1 .. Len(s) PROVE s[i] \in On(t)
      OBVIOUS
    <3>1. i \in 1 .. Len(t) /\ t[i] = s[i]
      BY <1>1, <1>3
    <3> QED
      BY <3>1 DEF On
  <2>3. x \in On(t)
    BY <1>1, <1>3 DEF On
  <2> QED
    BY <2>1, <2>2, <2>3 DEF On
<1>5. ASSUME Once(s), x \notin On(s)
      PROVE  Once(t)
  <2> SUFFICES ASSUME NEW i \in 1 .. Len(s) + 1, NEW j \in 1 .. Len(s) + 1, t[i] = t[j]
               PROVE  i = j
    BY <1>1 DEF Once
  <2> QED
    BY <1>1, <1>2, <1>5 DEF Once
<1> QED
  BY <1>1, <1>4, <1>5 DEF t

LEMMA OnceBoth ==
  ASSUME NEW S, NEW s \in Seq(S), NEW t \in Seq(S), Once(s), Once(t), On(s) \cap On(t) = {}
  PROVE  Once(s \o t)
<1>1. /\ Len(s) \in Nat /\ Len(t) \in Nat /\ Len(s \o t) = Len(s) + Len(t)
      /\ \A i \in 1 .. Len(s) + Len(t) : (s \o t)[i] = IF i <= Len(s) THEN s[i] ELSE t[i - Len(s)]
  BY ConcatProperties, LenProperties
<1>2. ASSUME NEW i \in 1 .. Len(s) + Len(t)
      PROVE  \/ i \in 1 .. Len(s) /\ (s \o t)[i] = s[i] /\ s[i] \in On(s)
             \/ i - Len(s) \in 1 .. Len(t) /\ (s \o t)[i] = t[i - Len(s)] /\ t[i - Len(s)] \in On(t)
  <2>1. CASE i <= Len(s)
    BY <1>1, <2>1 DEF On
  <2>2. CASE ~ (i <= Len(s))
    <3>1. i - Len(s) \in 1 .. Len(t)
      BY <1>1, <2>2
    <3> QED
      BY <1>1, <2>2, <3>1 DEF On
  <2> QED
    BY <2>1, <2>2
<1>3. SUFFICES ASSUME NEW i \in 1 .. Len(s) + Len(t), NEW j \in 1 .. Len(s) + Len(t),
                      (s \o t)[i] = (s \o t)[j]
               PROVE  i = j
  BY <1>1 DEF Once
<1>4. \/ i \in 1 .. Len(s) /\ j \in 1 .. Len(s) /\ s[i] = s[j]
      \/ i - Len(s) \in 1 .. Len(t) /\ j - Len(s) \in 1 .. Len(t) /\ t[i - Len(s)] = t[j - Len(s)]
  BY <1>2, <1>3
<1>5. i = j \/ i - Len(s) = j - Len(s)
  BY <1>4 DEF Once
<1> QED
  BY <1>1, <1>5

LEMMA OnceSetToSeq ==
  ASSUME NEW S, IsFiniteSet(S)
  PROVE  Once(SetToSeq(S)) /\ On(SetToSeq(S)) = S /\ SetToSeq(S) \in Seq(S)
BY SequenceOfSet, OnSetToSeq DEF Once

LEMMA DatedIsFinite ==
  ASSUME NEW plan
  PROVE  Dated(plan) \in SUBSET Tasks /\ IsFiniteSet(Dated(plan)) /\ Cardinality(Dated(plan)) \in Nat
<1>1. Dated(plan) \in SUBSET Tasks
  BY DEF Dated
<1>2. IsFiniteSet(Dated(plan))
  BY <1>1, DependenciesAssumption, FS_Subset
<1> QED
  BY <1>1, <1>2, FS_CardinalityType

\* What a sequence of tasks is that each come after those they depend on.
InOrder(plan, order) ==
  \A i \in 1 .. Len(order) : \A p \in Predecessors(plan, order[i]) :
    \E j \in 1 .. Len(order) : j < i /\ order[j] = p[1]

\* What the algorithm may be after n turns.
KahnOK(plan, n) ==
  {k \in [order : Seq(Dated(plan)), queue : Seq(Dated(plan))] :
     /\ Once(k.order) /\ Once(k.queue) /\ On(k.order) \cap On(k.queue) = {}
     /\ \A t \in Dated(plan) :
          t \in On(k.order) \cup On(k.queue) <=> \A p \in Predecessors(plan, t) : p[1] \in On(k.order)
     /\ InOrder(plan, k.order)
     /\ k.queue = << >> \/ Len(k.order) = n}

LEMMA ReleaseKeeps ==
  ASSUME NEW plan, NEW n \in Nat \ {0}, NEW k \in KahnOK(plan, n - 1)
  PROVE  FreeNext(plan, k) \in KahnOK(plan, n)
<1> DEFINE D     == Dated(plan)
           head  == Head(k.queue)
           tail  == Tail(k.queue)
           order == Append(k.order, head)
           free  == {t \in D \ Range(order \o tail) :
                       \A p \in Predecessors(plan, t) : p[1] \in Range(order)}
           queue == tail \o SetToSeq(free)
<1>1. /\ k \in [order : Seq(D), queue : Seq(D)]
      /\ Once(k.order) /\ Once(k.queue) /\ On(k.order) \cap On(k.queue) = {}
      /\ \A t \in D :
           t \in On(k.order) \cup On(k.queue) <=> \A p \in Predecessors(plan, t) : p[1] \in On(k.order)
      /\ InOrder(plan, k.order)
      /\ k.queue = << >> \/ Len(k.order) = n - 1
  BY DEF KahnOK
<1>2. CASE k.queue = << >>
  <2>1. FreeNext(plan, k) = k
    BY <1>2 DEF FreeNext
  <2> QED
    BY <1>1, <1>2, <2>1 DEF KahnOK
<1>3. CASE k.queue # << >>
  <2>1. FreeNext(plan, k) = [order |-> order, queue |-> queue]
    BY <1>3 DEF FreeNext
  <2>2. /\ head \in D /\ tail \in Seq(D) /\ On(k.queue) = On(tail) \cup {head}
        /\ Once(tail) /\ head \notin On(tail)
    BY <1>1, <1>3, HeadOf
  <2>3. head \notin On(k.order)
    BY <1>1, <2>2
  <2>4. order \in Seq(D) /\ Len(order) = Len(k.order) + 1 /\ On(order) = On(k.order) \cup {head} /\ Once(order)
    BY <1>1, <2>2, <2>3, OneMore
  <2>5. /\ Len(k.order) \in Nat /\ order[Len(k.order) + 1] = head
        /\ \A i \in 1 .. Len(k.order) : order[i] = k.order[i]
    BY <1>1, <2>2, AppendProperties, LenProperties
  <2> HIDE DEF order, tail, head
  <2>6. Range(order \o tail) = On(order) \cup On(tail) /\ Range(order) = On(order)
    <3>1. order \o tail \in Seq(D)
      BY <2>2, <2>4, ConcatProperties
    <3>2. Range(order \o tail) = On(order \o tail)
      BY <3>1, RangeIsOn
    <3>3. Range(order) = On(order)
      BY <2>4, RangeIsOn
    <3>4. On(order \o tail) = On(order) \cup On(tail)
      BY <2>2, <2>4, OnBoth
    <3> QED
      BY <3>2, <3>3, <3>4
  <2>7. \A t \in D : t \in free <=> t \notin On(order) \cup On(tail) /\ \A p \in Predecessors(plan, t) : p[1] \in On(order)
    BY <2>6
  <2>8. free \in SUBSET D /\ IsFiniteSet(free)
    BY DatedIsFinite, FS_Subset
  <2> HIDE DEF free
  <2>9. Once(SetToSeq(free)) /\ On(SetToSeq(free)) = free /\ SetToSeq(free) \in Seq(D)
    BY <2>8, OnceSetToSeq, SeqMonotonic
  <2>10. queue \in Seq(D) /\ On(queue) = On(tail) \cup free /\ Once(queue)
    <3>1. On(tail) \cap On(SetToSeq(free)) = {}
      <4>1. \A t \in free : t \notin On(tail)
        BY <2>7, <2>8
      <4> QED
        BY <2>9, <4>1
    <3>2. queue \in Seq(D)
      BY <2>2, <2>9, ConcatProperties
    <3>3. On(queue) = On(tail) \cup On(SetToSeq(free))
      BY <2>2, <2>9, OnBoth
    <3>4. Once(queue)
      BY <2>2, <2>9, <3>1, OnceBoth
    <3> QED
      BY <2>9, <3>2, <3>3, <3>4
  <2> HIDE DEF queue
  <2>11. On(order) \cap On(queue) = {}
    <3>1. \A t \in free : t \notin On(order)
      BY <2>7, <2>8
    <3> QED
      BY <1>1, <2>2, <2>4, <2>10, <3>1
  <2>12. ASSUME NEW t \in D
         PROVE  t \in On(order) \cup On(queue) <=> \A p \in Predecessors(plan, t) : p[1] \in On(order)
    <3>1. t \in On(order) \cup On(queue) <=> t \in On(order) \cup On(tail) \/ t \in free
      BY <2>10
    <3>2. On(order) \cup On(tail) = On(k.order) \cup On(k.queue)
      BY <2>2, <2>4
    <3>3. t \in On(order) \cup On(tail) => \A p \in Predecessors(plan, t) : p[1] \in On(order)
      BY <1>1, <2>4, <3>2
    <3> QED
      BY <2>7, <3>1, <3>3
  <2>13. InOrder(plan, order)
    <3> SUFFICES ASSUME NEW i \in 1 .. Len(order), NEW p \in Predecessors(plan, order[i])
                 PROVE  \E j \in 1 .. Len(order) : j < i /\ order[j] = p[1]
      BY DEF InOrder
    <3>1. \A j \in 1 .. Len(k.order) : j \in 1 .. Len(order)
      BY <2>4, <2>5
    <3>2. CASE i = Len(k.order) + 1
      <4>1. p[1] \in On(k.order)
        BY <1>1, <2>2, <2>5, <3>2
      <4>2. PICK j \in 1 .. Len(k.order) : k.order[j] = p[1]
        BY <4>1 DEF On
      <4>3. j < i /\ order[j] = p[1]
        BY <2>5, <3>2, <4>2
      <4> QED
        BY <3>1, <4>3
    <3>3. CASE i # Len(k.order) + 1
      <4>1. i \in 1 .. Len(k.order) /\ order[i] = k.order[i]
        BY <2>4, <2>5, <3>3
      <4>2. PICK j \in 1 .. Len(k.order) : j < i /\ k.order[j] = p[1]
        BY <1>1, <4>1 DEF InOrder
      <4> QED
        BY <2>5, <3>1, <4>2
    <3> QED
      BY <3>2, <3>3
  <2>14. Len(order) = n
    BY <1>1, <1>3, <2>4, <2>5
  <2> DEFINE new == [order |-> order, queue |-> queue]
  <2>15. new \in [order : Seq(D), queue : Seq(D)] /\ new.order = order /\ new.queue = queue
    BY <2>4, <2>10
  <2> HIDE DEF new
  <2>16. new \in KahnOK(plan, n)
    BY <2>4, <2>10, <2>11, <2>12, <2>13, <2>14, <2>15 DEF KahnOK
  <2> QED
    BY <2>1, <2>16 DEF new
<1> QED
  BY <1>2, <1>3

LEMMA KahnEnds ==
  ASSUME NEW plan
  PROVE  \E k \in KahnOK(plan, Cardinality(Dated(plan))) : TopologicalOrder(plan) = k.order
<1> DEFINE D     == Dated(plan)
           turns == Cardinality(D)
           first == {t \in D : Predecessors(plan, t) = {}}
           begin == [order |-> << >>, queue |-> SetToSeq(first)]
           kahn[n \in 0 .. turns] == IF n = 0 THEN begin ELSE FreeNext(plan, kahn[n - 1])
           may == [n \in 0 .. turns |-> KahnOK(plan, n)]
           h == [n \in 1 .. turns |-> [k \in may[n - 1] |-> FreeNext(plan, k)]]
<1>1. turns \in Nat
  BY DatedIsFinite
<1>2. begin \in may[0]
  <2>1. first \in SUBSET D /\ IsFiniteSet(first)
    BY DatedIsFinite, FS_Subset
  <2>2. Once(SetToSeq(first)) /\ On(SetToSeq(first)) = first /\ SetToSeq(first) \in Seq(D)
    BY <2>1, OnceSetToSeq, SeqMonotonic
  <2>3. /\ begin \in [order : Seq(D), queue : Seq(D)]
        /\ begin.order = << >> /\ begin.queue = SetToSeq(first)
    BY <2>2, EmptySeq
  <2>4. Len(<< >>) = 0 /\ On(<< >>) = {} /\ Once(<< >>) /\ InOrder(plan, << >>)
    BY DEF On, Once, InOrder
  <2>5. \A t \in D : t \in first <=> \A p \in Predecessors(plan, t) : p[1] \in {}
    OBVIOUS
  <2> HIDE DEF begin, first
  <2>6. begin \in KahnOK(plan, 0)
    BY <2>2, <2>3, <2>4, <2>5 DEF KahnOK
  <2> QED
    BY <1>1, <2>6
<1>3. \A n \in 1 .. turns : \A k \in may[n - 1] : h[n][k] = FreeNext(plan, k) /\ h[n][k] \in may[n]
  <2> SUFFICES ASSUME NEW n \in 1 .. turns, NEW k \in KahnOK(plan, n - 1)
               PROVE  FreeNext(plan, k) \in KahnOK(plan, n)
    BY <1>1
  <2> QED
    BY <1>1, ReleaseKeeps
<1> HIDE DEF turns, begin, may, h
<1>4. PICK r : IsLoop(r, turns, begin, h) /\ \A n \in 0 .. turns : r[n] \in may[n]
  <2>1. \A n \in 1 .. turns : \A s \in may[n - 1] : h[n][s] \in may[n]
    BY <1>3
  <2> QED
    BY <1>1, <1>2, <2>1, LoopIs
<1>5. r = [n \in 0 .. turns |-> IF n = 0 THEN begin ELSE FreeNext(plan, r[n - 1])]
  <2>1. \A n \in 0 .. turns : n # 0 => n - 1 \in 0 .. turns /\ n \in 1 .. turns
    BY <1>1
  <2>2. \A n \in 0 .. turns : n # 0 => h[n][r[n - 1]] = FreeNext(plan, r[n - 1])
    BY <1>3, <1>4, <2>1
  <2> QED
    BY <1>4, <2>2 DEF IsLoop
<1>6. kahn = [n \in 0 .. turns |-> IF n = 0 THEN begin ELSE FreeNext(plan, kahn[n - 1])]
  BY <1>5
<1> HIDE DEF kahn
<1>7. kahn[turns] \in KahnOK(plan, turns)
  <2> DEFINE good == {n \in 0 .. turns : kahn[n] \in may[n]}
  <2>1. 0 \in good
    BY <1>1, <1>2, <1>6
  <2>2. ASSUME NEW n \in 1 .. turns, n - 1 \in good PROVE n \in good
    <3>1. kahn[n] = FreeNext(plan, kahn[n - 1]) /\ kahn[n - 1] \in may[n - 1]
      BY <1>1, <1>6, <2>2
    <3> QED
      BY <1>3, <3>1
  <2> HIDE DEF good
  <2>3. turns \in good
    BY <1>1, <2>1, <2>2, EveryTurn
  <2> QED
    BY <1>1, <2>3 DEF good, may
<1>8. TopologicalOrder(plan) = kahn[turns].order
  BY DEF TopologicalOrder, kahn, turns, begin
<1> QED
  BY <1>7, <1>8 DEF turns

\* The algorithm orders all the dated tasks, unless they wait for each other in a circle.
LEMMA OrderedIfAcyclic ==
  ASSUME NEW plan
  PROVE  /\ Ordered(plan) <=> Acyclic(Dated(plan))
         /\ LET order == TopologicalOrder(plan) IN
              /\ order \in Seq(Dated(plan)) /\ Len(order) \in Nat
              /\ Once(order) /\ InOrder(plan, order)
              /\ Ordered(plan) => On(order) = Dated(plan)
<1> DEFINE D == Dated(plan)
           order == TopologicalOrder(plan)
<1>1. PICK k \in KahnOK(plan, Cardinality(D)) : order = k.order
  BY KahnEnds
<1>2. /\ order \in Seq(D) /\ k.queue \in Seq(D)
      /\ Once(order) /\ InOrder(plan, order)
      /\ \A t \in D :
           t \in On(order) \cup On(k.queue) <=> \A p \in Predecessors(plan, t) : p[1] \in On(order)
      /\ k.queue = << >> \/ Len(order) = Cardinality(D)
  BY <1>1 DEF KahnOK
<1>3. IsFiniteSet(D) /\ Cardinality(D) \in Nat /\ On(order) \subseteq D /\ Len(order) \in Nat
  BY <1>2, DatedIsFinite, RangeIsOn
<1> HIDE DEF order
<1>4. Cardinality(On(order)) = Len(order)
  <2>1. order \in [1 .. Len(order) -> On(order)]
    <3>1. order \in [1 .. Len(order) -> D]
      BY <1>2, LenProperties
    <3> QED
      BY <3>1 DEF On
  <2>2. order \in Bijection(1 .. Len(order), On(order))
    BY <1>2, <2>1 DEF Bijection, Injection, Surjection, IsInjective, Once, On
  <2>3. ExistsBijection(1 .. Len(order), On(order))
    BY <2>2 DEF ExistsBijection
  <2> QED
    BY <1>3, <2>3, FS_CountingElements
<1>5. Ordered(plan) <=> On(order) = D
  <2>1. Cardinality(D) = Cardinality(On(order)) => D = On(order)
    BY <1>3, FS_Subset
  <2> QED
    BY <1>4, <2>1 DEF Ordered, order
<1>6. ASSUME On(order) = D
      PROVE  Acyclic(D)
  <2> SUFFICES ASSUME NEW some \in (SUBSET D) \ {{}}
               PROVE  \E t \in some : \A p \in DOMAIN links : p[2] = t => p[1] \notin some
    BY DEF Acyclic
  <2> DEFINE places == {i \in 1 .. Len(order) : order[i] \in some}
  <2>1. places \in SUBSET Nat /\ places # {}
    BY <1>6 DEF On
  <2>2. PICK i \in places : \A j \in places : i <= j
    <3> HIDE DEF places
    <3> QED
      BY <2>1, LeastOf
  <2>3. ASSUME NEW p \in DOMAIN links, p[2] = order[i], p[1] \in some
        PROVE  FALSE
    <3>1. p \in Predecessors(plan, order[i])
      BY <2>3 DEF Predecessors
    <3>2. PICK j \in 1 .. Len(order) : j < i /\ order[j] = p[1]
      BY <1>2, <3>1 DEF InOrder
    <3>3. j \in places
      BY <2>3, <3>2
    <3> QED
      BY <2>2, <3>2, <3>3
  <2> QED
    BY <2>3
<1>7. ASSUME Acyclic(D)
      PROVE  On(order) = D
  <2>1. CASE Len(order) = Cardinality(D)
    BY <1>5, <2>1 DEF Ordered, order
  <2>2. CASE k.queue = << >>
    <3> SUFFICES ASSUME D \ On(order) # {} PROVE FALSE
      BY <1>3
    <3>1. PICK t \in D \ On(order) : \A p \in DOMAIN links : p[2] = t => p[1] \notin D \ On(order)
      BY <1>7 DEF Acyclic
    <3>2. \A p \in Predecessors(plan, t) : p[1] \in On(order)
      BY <3>1 DEF Predecessors
    <3>3. On(k.queue) = {}
      BY <2>2 DEF On
    <3> QED
      BY <1>2, <3>1, <3>2, <3>3
  <2> QED
    BY <1>2, <2>1, <2>2
<1>8. /\ Ordered(plan) <=> Acyclic(D)
      /\ order \in Seq(D) /\ Len(order) \in Nat
      /\ Once(order) /\ InOrder(plan, order)
      /\ Ordered(plan) => On(order) = D
  BY <1>2, <1>3, <1>5, <1>6, <1>7
<1> QED
  BY <1>8 DEF order

-----------------------------------------------------------------------------
(* The dates of one task *)

Plans == [Tasks -> (Int \X Int) \cup {Undated, Absent}]

LEMMA DatesOf ==
  ASSUME NEW plan \in Plans, NEW t \in Dated(plan)
  PROVE  plan[t] \in Int \X Int /\ Duration(plan, t) \in Int
BY DEF Plans, Dated, Duration

LEMMA KindOf ==
  ASSUME TaskTypeOK, NEW p \in DOMAIN links
  PROVE  links[p][1] \in {"FS", "SS", "FF", "SF"} /\ Lag(p) \in Int
BY DependenciesAssumption DEF TaskTypeOK, Lag

\* A number and those that two functions give; the greatest and the least of them.
Among(x, P, f, Q, g) == {x} \cup {f[p] : p \in P} \cup {g[p] : p \in Q}

Greatest(m, x, P, f, Q, g) ==
  /\ m \in Int /\ m >= x
  /\ \A p \in P : m >= f[p]
  /\ \A p \in Q : m >= g[p]
  /\ m = x \/ (\E p \in P : m = f[p]) \/ \E p \in Q : m = g[p]

Least(m, x, P, f, Q, g) ==
  /\ m \in Int /\ m <= x
  /\ \A p \in P : m <= f[p]
  /\ \A p \in Q : m <= g[p]
  /\ m = x \/ (\E p \in P : m = f[p]) \/ \E p \in Q : m = g[p]

LEMMA ExtremesOf ==
  ASSUME NEW x \in Int, NEW P, IsFiniteSet(P), NEW Q, IsFiniteSet(Q),
         NEW f \in [P -> Int], NEW g \in [Q -> Int]
  PROVE  /\ Greatest(Max(Among(x, P, f, Q, g)), x, P, f, Q, g)
         /\ Least(Min(Among(x, P, f, Q, g)), x, P, f, Q, g)
<1> DEFINE ofF == {f[p] : p \in P}
           ofG == {g[p] : p \in Q}
           all == Among(x, P, f, Q, g)
<1>1. IsFiniteSet(ofF) /\ ofF \subseteq Int
  BY FiniteImage
<1>2. IsFiniteSet(ofG) /\ ofG \subseteq Int
  BY FiniteImage
<1>3. \A p \in P : f[p] \in ofF
  OBVIOUS
<1>4. \A p \in Q : g[p] \in ofG
  OBVIOUS
<1>5. \A y \in ofF : \E p \in P : y = f[p]
  OBVIOUS
<1>6. \A y \in ofG : \E p \in Q : y = g[p]
  OBVIOUS
<1>0. all = {x} \cup ofF \cup ofG
  BY DEF Among
<1> HIDE DEF ofF, ofG, all
<1>7. IsFiniteSet({x} \cup ofF)
  BY <1>1, FS_Singleton, FS_Union
<1>8. IsFiniteSet(all)
  BY <1>0, <1>2, <1>7, FS_Union
<1>9. all \in SUBSET Int /\ all # {} /\ x \in all /\ (\A y \in ofF : y \in all) /\ \A y \in ofG : y \in all
  BY <1>0, <1>1, <1>2
<1>10. \A y \in all : y = x \/ y \in ofF \/ y \in ofG
  BY <1>0
<1>11. Max(all) \in all /\ Max(all) \in Int /\ \A y \in all : y \in Int /\ y <= Max(all)
  BY <1>8, <1>9, MaxIs
<1>12. Min(all) \in all /\ Min(all) \in Int /\ \A y \in all : y \in Int /\ Min(all) <= y
  BY <1>8, <1>9, MinIs
<1>13. Greatest(Max(all), x, P, f, Q, g)
  BY <1>3, <1>4, <1>5, <1>6, <1>9, <1>10, <1>11 DEF Greatest
<1>14. Least(Min(all), x, P, f, Q, g)
  BY <1>3, <1>4, <1>5, <1>6, <1>9, <1>10, <1>12 DEF Least
<1> QED
  BY <1>13, <1>14 DEF all

\* By how many days a dependency is kept.
LEMMA SlackIs ==
  ASSUME NEW kind, NEW pred, NEW succ
  PROVE  /\ kind[1] = "FS" => Slack(kind, pred, succ) = succ[1] - (pred[2] + 1 + kind[2])
         /\ kind[1] = "SS" => Slack(kind, pred, succ) = succ[1] - (pred[1] + kind[2])
         /\ kind[1] = "FF" => Slack(kind, pred, succ) = succ[2] - (pred[2] + kind[2])
         /\ kind[1] = "SF" => Slack(kind, pred, succ) = succ[2] - (pred[1] + kind[2])
BY DEF Slack

\* The earliest dates of a task keep its dependencies, and one of them or its plan
\* lets it start no sooner.
LEMMA EarliestIs ==
  ASSUME TaskTypeOK, NEW plan \in Plans, NEW t \in Dated(plan), NEW early,
         \A p \in Predecessors(plan, t) : early[p[1]] \in Int \X Int
  PROVE  LET own == Earliest(plan, t, early) IN
         /\ own \in Int \X Int /\ own[2] - own[1] = Duration(plan, t) /\ own[1] >= plan[t][1]
         /\ \A p \in Predecessors(plan, t) : Slack(links[p], early[p[1]], own) >= 0
         /\ \/ own[1] = plan[t][1]
            \/ \E p \in Predecessors(plan, t) : Slack(links[p], early[p[1]], own) = 0
<1> DEFINE pairs  == Predecessors(plan, t)
           length == Duration(plan, t)
           fs == [p \in Of(pairs, "FS") |-> early[p[1]][2] + 1 + Lag(p)]
           ss == [p \in Of(pairs, "SS") |-> early[p[1]][1] + Lag(p)]
           ff == [p \in Of(pairs, "FF") |-> early[p[1]][2] + Lag(p)]
           sf == [p \in Of(pairs, "SF") |-> early[p[1]][1] + Lag(p)]
           start  == Max(Among(plan[t][1], Of(pairs, "FS"), fs, Of(pairs, "SS"), ss))
           finish == Max(Among(start + length, Of(pairs, "FF"), ff, Of(pairs, "SF"), sf))
           own == <<finish - length, finish>>
<1>1. own = Earliest(plan, t, early)
  <2>1. /\ {fs[p] : p \in Of(pairs, "FS")} = {early[p[1]][2] + 1 + Lag(p) : p \in Of(pairs, "FS")}
        /\ {ss[p] : p \in Of(pairs, "SS")} = {early[p[1]][1] + Lag(p) : p \in Of(pairs, "SS")}
        /\ {ff[p] : p \in Of(pairs, "FF")} = {early[p[1]][2] + Lag(p) : p \in Of(pairs, "FF")}
        /\ {sf[p] : p \in Of(pairs, "SF")} = {early[p[1]][1] + Lag(p) : p \in Of(pairs, "SF")}
    OBVIOUS
  <2> HIDE DEF fs, ss, ff, sf
  <2> QED
    BY <2>1 DEF Earliest, Among
<1>2. plan[t][1] \in Int /\ length \in Int
  BY DatesOf
<1>3. ASSUME NEW type
      PROVE  IsFiniteSet(Of(pairs, type)) /\ Of(pairs, type) \subseteq pairs
  BY LinksAreFinite DEF Of, Predecessors
<1>4. \A p \in pairs : /\ p \in DOMAIN links /\ early[p[1]][1] \in Int /\ early[p[1]][2] \in Int
                       /\ Lag(p) \in Int /\ links[p][2] = Lag(p)
                       /\ links[p][1] \in {"FS", "SS", "FF", "SF"} /\ p \in Of(pairs, links[p][1])
  BY KindOf DEF Predecessors, Of, Lag
<1>5. \A type : \A p \in Of(pairs, type) : links[p][1] = type
  BY DEF Of
<1> HIDE DEF pairs, length
<1>6. /\ fs \in [Of(pairs, "FS") -> Int] /\ ss \in [Of(pairs, "SS") -> Int]
      /\ ff \in [Of(pairs, "FF") -> Int] /\ sf \in [Of(pairs, "SF") -> Int]
  BY <1>3, <1>4
<1>7. /\ \A p \in Of(pairs, "FS") : fs[p] = early[p[1]][2] + 1 + Lag(p)
      /\ \A p \in Of(pairs, "SS") : ss[p] = early[p[1]][1] + Lag(p)
      /\ \A p \in Of(pairs, "FF") : ff[p] = early[p[1]][2] + Lag(p)
      /\ \A p \in Of(pairs, "SF") : sf[p] = early[p[1]][1] + Lag(p)
  OBVIOUS
<1> HIDE DEF fs, ss, ff, sf
<1>8. Greatest(start, plan[t][1], Of(pairs, "FS"), fs, Of(pairs, "SS"), ss)
  BY <1>2, <1>3, <1>6, ExtremesOf
<1> HIDE DEF start
<1>9. /\ start \in Int /\ start >= plan[t][1]
      /\ \A p \in Of(pairs, "FS") : start >= fs[p]
      /\ \A p \in Of(pairs, "SS") : start >= ss[p]
      /\ start = plan[t][1] \/ (\E p \in Of(pairs, "FS") : start = fs[p]) \/ \E p \in Of(pairs, "SS") : start = ss[p]
  BY <1>8 DEF Greatest
<1>10. Greatest(finish, start + length, Of(pairs, "FF"), ff, Of(pairs, "SF"), sf)
  <2>1. start + length \in Int
    BY <1>2, <1>9
  <2> QED
    BY <2>1, <1>3, <1>6, ExtremesOf
<1> HIDE DEF finish
<1>11. /\ finish \in Int /\ finish >= start + length
       /\ \A p \in Of(pairs, "FF") : finish >= ff[p]
       /\ \A p \in Of(pairs, "SF") : finish >= sf[p]
       /\ finish = start + length \/ (\E p \in Of(pairs, "FF") : finish = ff[p]) \/ \E p \in Of(pairs, "SF") : finish = sf[p]
  BY <1>10 DEF Greatest
<1>12. own[1] = finish - length /\ own[2] = finish /\ own \in Int \X Int
  BY <1>2, <1>11
<1> HIDE DEF own
<1>13. own[1] \in Int /\ own[2] \in Int /\ own[2] - own[1] = length /\ own[1] >= start /\ own[1] >= plan[t][1]
  BY <1>2, <1>9, <1>11, <1>12
<1>14. ASSUME NEW p \in pairs
       PROVE  Slack(links[p], early[p[1]], own) >= 0
  <2>1. CASE links[p][1] = "FS"
    <3>1. own[1] >= early[p[1]][2] + 1 + Lag(p)
      BY <1>4, <1>7, <1>9, <1>13, <2>1
    <3> QED
      BY <1>4, <1>13, <2>1, <3>1, SlackIs
  <2>2. CASE links[p][1] = "SS"
    <3>1. own[1] >= early[p[1]][1] + Lag(p)
      BY <1>4, <1>7, <1>9, <1>13, <2>2
    <3> QED
      BY <1>4, <1>13, <2>2, <3>1, SlackIs
  <2>3. CASE links[p][1] = "FF"
    <3>1. own[2] >= early[p[1]][2] + Lag(p)
      BY <1>4, <1>7, <1>11, <1>12, <2>3
    <3> QED
      BY <1>4, <1>13, <2>3, <3>1, SlackIs
  <2>4. CASE links[p][1] = "SF"
    <3>1. own[2] >= early[p[1]][1] + Lag(p)
      BY <1>4, <1>7, <1>11, <1>12, <2>4
    <3> QED
      BY <1>4, <1>13, <2>4, <3>1, SlackIs
  <2> QED
    BY <1>4, <2>1, <2>2, <2>3, <2>4
<1>15. own[1] = plan[t][1] \/ \E p \in pairs : Slack(links[p], early[p[1]], own) = 0
  <2>1. CASE finish = start + length
    <3>1. own[1] = start
      BY <1>2, <1>9, <1>12, <2>1
    <3>2. ASSUME NEW p \in Of(pairs, "FS"), start = fs[p]
          PROVE  Slack(links[p], early[p[1]], own) = 0
      <4>1. Slack(links[p], early[p[1]], own) = own[1] - (early[p[1]][2] + 1 + Lag(p)) /\ p \in pairs
        BY <1>3, <1>4, <1>5, SlackIs
      <4> QED
        BY <1>4, <1>7, <1>9, <3>1, <3>2, <4>1
    <3>3. ASSUME NEW p \in Of(pairs, "SS"), start = ss[p]
          PROVE  Slack(links[p], early[p[1]], own) = 0
      <4>1. Slack(links[p], early[p[1]], own) = own[1] - (early[p[1]][1] + Lag(p)) /\ p \in pairs
        BY <1>3, <1>4, <1>5, SlackIs
      <4> QED
        BY <1>4, <1>7, <1>9, <3>1, <3>3, <4>1
    <3> QED
      BY <1>3, <1>9, <3>1, <3>2, <3>3
  <2>2. ASSUME NEW p \in Of(pairs, "FF"), finish = ff[p]
        PROVE  Slack(links[p], early[p[1]], own) = 0
    <3>1. Slack(links[p], early[p[1]], own) = own[2] - (early[p[1]][2] + Lag(p)) /\ p \in pairs
      BY <1>3, <1>4, <1>5, SlackIs
    <3> QED
      BY <1>4, <1>7, <1>11, <1>12, <2>2, <3>1
  <2>3. ASSUME NEW p \in Of(pairs, "SF"), finish = sf[p]
        PROVE  Slack(links[p], early[p[1]], own) = 0
    <3>1. Slack(links[p], early[p[1]], own) = own[2] - (early[p[1]][1] + Lag(p)) /\ p \in pairs
      BY <1>3, <1>4, <1>5, SlackIs
    <3> QED
      BY <1>4, <1>7, <1>11, <1>12, <2>3, <3>1
  <2> QED
    BY <1>3, <1>11, <2>1, <2>2, <2>3
<1>16. /\ own \in Int \X Int /\ own[2] - own[1] = length /\ own[1] >= plan[t][1]
       /\ \A p \in pairs : Slack(links[p], early[p[1]], own) >= 0
       /\ own[1] = plan[t][1] \/ \E p \in pairs : Slack(links[p], early[p[1]], own) = 0
  BY <1>12, <1>13, <1>14, <1>15
<1> QED
  BY <1>1, <1>16 DEF pairs, length

\* The latest dates of a task keep its dependencies, and one of them or the end of
\* the project lets it finish no later.
LEMMA LatestIs ==
  ASSUME TaskTypeOK, NEW plan \in Plans, NEW t \in Dated(plan), NEW late, NEW last \in Int,
         \A p \in Successors(plan, t) : late[p[2]] \in Int \X Int
  PROVE  LET own == Latest(plan, t, late, last) IN
         /\ own \in Int \X Int /\ own[2] - own[1] = Duration(plan, t) /\ own[2] <= last
         /\ \A p \in Successors(plan, t) : Slack(links[p], own, late[p[2]]) >= 0
         /\ \/ own[2] = last
            \/ \E p \in Successors(plan, t) : Slack(links[p], own, late[p[2]]) = 0
<1> DEFINE pairs  == Successors(plan, t)
           length == Duration(plan, t)
           fs == [p \in Of(pairs, "FS") |-> DayBefore(late[p[2]][1], Lag(p))]
           ff == [p \in Of(pairs, "FF") |-> late[p[2]][2] - Lag(p)]
           ss == [p \in Of(pairs, "SS") |-> late[p[2]][1] - Lag(p)]
           sf == [p \in Of(pairs, "SF") |-> late[p[2]][2] - Lag(p)]
           finish == Min(Among(last, Of(pairs, "FS"), fs, Of(pairs, "FF"), ff))
           start  == Min(Among(finish - length, Of(pairs, "SS"), ss, Of(pairs, "SF"), sf))
           own == <<start, start + length>>
<1>1. own = Latest(plan, t, late, last)
  <2>1. /\ {fs[p] : p \in Of(pairs, "FS")} = {DayBefore(late[p[2]][1], Lag(p)) : p \in Of(pairs, "FS")}
        /\ {ff[p] : p \in Of(pairs, "FF")} = {late[p[2]][2] - Lag(p) : p \in Of(pairs, "FF")}
        /\ {ss[p] : p \in Of(pairs, "SS")} = {late[p[2]][1] - Lag(p) : p \in Of(pairs, "SS")}
        /\ {sf[p] : p \in Of(pairs, "SF")} = {late[p[2]][2] - Lag(p) : p \in Of(pairs, "SF")}
    OBVIOUS
  <2> HIDE DEF fs, ss, ff, sf
  <2> QED
    BY <2>1 DEF Latest, Among
<1>2. length \in Int
  BY DatesOf
<1>3. ASSUME NEW type
      PROVE  IsFiniteSet(Of(pairs, type)) /\ Of(pairs, type) \subseteq pairs
  BY LinksAreFinite DEF Of, Successors
<1>4. \A p \in pairs : /\ p \in DOMAIN links /\ late[p[2]][1] \in Int /\ late[p[2]][2] \in Int
                       /\ Lag(p) \in Int /\ links[p][2] = Lag(p)
                       /\ links[p][1] \in {"FS", "SS", "FF", "SF"} /\ p \in Of(pairs, links[p][1])
  BY KindOf DEF Successors, Of, Lag
<1>5. \A type : \A p \in Of(pairs, type) : links[p][1] = type
  BY DEF Of
<1> HIDE DEF pairs, length
<1>6. /\ \A p \in Of(pairs, "FS") : fs[p] = late[p[2]][1] - 1 - Lag(p)
      /\ \A p \in Of(pairs, "FF") : ff[p] = late[p[2]][2] - Lag(p)
      /\ \A p \in Of(pairs, "SS") : ss[p] = late[p[2]][1] - Lag(p)
      /\ \A p \in Of(pairs, "SF") : sf[p] = late[p[2]][2] - Lag(p)
  BY DEF DayBefore
<1>7. /\ fs \in [Of(pairs, "FS") -> Int] /\ ss \in [Of(pairs, "SS") -> Int]
      /\ ff \in [Of(pairs, "FF") -> Int] /\ sf \in [Of(pairs, "SF") -> Int]
  BY <1>3, <1>4 DEF DayBefore
<1> HIDE DEF fs, ss, ff, sf
<1>8. Least(finish, last, Of(pairs, "FS"), fs, Of(pairs, "FF"), ff)
  BY <1>3, <1>7, ExtremesOf
<1> HIDE DEF finish
<1>9. /\ finish \in Int /\ finish <= last
      /\ \A p \in Of(pairs, "FS") : finish <= fs[p]
      /\ \A p \in Of(pairs, "FF") : finish <= ff[p]
      /\ finish = last \/ (\E p \in Of(pairs, "FS") : finish = fs[p]) \/ \E p \in Of(pairs, "FF") : finish = ff[p]
  BY <1>8 DEF Least
<1>10. Least(start, finish - length, Of(pairs, "SS"), ss, Of(pairs, "SF"), sf)
  <2>1. finish - length \in Int
    BY <1>2, <1>9
  <2> QED
    BY <2>1, <1>3, <1>7, ExtremesOf
<1> HIDE DEF start
<1>11. /\ start \in Int /\ start <= finish - length
       /\ \A p \in Of(pairs, "SS") : start <= ss[p]
       /\ \A p \in Of(pairs, "SF") : start <= sf[p]
       /\ start = finish - length \/ (\E p \in Of(pairs, "SS") : start = ss[p]) \/ \E p \in Of(pairs, "SF") : start = sf[p]
  BY <1>10 DEF Least
<1>12. own[1] = start /\ own[2] = start + length /\ own \in Int \X Int
  BY <1>2, <1>11
<1> HIDE DEF own
<1>13. own[1] \in Int /\ own[2] \in Int /\ own[2] - own[1] = length /\ own[2] <= finish /\ own[2] <= last
  BY <1>2, <1>9, <1>11, <1>12
<1>14. ASSUME NEW p \in pairs
       PROVE  Slack(links[p], own, late[p[2]]) >= 0
  <2>1. CASE links[p][1] = "FS"
    <3>1. own[2] <= late[p[2]][1] - 1 - Lag(p)
      BY <1>4, <1>6, <1>9, <1>13, <2>1
    <3> QED
      BY <1>4, <1>13, <2>1, <3>1, SlackIs
  <2>2. CASE links[p][1] = "SS"
    <3>1. own[1] <= late[p[2]][1] - Lag(p)
      BY <1>4, <1>6, <1>11, <1>12, <2>2
    <3> QED
      BY <1>4, <1>13, <2>2, <3>1, SlackIs
  <2>3. CASE links[p][1] = "FF"
    <3>1. own[2] <= late[p[2]][2] - Lag(p)
      BY <1>4, <1>6, <1>9, <1>13, <2>3
    <3> QED
      BY <1>4, <1>13, <2>3, <3>1, SlackIs
  <2>4. CASE links[p][1] = "SF"
    <3>1. own[1] <= late[p[2]][2] - Lag(p)
      BY <1>4, <1>6, <1>11, <1>12, <2>4
    <3> QED
      BY <1>4, <1>13, <2>4, <3>1, SlackIs
  <2> QED
    BY <1>4, <2>1, <2>2, <2>3, <2>4
<1>15. own[2] = last \/ \E p \in pairs : Slack(links[p], own, late[p[2]]) = 0
  <2>1. CASE start = finish - length
    <3>1. own[2] = finish
      BY <1>2, <1>9, <1>12, <2>1
    <3>2. ASSUME NEW p \in Of(pairs, "FS"), finish = fs[p]
          PROVE  Slack(links[p], own, late[p[2]]) = 0
      <4>1. Slack(links[p], own, late[p[2]]) = late[p[2]][1] - (own[2] + 1 + Lag(p)) /\ p \in pairs
        BY <1>3, <1>4, <1>5, SlackIs
      <4> QED
        BY <1>4, <1>6, <1>9, <3>1, <3>2, <4>1
    <3>3. ASSUME NEW p \in Of(pairs, "FF"), finish = ff[p]
          PROVE  Slack(links[p], own, late[p[2]]) = 0
      <4>1. Slack(links[p], own, late[p[2]]) = late[p[2]][2] - (own[2] + Lag(p)) /\ p \in pairs
        BY <1>3, <1>4, <1>5, SlackIs
      <4> QED
        BY <1>4, <1>6, <1>9, <3>1, <3>3, <4>1
    <3> QED
      BY <1>3, <1>9, <3>1, <3>2, <3>3
  <2>2. ASSUME NEW p \in Of(pairs, "SS"), start = ss[p]
        PROVE  Slack(links[p], own, late[p[2]]) = 0
    <3>1. Slack(links[p], own, late[p[2]]) = late[p[2]][1] - (own[1] + Lag(p)) /\ p \in pairs
      BY <1>3, <1>4, <1>5, SlackIs
    <3> QED
      BY <1>4, <1>6, <1>11, <1>12, <2>2, <3>1
  <2>3. ASSUME NEW p \in Of(pairs, "SF"), start = sf[p]
        PROVE  Slack(links[p], own, late[p[2]]) = 0
    <3>1. Slack(links[p], own, late[p[2]]) = late[p[2]][2] - (own[1] + Lag(p)) /\ p \in pairs
      BY <1>3, <1>4, <1>5, SlackIs
    <3> QED
      BY <1>4, <1>6, <1>11, <1>12, <2>3, <3>1
  <2> QED
    BY <1>3, <1>11, <2>1, <2>2, <2>3
<1>16. /\ own \in Int \X Int /\ own[2] - own[1] = length /\ own[2] <= last
       /\ \A p \in pairs : Slack(links[p], own, late[p[2]]) >= 0
       /\ own[2] = last \/ \E p \in pairs : Slack(links[p], own, late[p[2]]) = 0
  BY <1>12, <1>13, <1>14, <1>15
<1> QED
  BY <1>1, <1>16 DEF pairs, length

\* If a dependency is kept to the day, its successor starts no later than if it is
\* kept and its predecessor is not earlier.
LEMMA SuccessorNoLater ==
  ASSUME NEW kind, kind[1] \in {"FS", "SS", "FF", "SF"}, kind[2] \in Int,
         NEW pred \in Int \X Int, NEW succ \in Int \X Int,
         NEW pred2 \in Int \X Int, NEW succ2 \in Int \X Int,
         pred2[1] >= pred[1], pred2[2] >= pred[2], succ2[2] - succ2[1] = succ[2] - succ[1],
         Slack(kind, pred, succ) = 0, Slack(kind, pred2, succ2) >= 0
  PROVE  succ2[1] >= succ[1]
<1>1. /\ pred[1] \in Int /\ pred[2] \in Int /\ succ[1] \in Int /\ succ[2] \in Int
      /\ pred2[1] \in Int /\ pred2[2] \in Int /\ succ2[1] \in Int /\ succ2[2] \in Int
  OBVIOUS
<1>2. CASE kind[1] = "FS"
  BY <1>1, <1>2, SlackIs
<1>3. CASE kind[1] = "SS"
  BY <1>1, <1>3, SlackIs
<1>4. CASE kind[1] = "FF"
  BY <1>1, <1>4, SlackIs
<1>5. CASE kind[1] = "SF"
  BY <1>1, <1>5, SlackIs
<1> QED
  BY <1>2, <1>3, <1>4, <1>5

LEMMA PredecessorNoSooner ==
  ASSUME NEW kind, kind[1] \in {"FS", "SS", "FF", "SF"}, kind[2] \in Int,
         NEW pred \in Int \X Int, NEW succ \in Int \X Int,
         NEW pred2 \in Int \X Int, NEW succ2 \in Int \X Int,
         succ2[1] <= succ[1], succ2[2] <= succ[2], pred2[2] - pred2[1] = pred[2] - pred[1],
         Slack(kind, pred, succ) = 0, Slack(kind, pred2, succ2) >= 0
  PROVE  pred2[1] <= pred[1]
<1>1. /\ pred[1] \in Int /\ pred[2] \in Int /\ succ[1] \in Int /\ succ[2] \in Int
      /\ pred2[1] \in Int /\ pred2[2] \in Int /\ succ2[1] \in Int /\ succ2[2] \in Int
  OBVIOUS
<1>2. CASE kind[1] = "FS"
  BY <1>1, <1>2, SlackIs
<1>3. CASE kind[1] = "SS"
  BY <1>1, <1>3, SlackIs
<1>4. CASE kind[1] = "FF"
  BY <1>1, <1>4, SlackIs
<1>5. CASE kind[1] = "SF"
  BY <1>1, <1>5, SlackIs
<1> QED
  BY <1>2, <1>3, <1>4, <1>5

-----------------------------------------------------------------------------
(* The dates of all the tasks, forward and backward *)

\* What the dates of a task are made from, and what they are made of it.
Needs(way, plan, t) ==
  IF way = "forward" THEN {p[1] : p \in Predecessors(plan, t)} ELSE {p[2] : p \in Successors(plan, t)}

Own(way, plan, t, dates, last) ==
  IF way = "forward" THEN Earliest(plan, t, dates) ELSE Latest(plan, t, dates, last)

\* A pass over the tasks, one after the other.
Passes(dates, way, plan, order, last) ==
  dates = [n \in 0 .. Len(order) |->
             IF n = 0 THEN << >>
             ELSE With(dates[n - 1], order[n], Own(way, plan, order[n], dates[n - 1], last))]

LEMMA OwnIs ==
  ASSUME TaskTypeOK, NEW plan \in Plans, NEW t \in Dated(plan), NEW way \in {"forward", "backward"}, NEW last \in Int,
         NEW dates, \A u \in Needs(way, plan, t) : dates[u] \in Int \X Int
  PROVE  Own(way, plan, t, dates, last) \in Int \X Int
<1>1. CASE way = "forward"
  <2>1. \A p \in Predecessors(plan, t) : dates[p[1]] \in Int \X Int
    BY <1>1 DEF Needs
  <2> QED
    BY <1>1, <2>1, EarliestIs DEF Own
<1>2. CASE way = "backward"
  <2>1. \A p \in Successors(plan, t) : dates[p[2]] \in Int \X Int
    BY <1>2 DEF Needs
  <2> QED
    BY <1>2, <2>1, LatestIs DEF Own
<1> QED
  BY <1>1, <1>2

LEMMA OwnNeeds ==
  ASSUME NEW plan, NEW t, NEW way \in {"forward", "backward"}, NEW last, NEW dates, NEW other,
         \A u \in Needs(way, plan, t) : dates[u] = other[u]
  PROVE  Own(way, plan, t, dates, last) = Own(way, plan, t, other, last)
<1>1. CASE way = "forward"
  <2>1. \A type : \A p \in Of(Predecessors(plan, t), type) : dates[p[1]] = other[p[1]]
    BY <1>1 DEF Needs, Of
  <2> DEFINE pairs == Predecessors(plan, t)
  <2>2. /\ {dates[p[1]][2] + 1 + Lag(p) : p \in Of(pairs, "FS")} = {other[p[1]][2] + 1 + Lag(p) : p \in Of(pairs, "FS")}
        /\ {dates[p[1]][1] + Lag(p) : p \in Of(pairs, "SS")} = {other[p[1]][1] + Lag(p) : p \in Of(pairs, "SS")}
        /\ {dates[p[1]][2] + Lag(p) : p \in Of(pairs, "FF")} = {other[p[1]][2] + Lag(p) : p \in Of(pairs, "FF")}
        /\ {dates[p[1]][1] + Lag(p) : p \in Of(pairs, "SF")} = {other[p[1]][1] + Lag(p) : p \in Of(pairs, "SF")}
    BY <2>1
  <2>3. Earliest(plan, t, dates) = Earliest(plan, t, other)
    BY <2>2 DEF Earliest
  <2> QED
    BY <1>1, <2>3 DEF Own
<1>2. CASE way = "backward"
  <2>1. \A type : \A p \in Of(Successors(plan, t), type) : dates[p[2]] = other[p[2]]
    BY <1>2 DEF Needs, Of
  <2> DEFINE pairs == Successors(plan, t)
  <2>2. /\ {DayBefore(dates[p[2]][1], Lag(p)) : p \in Of(pairs, "FS")} = {DayBefore(other[p[2]][1], Lag(p)) : p \in Of(pairs, "FS")}
        /\ {dates[p[2]][2] - Lag(p) : p \in Of(pairs, "FF")} = {other[p[2]][2] - Lag(p) : p \in Of(pairs, "FF")}
        /\ {dates[p[2]][1] - Lag(p) : p \in Of(pairs, "SS")} = {other[p[2]][1] - Lag(p) : p \in Of(pairs, "SS")}
        /\ {dates[p[2]][2] - Lag(p) : p \in Of(pairs, "SF")} = {other[p[2]][2] - Lag(p) : p \in Of(pairs, "SF")}
    BY <2>1
  <2>3. Latest(plan, t, dates, last) = Latest(plan, t, other, last)
    BY <2>2 DEF Latest
  <2> QED
    BY <1>2, <2>3 DEF Own
<1> QED
  BY <1>1, <1>2

\* What the dates may be after n tasks.
DatesOK(way, plan, order, last, n) ==
  {dates \in [{order[i] : i \in 1 .. n} -> Int \X Int] :
     \A i \in 1 .. n : dates[order[i]] = Own(way, plan, order[i], dates, last)}

\* In this order each task finds what it needs.
Suits(way, plan, order) ==
  /\ order \in Seq(Dated(plan)) /\ Len(order) \in Nat /\ Once(order) /\ On(order) = Dated(plan)
  /\ \A i \in 1 .. Len(order) : \A u \in Needs(way, plan, order[i]) :
       \E j \in 1 .. Len(order) : j < i /\ order[j] = u

LEMMA OneMoreTask ==
  ASSUME TaskTypeOK, NEW plan \in Plans, NEW way \in {"forward", "backward"}, NEW last \in Int,
         NEW order, Suits(way, plan, order), NEW n \in 1 .. Len(order),
         NEW known \in DatesOK(way, plan, order, last, n - 1)
  PROVE  With(known, order[n], Own(way, plan, order[n], known, last)) \in DatesOK(way, plan, order, last, n)
<1> DEFINE S(k) == {order[i] : i \in 1 .. k}
           own == Own(way, plan, order[n], known, last)
           new == With(known, order[n], own)
<1>1. /\ known \in [S(n - 1) -> Int \X Int]
      /\ \A i \in 1 .. n - 1 : known[order[i]] = Own(way, plan, order[i], known, last)
  BY DEF DatesOK
<1>2. /\ n \in Nat /\ Len(order) \in Nat /\ n <= Len(order)
      /\ \A i \in 1 .. Len(order) : order[i] \in Dated(plan)
      /\ Once(order)
  <2>1. order \in Seq(Dated(plan)) /\ Len(order) \in Nat /\ Once(order)
    BY DEF Suits
  <2> QED
    BY <2>1, ElementOfSeq
<1>3. \A i \in 1 .. n : i = n \/ i \in 1 .. n - 1
  BY <1>2
<1>4. \A i \in 1 .. n - 1 : i \in 1 .. n /\ i \in 1 .. Len(order) /\ i # n
  BY <1>2
<1>5. S(n) = S(n - 1) \cup {order[n]} /\ order[n] \notin S(n - 1)
  <2>1. \A i \in 1 .. n - 1 : order[i] # order[n]
    BY <1>2, <1>4 DEF Once
  <2>2. n \in 1 .. n
    BY <1>2
  <2> QED
    BY <1>3, <1>4, <2>1, <2>2
<1>6. ASSUME NEW i \in 1 .. n
      PROVE  \A u \in Needs(way, plan, order[i]) : u \in S(n - 1)
  <2> SUFFICES ASSUME NEW u \in Needs(way, plan, order[i]) PROVE u \in S(n - 1)
    OBVIOUS
  <2>1. i \in 1 .. Len(order)
    BY <1>2
  <2>2. PICK j \in 1 .. Len(order) : j < i /\ order[j] = u
    BY <2>1 DEF Suits
  <2>3. j \in 1 .. n - 1
    BY <1>2, <2>2
  <2> QED
    BY <2>2, <2>3
<1> HIDE DEF S
<1>7. own \in Int \X Int
  <2>1. n \in 1 .. n /\ n \in 1 .. Len(order)
    BY <1>2
  <2>2. \A u \in Needs(way, plan, order[n]) : u \in S(n - 1)
    BY <1>6, <2>1
  <2>3. \A u \in Needs(way, plan, order[n]) : known[u] \in Int \X Int
    BY <1>1, <2>2
  <2> QED
    BY <1>2, <2>1, <2>3, OwnIs
<1>8. /\ new \in [S(n) -> Int \X Int] /\ new[order[n]] = own
      /\ \A u \in S(n - 1) : new[u] = known[u]
  BY <1>1, <1>5, <1>7 DEF With
<1> HIDE DEF new
<1>9. ASSUME NEW i \in 1 .. n
      PROVE  new[order[i]] = Own(way, plan, order[i], new, last)
  <2>1. \A u \in Needs(way, plan, order[i]) : known[u] = new[u]
    BY <1>6, <1>8
  <2>2. Own(way, plan, order[i], known, last) = Own(way, plan, order[i], new, last)
    BY <2>1, OwnNeeds
  <2>3. CASE i = n
    BY <1>8, <2>2, <2>3
  <2>4. CASE i # n
    <3>1. i \in 1 .. n - 1 /\ order[i] \in S(n - 1)
      BY <1>3, <2>4 DEF S
    <3> QED
      BY <1>1, <1>8, <2>2, <3>1
  <2> QED
    BY <2>3, <2>4
<1>10. new \in DatesOK(way, plan, order, last, n)
  BY <1>8, <1>9 DEF DatesOK, S
<1> QED
  BY <1>10 DEF new

\* A pass gives each task the dates that those of the others ask for.
LEMMA PassIs ==
  ASSUME TaskTypeOK, NEW plan \in Plans, NEW way \in {"forward", "backward"}, NEW last \in Int,
         NEW order, Suits(way, plan, order)
  PROVE  /\ \E dates : Passes(dates, way, plan, order, last)
         /\ \A dates : Passes(dates, way, plan, order, last) =>
              /\ dates[Len(order)] \in [Dated(plan) -> Int \X Int]
              /\ \A t \in Dated(plan) :
                   dates[Len(order)][t] = Own(way, plan, t, dates[Len(order)], last)
<1> DEFINE turns == Len(order)
           may == [n \in 0 .. turns |-> DatesOK(way, plan, order, last, n)]
           h == [n \in 1 .. turns |->
                   [s \in may[n - 1] |-> With(s, order[n], Own(way, plan, order[n], s, last))]]
<1>1. turns \in Nat
  BY DEF Suits
<1>2. << >> \in may[0]
  <2>1. << >> \in [{} -> Int \X Int] /\ {order[i] : i \in 1 .. 0} = {}
    OBVIOUS
  <2>2. << >> \in DatesOK(way, plan, order, last, 0)
    BY <2>1 DEF DatesOK
  <2> QED
    BY <1>1, <2>2
<1>3. \A n \in 1 .. turns : \A s \in may[n - 1] :
        /\ h[n][s] = With(s, order[n], Own(way, plan, order[n], s, last))
        /\ h[n][s] \in may[n]
  <2> SUFFICES ASSUME NEW n \in 1 .. turns, NEW s \in DatesOK(way, plan, order, last, n - 1)
               PROVE  With(s, order[n], Own(way, plan, order[n], s, last)) \in DatesOK(way, plan, order, last, n)
    BY <1>1
  <2> QED
    BY OneMoreTask
<1> HIDE DEF turns, may, h
<1>4. \E dates : Passes(dates, way, plan, order, last)
  <2>1. PICK r : IsLoop(r, turns, << >>, h) /\ \A n \in 0 .. turns : r[n] \in may[n]
    <3>1. \A n \in 1 .. turns : \A s \in may[n - 1] : h[n][s] \in may[n]
      BY <1>3
    <3> QED
      BY <1>1, <1>2, <3>1, LoopIs
  <2>2. \A n \in 0 .. turns : n # 0 => n - 1 \in 0 .. turns /\ n \in 1 .. turns
    BY <1>1
  <2>3. \A n \in 0 .. turns : n # 0 =>
          h[n][r[n - 1]] = With(r[n - 1], order[n], Own(way, plan, order[n], r[n - 1], last))
    BY <1>3, <2>1, <2>2
  <2>4. r = [n \in 0 .. turns |->
               IF n = 0 THEN << >>
               ELSE With(r[n - 1], order[n], Own(way, plan, order[n], r[n - 1], last))]
    BY <2>1, <2>3 DEF IsLoop
  <2>5. Passes(r, way, plan, order, last)
    BY <2>4 DEF Passes, turns
  <2> QED
    BY <2>5
<1>5. ASSUME NEW dates, Passes(dates, way, plan, order, last)
      PROVE  dates[turns] \in DatesOK(way, plan, order, last, turns)
  <2> DEFINE good == {n \in 0 .. turns : dates[n] \in may[n]}
  <2>0. dates = [n \in 0 .. turns |->
                   IF n = 0 THEN << >>
                   ELSE With(dates[n - 1], order[n], Own(way, plan, order[n], dates[n - 1], last))]
    BY <1>5 DEF Passes, turns
  <2>1. 0 \in good
    <3>1. 0 \in 0 .. turns
      BY <1>1
    <3> QED
      BY <1>2, <2>0, <3>1
  <2>2. ASSUME NEW n \in 1 .. turns, n - 1 \in good PROVE n \in good
    <3>1. n \in 0 .. turns /\ n # 0
      BY <1>1
    <3>2. dates[n] = With(dates[n - 1], order[n], Own(way, plan, order[n], dates[n - 1], last))
      BY <2>0, <3>1
    <3> QED
      BY <1>3, <2>2, <3>1, <3>2
  <2> HIDE DEF good
  <2>3. turns \in good
    BY <1>1, <2>1, <2>2, EveryTurn
  <2> QED
    BY <1>1, <2>3 DEF good, may
<1>6. ASSUME NEW dates, Passes(dates, way, plan, order, last)
      PROVE  /\ dates[turns] \in [Dated(plan) -> Int \X Int]
             /\ \A t \in Dated(plan) : dates[turns][t] = Own(way, plan, t, dates[turns], last)
  <2>1. dates[turns] \in DatesOK(way, plan, order, last, turns)
    BY <1>5, <1>6
  <2>2. {order[i] : i \in 1 .. turns} = Dated(plan)
    BY DEF Suits, On, turns
  <2>3. \A t \in Dated(plan) : \E i \in 1 .. turns : order[i] = t
    BY <2>2
  <2> QED
    BY <2>1, <2>2, <2>3 DEF DatesOK
<1> QED
  BY <1>4, <1>6 DEF turns

LEMMA PassExists ==
  ASSUME TaskTypeOK, NEW plan \in Plans, NEW way \in {"forward", "backward"}, NEW last \in Int,
         NEW order, Suits(way, plan, order)
  PROVE  \E dates : Passes(dates, way, plan, order, last)
BY PassIs

\* The schedules of a plan that keep its durations and dependencies.
Kept(plan) ==
  {dates \in [Dated(plan) -> Int \X Int] : \A t \in Dated(plan) :
     /\ dates[t][2] - dates[t][1] = Duration(plan, t)
     /\ \A p \in Predecessors(plan, t) : Slack(links[p], dates[p[1]], dates[t]) >= 0}

\* A dependency between two dated tasks, seen from both.
LEMMA LinkBetween ==
  ASSUME NEW plan, NEW t \in Dated(plan)
  PROVE  /\ \A p \in Predecessors(plan, t) :
              p[1] \in Dated(plan) /\ p[2] = t /\ p \in DOMAIN links /\ p \in Successors(plan, p[1])
         /\ \A p \in Successors(plan, t) :
              p[2] \in Dated(plan) /\ p[1] = t /\ p \in DOMAIN links /\ p \in Predecessors(plan, p[2])
BY DEF Predecessors, Successors

LEMMA OrderSuits ==
  ASSUME NEW plan, Ordered(plan)
  PROVE  /\ Suits("forward", plan, TopologicalOrder(plan))
         /\ Suits("backward", plan, Reverse(TopologicalOrder(plan)))
<1> DEFINE order == TopologicalOrder(plan)
           back  == Reverse(order)
           len   == Len(order)
<1>1. /\ order \in Seq(Dated(plan)) /\ len \in Nat
      /\ Once(order) /\ InOrder(plan, order) /\ On(order) = Dated(plan)
  BY OrderedIfAcyclic
<1> HIDE DEF order
<1>2. \A i \in 1 .. len : order[i] \in Dated(plan)
  BY <1>1, ElementOfSeq
<1>3. Suits("forward", plan, order)
  <2>1. \A i \in 1 .. Len(order) : \A u \in Needs("forward", plan, order[i]) :
          \E j \in 1 .. Len(order) : j < i /\ order[j] = u
    BY <1>1 DEF InOrder, Needs
  <2> QED
    BY <1>1, <2>1 DEF Suits
<1>4. back = [i \in 1 .. len |-> order[(len - i) + 1]]
  BY DEF Reverse
<1>5. \A i \in 1 .. len : (len - i) + 1 \in 1 .. len /\ (len - ((len - i) + 1)) + 1 = i
  BY <1>1
<1>6. back \in Seq(Dated(plan)) /\ Len(back) = len
  <2>1. back \in [1 .. len -> Dated(plan)]
    BY <1>2, <1>4, <1>5
  <2> QED
    BY <1>1, <2>1
<1>7. \A i \in 1 .. len : back[i] = order[(len - i) + 1]
  BY <1>4
<1>8. \A i \in 1 .. len : order[i] = back[(len - i) + 1]
  BY <1>5, <1>7
<1> HIDE DEF back
<1>9. On(back) = Dated(plan)
  <2>1. \A i \in 1 .. len : back[i] \in On(order)
    BY <1>5, <1>7 DEF On
  <2>2. \A i \in 1 .. len : order[i] \in On(back)
    BY <1>5, <1>6, <1>8 DEF On
  <2>3. On(back) = {back[i] : i \in 1 .. len} /\ On(order) = {order[i] : i \in 1 .. len}
    BY <1>6 DEF On
  <2>4. On(back) = On(order)
    BY <2>1, <2>2, <2>3
  <2> QED
    BY <1>1, <2>4
<1>10. Once(back)
  <2> SUFFICES ASSUME NEW i \in 1 .. len, NEW j \in 1 .. len, back[i] = back[j]
               PROVE  i = j
    BY <1>6 DEF Once
  <2>1. PICK x, y \in 1 .. len : x = (len - i) + 1 /\ y = (len - j) + 1
    BY <1>5
  <2>2. order[x] = order[y]
    BY <1>7, <2>1
  <2>3. x = y
    BY <1>1, <2>2 DEF Once
  <2> QED
    BY <1>1, <2>1, <2>3
<1>11. ASSUME NEW i \in 1 .. len, NEW u \in Needs("backward", plan, back[i])
       PROVE  \E j \in 1 .. len : j < i /\ back[j] = u
  <2>1. PICK p \in Successors(plan, back[i]) : u = p[2]
    BY <1>11 DEF Needs
  <2>2. back[i] \in Dated(plan)
    BY <1>6, ElementOfSeq
  <2>3. u \in Dated(plan) /\ p[1] = back[i] /\ p \in Predecessors(plan, u)
    BY <2>1, <2>2, LinkBetween
  <2>4. PICK k \in 1 .. len : order[k] = u
    BY <1>1, <2>3 DEF On
  <2>5. PICK j \in 1 .. len : j < k /\ order[j] = back[i]
    BY <1>1, <2>3, <2>4 DEF InOrder
  <2>6. j = (len - i) + 1
    BY <1>1, <1>5, <1>7, <2>5 DEF Once
  <2>7. (len - k) + 1 < i
    BY <1>1, <2>5, <2>6
  <2> QED
    BY <1>5, <1>8, <2>4, <2>7
<1>12. Suits("backward", plan, back)
  BY <1>1, <1>6, <1>9, <1>10, <1>11 DEF Suits
<1> QED
  BY <1>3, <1>12 DEF back, order

\* Where each task comes after those it needs, what holds of a task when it holds of
\* them holds of all.
LEMMA OneAfterAnother ==
  ASSUME NEW plan, NEW way \in {"forward", "backward"}, NEW order, Suits(way, plan, order), NEW good,
         \A t \in Dated(plan) : (\A u \in Needs(way, plan, t) : u \in good) => t \in good
  PROVE  \A t \in Dated(plan) : t \in good
<1>1. order \in Seq(Dated(plan)) /\ Len(order) \in Nat /\ On(order) = Dated(plan)
  BY DEF Suits
<1> DEFINE so == {n \in 0 .. Len(order) : \A i \in 1 .. n : order[i] \in good}
<1>2. 0 \in so
  BY <1>1
<1>3. ASSUME NEW n \in 1 .. Len(order), n - 1 \in so
      PROVE  n \in so
  <2>1. \A i \in 1 .. n : i = n \/ i \in 1 .. n - 1
    BY <1>1
  <2>2. order[n] \in good
    <3>1. ASSUME NEW u \in Needs(way, plan, order[n])
          PROVE  u \in good
      <4>1. PICK j \in 1 .. Len(order) : j < n /\ order[j] = u
        BY DEF Suits
      <4>2. j \in 1 .. n - 1
        BY <1>1, <4>1
      <4> QED
        BY <1>3, <4>1, <4>2
    <3>2. order[n] \in Dated(plan)
      BY <1>1, ElementOfSeq
    <3> QED
      BY <3>1, <3>2
  <2> QED
    BY <1>1, <1>3, <2>1, <2>2
<1> HIDE DEF so
<1>4. Len(order) \in so
  <2>1. \A n \in 0 .. Len(order) : n \in so
    BY <1>1, <1>2, <1>3, EveryTurn
  <2> QED
    BY <1>1, <2>1
<1> QED
  BY <1>1, <1>4 DEF so, On

\* The early dates are a schedule, and no schedule that starts no task before its
\* planned date starts one sooner.
LEMMA ForwardIs ==
  ASSUME TaskTypeOK, NEW plan \in Plans, Ordered(plan)
  PROVE  LET early == Forward(plan) IN
         /\ early \in Kept(plan)
         /\ \A t \in Dated(plan) :
              /\ early[t][1] >= plan[t][1]
              /\ \/ early[t][1] = plan[t][1]
                 \/ \E p \in Predecessors(plan, t) : Slack(links[p], early[p[1]], early[t]) = 0
         /\ \A dates \in Kept(plan) : (\A t \in Dated(plan) : dates[t][1] >= plan[t][1]) =>
              \A t \in Dated(plan) : early[t][1] <= dates[t][1]
<1> DEFINE order == TopologicalOrder(plan)
           pass[n \in 0 .. Len(order)] ==
             IF n = 0 THEN << >>
             ELSE LET known == pass[n - 1] IN With(known, order[n], Earliest(plan, order[n], known))
           early == pass[Len(order)]
           D == Dated(plan)
           last == 0
<1>1. Suits("forward", plan, order) /\ last \in Int
  BY OrderSuits
<1>2. Forward(plan) = early
  BY DEF Forward
<1> HIDE DEF order, last
<1>3. Passes(pass, "forward", plan, order, last)
  <2>1. PICK r : Passes(r, "forward", plan, order, last)
    BY <1>1, PassExists
  <2>2. r = [n \in 0 .. Len(order) |->
               IF n = 0 THEN << >>
               ELSE LET known == r[n - 1] IN With(known, order[n], Earliest(plan, order[n], known))]
    BY <2>1 DEF Passes, Own
  <2>3. pass = [n \in 0 .. Len(order) |->
                  IF n = 0 THEN << >>
                  ELSE LET known == pass[n - 1] IN With(known, order[n], Earliest(plan, order[n], known))]
    BY <2>2
  <2> HIDE DEF pass
  <2> QED
    BY <2>3 DEF Passes, Own
<1> HIDE DEF pass
<1>4. early \in [D -> Int \X Int] /\ \A t \in D : early[t] = Earliest(plan, t, early)
  <2>0. "forward" \in {"forward", "backward"}
    OBVIOUS
  <2>1. \A d : Passes(d, "forward", plan, order, last) =>
          /\ d[Len(order)] \in [Dated(plan) -> Int \X Int]
          /\ \A t \in Dated(plan) : d[Len(order)][t] = Own("forward", plan, t, d[Len(order)], last)
    BY <1>1, <2>0, PassIs
  <2> QED
    BY <1>3, <2>1 DEF Own
<1> HIDE DEF early
<1>5. ASSUME NEW t \in D
      PROVE  /\ early[t] \in Int \X Int /\ early[t][2] - early[t][1] = Duration(plan, t)
             /\ early[t][1] >= plan[t][1]
             /\ \A p \in Predecessors(plan, t) : Slack(links[p], early[p[1]], early[t]) >= 0
             /\ \/ early[t][1] = plan[t][1]
                \/ \E p \in Predecessors(plan, t) : Slack(links[p], early[p[1]], early[t]) = 0
  <2>1. \A p \in Predecessors(plan, t) : early[p[1]] \in Int \X Int
    BY <1>4, LinkBetween
  <2> QED
    BY <1>4, <2>1, EarliestIs
<1>6. early \in Kept(plan)
  BY <1>4, <1>5 DEF Kept
<1>7. ASSUME NEW dates \in Kept(plan), \A t \in D : dates[t][1] >= plan[t][1]
      PROVE  \A t \in D : early[t][1] <= dates[t][1]
  <2> DEFINE good == {t \in D : early[t][1] <= dates[t][1]}
  <2>1. /\ dates \in [D -> Int \X Int]
        /\ \A t \in D : /\ dates[t] \in Int \X Int /\ dates[t][2] - dates[t][1] = Duration(plan, t)
                        /\ \A p \in Predecessors(plan, t) : Slack(links[p], dates[p[1]], dates[t]) >= 0
    BY DEF Kept
  <2>2. ASSUME NEW t \in D, \A u \in Needs("forward", plan, t) : u \in good
        PROVE  t \in good
    <3>0. early[t] \in Int \X Int /\ dates[t] \in Int \X Int
      BY <1>5, <2>1
    <3>1. CASE early[t][1] = plan[t][1]
      BY <1>7, <3>0, <3>1
    <3>2. ASSUME NEW p \in Predecessors(plan, t), Slack(links[p], early[p[1]], early[t]) = 0
          PROVE  early[t][1] <= dates[t][1]
      <4>1. p[1] \in D /\ p \in DOMAIN links /\ p[1] \in good
        BY <2>2, LinkBetween DEF Needs
      <4>2. /\ early[p[1]] \in Int \X Int /\ dates[p[1]] \in Int \X Int
            /\ Duration(plan, p[1]) \in Int /\ Duration(plan, t) \in Int
        BY <1>5, <2>1, <4>1, DatesOf
      <4>3. dates[p[1]][1] >= early[p[1]][1] /\ dates[p[1]][2] >= early[p[1]][2]
        BY <1>5, <2>1, <4>1, <4>2
      <4>4. dates[t][2] - dates[t][1] = early[t][2] - early[t][1]
        BY <1>5, <2>1
      <4>5. links[p][1] \in {"FS", "SS", "FF", "SF"} /\ links[p][2] \in Int
        BY <4>1, KindOf DEF Lag
      <4>6. Slack(links[p], dates[p[1]], dates[t]) >= 0
        BY <2>1
      <4>7. dates[t][1] >= early[t][1]
        BY <3>0, <3>2, <4>2, <4>3, <4>4, <4>5, <4>6, SuccessorNoLater
      <4> QED
        BY <3>0, <4>7
    <3> QED
      BY <1>5, <3>1, <3>2
  <2>3. \A t \in D : t \in good
    <3> HIDE DEF good
    <3> QED
      BY <1>1, <2>2, OneAfterAnother
  <2> QED
    BY <2>3
<1> QED
  BY <1>2, <1>5, <1>6, <1>7

\* The end of the project is the last early date.
LEMMA FinishIs ==
  ASSUME TaskTypeOK, NEW plan \in Plans, Ordered(plan), Dated(plan) # {}
  PROVE  /\ ProjectFinish(plan) \in Int
         /\ \A t \in Dated(plan) : Forward(plan)[t][2] <= ProjectFinish(plan)
         /\ \E t \in Dated(plan) : Forward(plan)[t][2] = ProjectFinish(plan)
<1> DEFINE D == Dated(plan)
           early == Forward(plan)
           f == [t \in D |-> early[t][2]]
           all == {f[t] : t \in D}
<1>1. early \in [D -> Int \X Int]
  BY ForwardIs DEF Kept
<1>2. ProjectFinish(plan) = Max(all)
  <2>1. all = {early[t][2] : t \in D}
    OBVIOUS
  <2> HIDE DEF all, f
  <2> QED
    BY <2>1 DEF ProjectFinish
<1> HIDE DEF early
<1>3. IsFiniteSet(all)
  BY DatedIsFinite, FiniteImage
<1>4. all \in SUBSET Int /\ all # {}
  BY <1>1
<1>5. \A t \in D : early[t][2] \in all
  OBVIOUS
<1>6. \A x \in all : \E t \in D : early[t][2] = x
  OBVIOUS
<1> HIDE DEF all
<1>7. Max(all) \in all /\ Max(all) \in Int /\ \A y \in all : y <= Max(all)
  BY <1>3, <1>4, MaxIs
<1> QED
  BY <1>2, <1>5, <1>6, <1>7 DEF early

\* The late dates are a schedule, and no schedule that ends with the project starts
\* a task later.
LEMMA BackwardIs ==
  ASSUME TaskTypeOK, NEW plan \in Plans, Ordered(plan), Dated(plan) # {}
  PROVE  LET late == Backward(plan) IN
         /\ late \in Kept(plan)
         /\ \A t \in Dated(plan) : late[t][2] <= ProjectFinish(plan)
         /\ \A dates \in Kept(plan) : (\A t \in Dated(plan) : dates[t][2] <= ProjectFinish(plan)) =>
              \A t \in Dated(plan) : dates[t][1] <= late[t][1]
<1> DEFINE order == Reverse(TopologicalOrder(plan))
           last  == ProjectFinish(plan)
           pass[n \in 0 .. Len(order)] ==
             IF n = 0 THEN << >>
             ELSE LET known == pass[n - 1] IN With(known, order[n], Latest(plan, order[n], known, last))
           late == pass[Len(order)]
           D == Dated(plan)
<1>1. Suits("backward", plan, order) /\ last \in Int
  BY OrderSuits, FinishIs
<1>2. Backward(plan) = late
  BY DEF Backward
<1> HIDE DEF order, last
<1>3. Passes(pass, "backward", plan, order, last)
  <2>1. PICK r : Passes(r, "backward", plan, order, last)
    BY <1>1, PassExists
  <2>2. r = [n \in 0 .. Len(order) |->
               IF n = 0 THEN << >>
               ELSE LET known == r[n - 1] IN With(known, order[n], Latest(plan, order[n], known, last))]
    BY <2>1 DEF Passes, Own
  <2>3. pass = [n \in 0 .. Len(order) |->
                  IF n = 0 THEN << >>
                  ELSE LET known == pass[n - 1] IN With(known, order[n], Latest(plan, order[n], known, last))]
    BY <2>2
  <2> HIDE DEF pass
  <2> QED
    BY <2>3 DEF Passes, Own
<1> HIDE DEF pass
<1>4. late \in [D -> Int \X Int] /\ \A t \in D : late[t] = Latest(plan, t, late, last)
  <2>0. "backward" \in {"forward", "backward"}
    OBVIOUS
  <2>1. \A d : Passes(d, "backward", plan, order, last) =>
          /\ d[Len(order)] \in [Dated(plan) -> Int \X Int]
          /\ \A t \in Dated(plan) : d[Len(order)][t] = Own("backward", plan, t, d[Len(order)], last)
    BY <1>1, <2>0, PassIs
  <2> QED
    BY <1>3, <2>1 DEF Own
<1> HIDE DEF late
<1>5. ASSUME NEW t \in D
      PROVE  /\ late[t] \in Int \X Int /\ late[t][2] - late[t][1] = Duration(plan, t)
             /\ late[t][2] <= last
             /\ \A p \in Successors(plan, t) : Slack(links[p], late[t], late[p[2]]) >= 0
             /\ \/ late[t][2] = last
                \/ \E p \in Successors(plan, t) : Slack(links[p], late[t], late[p[2]]) = 0
  <2>1. \A p \in Successors(plan, t) : late[p[2]] \in Int \X Int
    BY <1>4, LinkBetween
  <2> QED
    BY <1>1, <1>4, <2>1, LatestIs
<1>6. late \in Kept(plan)
  <2>1. ASSUME NEW t \in D, NEW p \in Predecessors(plan, t)
        PROVE  Slack(links[p], late[p[1]], late[t]) >= 0
    <3>1. p[1] \in D /\ p[2] = t /\ p \in Successors(plan, p[1])
      BY LinkBetween
    <3> QED
      BY <1>5, <3>1
  <2> QED
    BY <1>4, <1>5, <2>1 DEF Kept
<1>7. ASSUME NEW dates \in Kept(plan), \A t \in D : dates[t][2] <= last
      PROVE  \A t \in D : dates[t][1] <= late[t][1]
  <2> DEFINE good == {t \in D : dates[t][1] <= late[t][1]}
  <2>1. /\ dates \in [D -> Int \X Int]
        /\ \A t \in D : /\ dates[t] \in Int \X Int /\ dates[t][2] - dates[t][1] = Duration(plan, t)
                        /\ \A p \in Predecessors(plan, t) : Slack(links[p], dates[p[1]], dates[t]) >= 0
    BY DEF Kept
  <2>2. ASSUME NEW t \in D, \A u \in Needs("backward", plan, t) : u \in good
        PROVE  t \in good
    <3>0. late[t] \in Int \X Int /\ dates[t] \in Int \X Int /\ Duration(plan, t) \in Int
      BY <1>5, <2>1, DatesOf
    <3>1. CASE late[t][2] = last
      BY <1>1, <1>5, <1>7, <2>1, <3>0, <3>1
    <3>2. ASSUME NEW p \in Successors(plan, t), Slack(links[p], late[t], late[p[2]]) = 0
          PROVE  dates[t][1] <= late[t][1]
      <4>1. p[2] \in D /\ p[1] = t /\ p \in DOMAIN links /\ p \in Predecessors(plan, p[2]) /\ p[2] \in good
        BY <2>2, LinkBetween DEF Needs
      <4>2. /\ late[p[2]] \in Int \X Int /\ dates[p[2]] \in Int \X Int
            /\ Duration(plan, p[2]) \in Int
        BY <1>5, <2>1, <4>1, DatesOf
      <4>3. dates[p[2]][1] <= late[p[2]][1] /\ dates[p[2]][2] <= late[p[2]][2]
        BY <1>5, <2>1, <4>1, <4>2
      <4>4. dates[t][2] - dates[t][1] = late[t][2] - late[t][1]
        BY <1>5, <2>1
      <4>5. links[p][1] \in {"FS", "SS", "FF", "SF"} /\ links[p][2] \in Int
        BY <4>1, KindOf DEF Lag
      <4>6. Slack(links[p], dates[t], dates[p[2]]) >= 0
        BY <2>1, <4>1
      <4> QED
        BY <3>0, <3>2, <4>2, <4>3, <4>4, <4>5, <4>6, PredecessorNoSooner
    <3> QED
      BY <1>5, <3>1, <3>2
  <2>3. \A t \in D : t \in good
    <3> HIDE DEF good
    <3> QED
      BY <1>1, <2>2, OneAfterAnother
  <2> QED
    BY <2>3
<1> QED
  BY <1>2, <1>5, <1>6, <1>7 DEF last

\* A plan where a task has other dates of the same length.
Moved(plan, t, start) == [plan EXCEPT ![t] = <<start, start + Duration(plan, t)>>]

LEMMA MovedIs ==
  ASSUME TaskTypeOK, NEW plan \in Plans, NEW t \in Dated(plan), NEW start \in Int
  PROVE  LET new == Moved(plan, t, start) IN
         /\ new \in Plans /\ Dated(new) = Dated(plan) /\ Kept(new) = Kept(plan)
         /\ Ordered(new) <=> Ordered(plan)
         /\ new[t][1] = start /\ \A u \in Tasks : u # t => new[u] = plan[u]
<1> DEFINE own == <<start, start + Duration(plan, t)>>
           new == Moved(plan, t, start)
<1>1. t \in Tasks /\ Duration(plan, t) \in Int /\ plan[t] \in Int \X Int /\ plan[t] \notin {Undated, Absent}
  BY DatesOf DEF Dated
<1>2. own \in Int \X Int /\ own[1] = start /\ own[2] - own[1] = Duration(plan, t)
  BY <1>1
<1>3. own \notin {Undated, Absent}
  BY <1>2, DependenciesAssumption
<1> HIDE DEF own
<1>4. new = [plan EXCEPT ![t] = own]
  BY DEF own, Moved
<1> HIDE DEF new
<1>5. new \in Plans /\ new[t] = own /\ \A u \in Tasks : u # t => new[u] = plan[u]
  BY <1>1, <1>2, <1>4 DEF Plans
<1>6. Dated(new) = Dated(plan)
  BY <1>1, <1>3, <1>5 DEF Dated
<1>7. \A u \in Dated(plan) : Duration(new, u) = Duration(plan, u)
  <2>1. \A u \in Tasks : u # t => Duration(new, u) = Duration(plan, u)
    BY <1>5 DEF Duration
  <2>2. Duration(new, t) = Duration(plan, t)
    <3>1. Duration(new, t) = own[2] - own[1]
      BY <1>5 DEF Duration
    <3> QED
      BY <1>2, <3>1
  <2> QED
    BY <2>1, <2>2 DEF Dated
<1>8. \A u : Predecessors(new, u) = Predecessors(plan, u)
  BY <1>6 DEF Predecessors
<1>9. Kept(new) = Kept(plan)
  BY <1>6, <1>7, <1>8 DEF Kept
<1>10. Ordered(new) <=> Ordered(plan)
  BY <1>6, OrderedIfAcyclic
<1> QED
  BY <1>2, <1>5, <1>6, <1>9, <1>10 DEF new

LEMMA PlannedIsPlan ==
  ASSUME TaskTypeOK
  PROVE  planned \in Plans
BY DependenciesAssumption DEF TaskTypeOK, Plans

LEMMA EarliestDates ==
  ASSUME TaskTypeOK, Ordered(planned)
  PROVE  DatesAreEarliest
<1>1. planned \in Plans
  BY PlannedIsPlan
<1> DEFINE early == Forward(planned)
<1>2. early \in Kept(planned)
      /\ \A t \in Dated(planned) :
           /\ early[t][1] >= planned[t][1]
           /\ \/ early[t][1] = planned[t][1]
              \/ \E p \in Predecessors(planned, t) : Slack(links[p], early[p[1]], early[t]) = 0
  BY <1>1, ForwardIs
<1> HIDE DEF early
<1>3. \A t \in Dated(planned) : \A p \in Predecessors(planned, t) : Slack(links[p], early[p[1]], early[t]) >= 0
  BY <1>2 DEF Kept
<1> QED
  BY <1>2, <1>3 DEF DatesAreEarliest, early

\* A task that starts so many days after its earliest date, where no other date changes.
LEMMA DelayedIs ==
  ASSUME TaskTypeOK, Ordered(planned), Dated(planned) # {}, NEW t \in Dated(planned), NEW days \in Nat
  PROVE  LET new == Delayed(t, days) IN
         /\ new \in Plans /\ Dated(new) = Dated(planned) /\ Kept(new) = Kept(planned) /\ Ordered(new)
         /\ new[t][1] = Forward(planned)[t][1] + days
         /\ \A u \in Tasks : u # t => new[u] = planned[u]
         /\ \A u \in Dated(planned) : new[u][1] >= planned[u][1]
         /\ Forward(new) \in Kept(planned)
         /\ \A u \in Dated(planned) : Forward(new)[u][1] >= new[u][1]
<1> DEFINE new   == Delayed(t, days)
           start == Forward(planned)[t][1] + days
<1>1. planned \in Plans
  BY PlannedIsPlan
<1>2. Forward(planned)[t] \in Int \X Int /\ Forward(planned)[t][1] >= planned[t][1]
  <2>1. Forward(planned) \in Kept(planned) /\ Forward(planned)[t][1] >= planned[t][1]
    BY <1>1, ForwardIs
  <2> QED
    BY <2>1 DEF Kept
<1>3. start \in Int
  BY <1>2
<1>4. new = Moved(planned, t, start)
  BY DEF Delayed, Moved
<1> HIDE DEF new, start
<1>5. /\ new \in Plans /\ Dated(new) = Dated(planned) /\ Kept(new) = Kept(planned) /\ Ordered(new)
      /\ new[t][1] = start /\ \A u \in Tasks : u # t => new[u] = planned[u]
  <2>1. /\ new \in Plans /\ Dated(new) = Dated(planned) /\ Kept(new) = Kept(planned)
        /\ Ordered(new) <=> Ordered(planned)
        /\ new[t][1] = start /\ \A u \in Tasks : u # t => new[u] = planned[u]
    BY <1>1, <1>3, <1>4, MovedIs
  <2> QED
    BY <2>1
<1>6. ASSUME NEW u \in Dated(planned)
      PROVE  new[u][1] >= planned[u][1]
  <2>1. planned[u] \in Int \X Int /\ u \in Tasks
    BY <1>1, DatesOf DEF Dated
  <2>2. CASE u = t
    BY <1>2, <1>5, <2>1, <2>2 DEF start
  <2>3. CASE u # t
    <3>1. new[u] = planned[u] /\ planned[u][1] \in Int
      BY <1>5, <2>1, <2>3
    <3> QED
      BY <3>1
  <2> QED
    BY <2>2, <2>3
<1>7. Forward(new) \in Kept(planned) /\ \A u \in Dated(planned) : Forward(new)[u][1] >= new[u][1]
  BY <1>5, ForwardIs
<1> QED
  BY <1>5, <1>6, <1>7 DEF new, start

LEMMA FloatIs ==
  ASSUME TaskTypeOK, Ordered(planned), Dated(planned) # {}
  PROVE  FloatIsSlack /\ Critical(planned) # {}
<1> DEFINE D     == Dated(planned)
           early == Forward(planned)
           late  == Backward(planned)
           last  == ProjectFinish(planned)
           float == TotalFloat(planned)
<1>1. planned \in Plans
  BY PlannedIsPlan
<1>2. /\ early \in Kept(planned)
      /\ \A t \in D : early[t][1] >= planned[t][1]
      /\ \A dates \in Kept(planned) : (\A t \in D : dates[t][1] >= planned[t][1]) =>
           \A t \in D : early[t][1] <= dates[t][1]
  BY <1>1, ForwardIs
<1>3. /\ late \in Kept(planned)
      /\ \A t \in D : late[t][2] <= last
      /\ \A dates \in Kept(planned) : (\A t \in D : dates[t][2] <= last) =>
           \A t \in D : dates[t][1] <= late[t][1]
  BY <1>1, BackwardIs
<1>4. last \in Int /\ (\A t \in D : early[t][2] <= last) /\ \E t \in D : early[t][2] = last
  BY <1>1, FinishIs
<1>5. ASSUME NEW t \in D, NEW dates \in Kept(planned)
      PROVE  /\ dates[t][1] \in Int /\ dates[t][2] \in Int /\ Duration(planned, t) \in Int
             /\ dates[t][2] = dates[t][1] + Duration(planned, t)
  <2>1. dates[t] \in Int \X Int /\ dates[t][2] - dates[t][1] = Duration(planned, t) /\ Duration(planned, t) \in Int
    BY <1>1, DatesOf DEF Kept
  <2> QED
    BY <2>1
<1>6. \A t \in D : float[t] = late[t][1] - early[t][1]
  BY DEF TotalFloat
<1>7. \A t \in D : early[t][1] <= late[t][1]
  BY <1>2, <1>3, <1>4
<1> HIDE DEF early, late, last, float
<1>8. ASSUME NEW t \in D
      PROVE  float[t] \in Nat
  BY <1>2, <1>3, <1>5, <1>6, <1>7
<1>9. ASSUME NEW t \in D, NEW days \in Nat, NEW new, new = Delayed(t, days)
      PROVE  /\ ProjectFinish(new) \in Int
             /\ \A u \in D : Forward(new)[u][2] <= ProjectFinish(new)
             /\ \E u \in D : Forward(new)[u][2] = ProjectFinish(new)
  <2>1. new \in Plans /\ Dated(new) = D /\ Ordered(new)
    BY <1>9, DelayedIs
  <2> QED
    BY <2>1, FinishIs
<1>10. ASSUME NEW t \in D
       PROVE  ProjectFinish(Delayed(t, float[t])) = last
  <2> DEFINE new == Delayed(t, float[t])
  <2>1. /\ new \in Plans /\ Dated(new) = D /\ Kept(new) = Kept(planned) /\ Ordered(new)
        /\ new[t][1] = early[t][1] + float[t]
        /\ \A u \in Tasks : u # t => new[u] = planned[u]
        /\ \A u \in D : new[u][1] >= planned[u][1]
        /\ Forward(new) \in Kept(planned)
        /\ \A u \in D : Forward(new)[u][1] >= new[u][1]
    BY <1>8, DelayedIs DEF early
  <2>2. /\ ProjectFinish(new) \in Int
        /\ \A u \in D : Forward(new)[u][2] <= ProjectFinish(new)
        /\ \E u \in D : Forward(new)[u][2] = ProjectFinish(new)
    BY <1>8, <1>9
  <2> HIDE DEF new
  <2>3. ASSUME NEW u \in D
        PROVE  late[u][1] >= new[u][1]
    <3>1. CASE u = t
      BY <1>2, <1>3, <1>5, <1>6, <2>1, <3>1
    <3>2. CASE u # t
      <4>1. new[u] = planned[u] /\ planned[u] \in Int \X Int
        BY <1>1, <2>1, <3>2, DatesOf DEF Dated
      <4> QED
        BY <1>2, <1>3, <1>5, <1>7, <4>1
    <3> QED
      BY <3>1, <3>2
  <2>4. \A u \in D : Forward(new)[u][1] <= late[u][1]
    <3>1. \A dates \in Kept(new) : (\A u \in D : dates[u][1] >= new[u][1]) =>
            \A u \in D : Forward(new)[u][1] <= dates[u][1]
      BY <2>1, ForwardIs
    <3> QED
      BY <1>3, <2>1, <2>3, <3>1
  <2>5. \A u \in D : Forward(new)[u][1] >= early[u][1]
    <3>1. \A u \in D : Forward(new)[u][1] >= planned[u][1]
      <4>1. ASSUME NEW u \in D
            PROVE  Forward(new)[u][1] >= planned[u][1]
        <5>1. new[u] \in Int \X Int /\ planned[u] \in Int \X Int /\ Forward(new)[u][1] \in Int
          BY <1>1, <1>5, <2>1, DatesOf
        <5> QED
          BY <2>1, <5>1
      <4> QED
        BY <4>1
    <3>2. \A u \in D : early[u][1] <= Forward(new)[u][1]
      BY <1>2, <2>1, <3>1
    <3> QED
      BY <1>2, <1>5, <2>1, <3>2
  <2>6. ProjectFinish(new) <= last
    <3>1. PICK u \in D : Forward(new)[u][2] = ProjectFinish(new)
      BY <2>2
    <3>2. Forward(new)[u][2] <= late[u][2]
      BY <1>3, <1>5, <2>1, <2>4
    <3> QED
      BY <1>3, <1>4, <1>5, <2>1, <2>2, <3>1, <3>2
  <2>7. ProjectFinish(new) >= last
    <3>1. PICK u \in D : early[u][2] = last
      BY <1>4
    <3>2. early[u][2] <= Forward(new)[u][2]
      BY <1>2, <1>5, <2>1, <2>5
    <3> QED
      BY <1>2, <1>4, <1>5, <2>1, <2>2, <3>1, <3>2
  <2> QED
    BY <1>4, <2>2, <2>6, <2>7 DEF new
<1>11. ASSUME NEW t \in D
       PROVE  ProjectFinish(Delayed(t, float[t] + 1)) > last
  <2> DEFINE new == Delayed(t, float[t] + 1)
  <2>0. float[t] + 1 \in Nat
    BY <1>8
  <2>1. /\ new[t][1] = early[t][1] + (float[t] + 1)
        /\ Forward(new) \in Kept(planned)
        /\ \A u \in D : Forward(new)[u][1] >= new[u][1]
    BY <2>0, DelayedIs DEF early
  <2>2. /\ ProjectFinish(new) \in Int
        /\ \A u \in D : Forward(new)[u][2] <= ProjectFinish(new)
    BY <2>0, <1>9
  <2> HIDE DEF new
  <2>3. SUFFICES ASSUME ProjectFinish(new) <= last PROVE FALSE
    BY <1>4, <2>2 DEF new
  <2>4. ASSUME NEW u \in D
        PROVE  Forward(new)[u][2] <= last
    BY <1>4, <1>5, <2>1, <2>2, <2>3
  <2>5. Forward(new)[t][1] <= late[t][1]
    BY <1>3, <2>1, <2>4
  <2>6. Forward(new)[t][1] >= late[t][1] + 1
    <3>1. early[t][1] + (float[t] + 1) = late[t][1] + 1
      BY <1>2, <1>3, <1>5, <1>6
    <3> QED
      BY <2>1, <3>1
  <2> QED
    BY <1>3, <1>5, <2>1, <2>5, <2>6
<1>12. FloatIsSlack
  BY <1>8, <1>10, <1>11 DEF FloatIsSlack, float, last
<1>13. Critical(planned) # {}
  <2>1. PICK t \in D : early[t][2] = last
    BY <1>4
  <2>2. float[t] <= 0
    BY <1>2, <1>3, <1>4, <1>5, <1>6, <2>1
  <2>3. t \in Critical(planned)
    BY <2>2 DEF Critical, float
  <2> QED
    BY <2>3
<1> QED
  BY <1>12, <1>13

LEMMA ChartOfAnyState ==
  ASSUME TaskTypeOK
  PROVE  AnalysisIsRight
<1>1. SearchIsRight
  <2> SUFFICES ASSUME NEW p \in Pair PROVE Finds(p[2], p[1]) = WouldCreateCycle(p[1], p[2])
    BY DEF SearchIsRight
  <2>1. p[1] \in Tasks /\ p[2] \in Tasks
    BY DEF Pair
  <2>2. Finds(p[2], p[1]) <=> p[1] \in Visited(p[2])
    BY <2>1, SearchFinds
  <2>3. Finds(p[2], p[1]) \in BOOLEAN
    BY DEF Finds
  <2> QED
    BY <2>2, <2>3 DEF WouldCreateCycle
<1>2. Ordered(planned) <=> Acyclic(Dated(planned))
  BY OrderedIfAcyclic
<1>3. Dated(planned) # {} /\ Ordered(planned) => DatesAreEarliest /\ FloatIsSlack /\ Critical(planned) # {}
  BY EarliestDates, FloatIs
<1> QED
  BY <1>1, <1>2, <1>3 DEF AnalysisIsRight

-----------------------------------------------------------------------------
(* What the chart and a new dependency are told *)

\* What the chart and a new dependency are told is right in every state: the search
\* finds a way exactly where there is one, the order is found exactly when the dated
\* tasks do not wait for each other in a circle, the early dates are the earliest,
\* and the float is by how much a task can slip (_would_create_cycle, cpm.compute).
THEOREM ChartIsRight == TaskSpec => []AnalysisIsRight
<1>1. Sound => AnalysisIsRight
  BY ChartOfAnyState DEF Sound
<1> QED
  BY <1>1, SoundStart, SoundNext, PTL DEF TaskSpec

\* There is a chart: cpm.compute() orders the dated tasks.
DrawnUnlessOvertaken == overtaken \/ Ordered(planned)

\* However tasks are dated and dependencies added and removed, cpm.compute() finds an
\* order, unless two dependencies were added at a time (add_dependency).
THEOREM ChartIsDrawn == TaskSpec => []DrawnUnlessOvertaken
<1>1. Acyclic(Tasks) => Acyclic(Dated(planned))
  BY DEF Acyclic, Dated
<1>2. Ordered(planned) <=> Acyclic(Dated(planned))
  BY OrderedIfAcyclic
<1>3. Sound => DrawnUnlessOvertaken
  BY <1>1, <1>2 DEF Sound, DrawnUnlessOvertaken
<1> QED
  BY <1>3, SoundStart, SoundNext, PTL DEF TaskSpec

=============================================================================
