----------------------------- MODULE LedgerProofs -----------------------------
(* Proofs about the books, for any accounts, suppliers, entries, payments    *)
(* and requests.                                                             *)
EXTENDS Ledger, FiniteData, SequenceTheorems, FiniteSetTheorems, TLAPS

-----------------------------------------------------------------------------
(* The inductive invariant                                                   *)

\* A journal that moves a pocket moves its control account, so that the lock
\* of the account is enough for the pocket.
Controlled(m) == m[Payable] = 0 => \A p \in Parties : m[p] = 0

\* What a request holds is the committed balance with what it moved, and it
\* moved nothing else; it moved active accounts only, and the payment it is
\* making is within what is outstanding.
Request(r) ==
  /\ r \in Worker
  /\ \A b \in r.held : r.own[b] = balance[b] + r.moved[b]
  /\ \A b \in Books \ r.held : r.moved[b] = 0
  /\ \A p \in Parties : p \in r.held => Payable \in r.held
  /\ \A a \in Accounts : r.moved[a] # 0 => a \in active
  /\ paid + r.pay <= Order
  /\ \A d \in r.todo : Controlled(d.moves)
  /\ \A k \in DOMAIN r.drafts : Controlled(r.drafts[k].moves)

\* No two requests hold an account or pay at the same time.
Apart(r, s) ==
  /\ \A a \in Accounts : ~(a \in r.held /\ a \in s.held)
  /\ r.pay = 0 \/ s.pay = 0

Inductive ==
  /\ TypeOK
  /\ BalancesTold
  /\ NeverOverpaid
  /\ \A j \in DOMAIN journals : Controlled(journals[j].moves)
  /\ \A w \in Workers : Request(worker[w])
  /\ \A w, v \in Workers : w # v => Apart(worker[w], worker[v])

-----------------------------------------------------------------------------
(* Types                                                                     *)

LEMMA NothingType == Nothing \in Movement /\ \A b \in Books : Nothing[b] = 0
  BY DEF Nothing, Movement

LEMMA PlusType ==
  ASSUME NEW f \in Movement, NEW g \in Movement
  PROVE  Plus(f, g) \in Movement /\ \A b \in Books : Plus(f, g)[b] = f[b] + g[b]
  BY DEF Plus, Movement

LEMMA BooksOf == Payable \in Books /\ Bank \in Books /\ Accounts \subseteq Books /\ Parties \subseteq Books
  BY LedgerAssumption DEF Books

LEMMA DraftType ==
  ASSUME NEW m \in Movement, NEW month \in Closed \cup {Today}, NEW of \in Entries \cup {None},
         NEW undoes \in Nat
  PROVE  Draft(m, month, of, undoes) \in Journal /\ Draft(m, month, of, undoes).moves = m
  BY DEF Draft, Journal

LEMMA MirrorType ==
  ASSUME NEW m \in Movement
  PROVE  MirrorOf(m) \in Movement /\ Controlled(MirrorOf(m))
<1>1. \A b \in Books : (IF b \in Accounts THEN -m[b] ELSE 0) \in Int
  BY DEF Movement
<1>2. MirrorOf(m) \in Movement
  BY <1>1 DEF MirrorOf, Movement
<1>3. \A p \in Parties : p \in Books /\ p \notin Accounts
  BY LedgerAssumption, BooksOf
<1>4. Controlled(MirrorOf(m))
  BY <1>3 DEF MirrorOf, Controlled
<1> QED
  BY <1>2, <1>4

LEMMA EntryType ==
  ASSUME NEW e \in Entries
  PROVE  JournalOf(e) \in Journal /\ Controlled(JournalOf(e).moves)
<1>1. Moved[e] \in Movement /\ Month[e] \in Closed \cup {Today} /\ Moved[e] \in Range(Moved)
  BY LedgerAssumption DEF Range
<1>2. JournalOf(e) \in Journal /\ JournalOf(e).moves = Moved[e]
  BY <1>1, DraftType DEF JournalOf
<1>3. Controlled(Moved[e])
  BY <1>1, LedgerAssumption DEF Controlled
<1> QED
  BY <1>2, <1>3

LEMMA PaymentType ==
  ASSUME NEW n \in DOMAIN Pay
  PROVE  n \in Nat /\ Draft(Pay[n], Today, None, 0) \in Journal
         /\ Controlled(Draft(Pay[n], Today, None, 0).moves)
<1>1. n \in Nat /\ Pay[n] \in Movement /\ Pay[n] \in Range(Pay)
  BY LedgerAssumption DEF Range
<1>2. Controlled(Pay[n])
  BY <1>1, LedgerAssumption DEF Controlled
<1> QED
  BY <1>1, <1>2, DraftType

LEMMA IdleType ==
  /\ Idle \in Worker /\ Idle.held = {} /\ Idle.moved = Nothing /\ Idle.pay = 0
  /\ Idle.todo = {} /\ Idle.drafts = <<>>
<1>1. Idle \in Worker
  BY NothingType DEF Idle, Worker
<1> QED
  BY <1>1 DEF Idle

\* A request that holds nothing yet.
LEMMA FreshRequest ==
  ASSUME NEW r \in Worker, r.held = {}, r.moved = Nothing, r.drafts = <<>>,
         paid + r.pay <= Order, \A d \in r.todo : Controlled(d.moves)
  PROVE  Request(r)
<1>1. \A b \in Books : r.moved[b] = 0
  BY NothingType
<1>2. \A a \in Accounts : r.moved[a] = 0
  BY <1>1, BooksOf
<1>3. DOMAIN r.drafts = {}
  OBVIOUS
<1> QED
  BY <1>1, <1>2, <1>3 DEF Request

-----------------------------------------------------------------------------
(* Steps of a request before its commit                                      *)

\* A request that keeps to the invariant and apart from the others keeps it.
LEMMA RequestStep ==
  ASSUME Inductive, NEW w \in Workers, NEW u, Step(w, u), Request(u),
         \A v \in Workers \ {w} : Apart(u, worker[v]) /\ Apart(worker[v], u),
         UNCHANGED <<journals, balance, book, made, paid, active>>,
         asked' \in 0 .. MaxRequests, crossed' \subseteq Entries \cup Nat
  PROVE  Inductive'
<1>1. worker \in [Workers -> Worker] /\ u \in Worker
  BY DEF Inductive, TypeOK, Request
<1>2. worker' \in [Workers -> Worker] /\ \A v \in Workers : worker'[v] = IF v = w THEN u ELSE worker[v]
  BY <1>1 DEF Step
<1>3. TypeOK'
  BY <1>2 DEF Inductive, TypeOK
<1>4. BalancesTold' /\ NeverOverpaid' /\ (\A j \in DOMAIN journals : Controlled(journals[j].moves))'
  BY DEF Inductive, BalancesTold, NeverOverpaid, Controlled
<1>5. ASSUME NEW r, Request(r) PROVE Request(r)'
  BY <1>5 DEF Request, Controlled
<1>6. (\A v \in Workers : Request(worker[v]))'
  BY <1>2, <1>5 DEF Inductive
<1>7. ASSUME NEW v \in Workers, NEW x \in Workers, v # x PROVE Apart(worker'[v], worker'[x])
  <2>1. CASE v = w
    BY <1>2, <1>7, <2>1
  <2>2. CASE x = w
    BY <1>2, <1>7, <2>2
  <2>3. CASE v # w /\ x # w
    BY <1>2, <1>7, <2>3 DEF Inductive
  <2> QED
    BY <2>1, <2>2, <2>3
<1>8. (\A v, x \in Workers : v # x => Apart(worker[v], worker[x]))'
  BY <1>7 DEF Apart
<1> QED
  BY <1>3, <1>4, <1>6, <1>8 DEF Inductive

LEMMA ApartFrom ==
  ASSUME Inductive, NEW w \in Workers, NEW u, u.held = {},
         u.pay = 0 \/ \A v \in Workers \ {w} : worker[v].pay = 0
  PROVE  \A v \in Workers \ {w} : Apart(u, worker[v]) /\ Apart(worker[v], u)
  BY DEF Apart

LEMMA BeginStep ==
  ASSUME Inductive, NEW w \in Workers,
         NEW job \in {"record", "missing", "post", "reverse", "pay"},
         NEW on \in SUBSET (Entries \cup Nat), NEW todo \in SUBSET Journal,
         \A d \in todo : Controlled(d.moves),
         NEW pay \in Nat, paid + pay <= Order, pay = 0 \/ PaymentFree(w),
         Begin(w, job, on, todo, pay)
  PROVE  Inductive'
<1>1. PICK u : u = [Idle EXCEPT !.job = job, !.on = on, !.todo = todo, !.pay = pay]
  OBVIOUS
<1>2. u \in Worker
  BY <1>1, IdleType DEF Worker
<1>3. /\ Step(w, u) /\ asked' = asked + 1 /\ asked < MaxRequests
      /\ crossed' = crossed \cup {x \in on : \E v \in Workers : x \in worker[v].on}
      /\ UNCHANGED <<journals, balance, book, made, paid, active>>
  BY <1>1 DEF Begin
<1>4. u.held = {} /\ u.moved = Nothing /\ u.pay = pay /\ u.todo = todo /\ u.drafts = <<>>
  BY <1>1 DEF Idle
<1>5. Request(u)
  BY <1>2, <1>4, FreshRequest
<1>6. \A v \in Workers \ {w} : Apart(u, worker[v]) /\ Apart(worker[v], u)
  BY <1>4, ApartFrom DEF PaymentFree
<1>7. asked' \in 0 .. MaxRequests /\ crossed' \subseteq Entries \cup Nat
  BY <1>3, LedgerAssumption DEF Inductive, TypeOK
<1> QED
  BY <1>3, <1>5, <1>6, <1>7, RequestStep

LEMMA PaidWithin == Inductive => paid \in Nat /\ paid <= Order
  BY DEF Inductive, TypeOK, NeverOverpaid

LEMMA FailStep ==
  ASSUME Inductive, NEW w \in Workers, Fail(w) PROVE Inductive'
<1>1. Step(w, Idle) /\ Request(Idle) /\ Idle.held = {} /\ Idle.pay = 0
  BY PaidWithin, IdleType, FreshRequest DEF Fail
<1>2. \A v \in Workers \ {w} : Apart(Idle, worker[v]) /\ Apart(worker[v], Idle)
  BY <1>1, ApartFrom
<1> QED
  BY <1>1, <1>2, RequestStep DEF Fail, Inductive, TypeOK

LEMMA WriteStep ==
  ASSUME Inductive, NEW w \in Workers, NEW d \in worker[w].todo, Write(w, d)
  PROVE  Inductive'
<1>1. PICK r : r = worker[w]
  OBVIOUS
<1>2. r \in Worker /\ Request(r) /\ d \in Journal /\ Controlled(d.moves) /\ d.moves \in Movement
  BY <1>1 DEF Inductive, Request, Worker, Journal
<1>3. PICK moves : moves = IF MayPost(d) THEN d.moves ELSE Nothing
  OBVIOUS
<1>4. PICK touched : touched = {b \in Books : d.moves[b] # 0}
  OBVIOUS
<1>5. PICK drafts : drafts = IF r.job = "post" THEN r.drafts
                             ELSE Append(r.drafts, IF MayPost(d) THEN [d EXCEPT !.status = "posted"] ELSE d)
  OBVIOUS
<1>6. PICK own : own = [b \in Books |-> View(w, b) + moves[b]]
  OBVIOUS
<1>7. PICK u : u = [r EXCEPT !.todo = r.todo \ {d}, !.drafts = drafts, !.held = r.held \cup touched,
                             !.own = own, !.moved = Plus(r.moved, moves)]
  OBVIOUS
<1>8. Step(w, u)
  BY <1>1, <1>3, <1>4, <1>5, <1>6, <1>7 DEF Write
<1>9. moves \in Movement /\ \A b \in Books : moves[b] = 0 \/ (MayPost(d) /\ moves[b] = d.moves[b])
  BY <1>2, <1>3, NothingType
<1>10. r.moved \in Movement /\ r.own \in Movement /\ balance \in Movement
  BY <1>2 DEF Worker, Inductive, TypeOK
<1>11. \A b \in Books : View(w, b) \in Int /\ View(w, b) = balance[b] + r.moved[b]
  <2> SUFFICES ASSUME NEW b \in Books PROVE View(w, b) \in Int /\ View(w, b) = balance[b] + r.moved[b]
    OBVIOUS
  <2>1. balance[b] \in Int /\ r.moved[b] \in Int /\ r.own[b] \in Int
    BY <1>10 DEF Movement
  <2> QED
    BY <1>1, <1>2, <2>1 DEF View, Request
<1>12. own \in Movement /\ \A b \in Books : own[b] = balance[b] + r.moved[b] + moves[b]
  BY <1>6, <1>9, <1>11 DEF Movement
<1>13. Plus(r.moved, moves) \in Movement
       /\ \A b \in Books : Plus(r.moved, moves)[b] = r.moved[b] + moves[b]
  BY <1>9, <1>10, PlusType
<1>14. drafts \in Seq(Journal) /\ \A k \in DOMAIN drafts : Controlled(drafts[k].moves)
  <2>1. PICK e : e = IF MayPost(d) THEN [d EXCEPT !.status = "posted"] ELSE d
    OBVIOUS
  <2>2. e \in Journal /\ e.moves = d.moves
    BY <1>2, <2>1 DEF Journal
  <2>3. r.drafts \in Seq(Journal) /\ \A k \in DOMAIN r.drafts : Controlled(r.drafts[k].moves)
    BY <1>2 DEF Worker, Request
  <2>4. drafts = r.drafts \/ drafts = Append(r.drafts, e)
    BY <1>5, <2>1
  <2>5. CASE drafts = Append(r.drafts, e)
    <3>1. drafts \in Seq(Journal)
      BY <2>2, <2>3, <2>5
    <3>2. ASSUME NEW k \in DOMAIN drafts PROVE Controlled(drafts[k].moves)
      <4>1. (k \in DOMAIN r.drafts /\ drafts[k] = r.drafts[k]) \/ drafts[k] = e
        BY <2>2, <2>3, <2>5
      <4> QED
        BY <1>2, <2>2, <2>3, <4>1
    <3> QED
      BY <3>1, <3>2
  <2> QED
    BY <2>3, <2>4, <2>5
<1>15. /\ u.todo = r.todo \ {d} /\ u.drafts = drafts /\ u.held = r.held \cup touched /\ u.own = own
       /\ u.moved = Plus(r.moved, moves) /\ u.pay = r.pay
  BY <1>2, <1>7 DEF Worker
<1>16. u \in Worker
  <2>1. r.todo \ {d} \in SUBSET Journal /\ r.held \cup touched \in SUBSET Books
    BY <1>2, <1>4 DEF Worker
  <2> QED
    BY <1>2, <1>7, <1>12, <1>13, <1>14, <2>1 DEF Worker
<1>17. Request(u)
  <2>1. ASSUME NEW b \in Books PROVE b \in u.held => u.own[b] = balance[b] + u.moved[b]
    BY <1>9, <1>10, <1>12, <1>13, <1>15 DEF Movement
  <2>2. ASSUME NEW b \in Books \ u.held PROVE u.moved[b] = 0
    <3>1. r.moved[b] = 0 /\ d.moves[b] = 0
      BY <1>2, <1>4, <1>15 DEF Request
    <3> QED
      BY <1>9, <1>13, <1>15, <3>1
  <2>3. ASSUME NEW p \in Parties, p \in u.held PROVE Payable \in u.held
    <3>1. CASE p \in r.held
      BY <1>2, <1>15, <3>1 DEF Request
    <3>2. CASE p \in touched
      <4>1. d.moves[p] # 0
        BY <1>4, <3>2
      <4>2. d.moves[Payable] # 0
        BY <1>2, <4>1 DEF Controlled
      <4> QED
        BY <1>4, <1>15, <4>2, BooksOf
    <3> QED
      BY <1>15, <2>3, <3>1, <3>2
  <2>4. ASSUME NEW a \in Accounts, u.moved[a] # 0 PROVE a \in active
    <3>1. a \in Books
      BY BooksOf
    <3>2. r.moved[a] # 0 \/ (MayPost(d) /\ d.moves[a] # 0)
      BY <1>9, <1>10, <1>13, <1>15, <2>4, <3>1 DEF Movement
    <3> QED
      BY <1>2, <3>2 DEF Request, MayPost
  <2>5. u.held \subseteq Books /\ paid + u.pay <= Order /\ \A e \in u.todo : Controlled(e.moves)
    BY <1>2, <1>15, <1>16 DEF Request, Worker
  <2> QED
    BY <1>14, <1>15, <1>16, <2>1, <2>2, <2>3, <2>4, <2>5 DEF Request
<1>18. \A v \in Workers \ {w} : Apart(u, worker[v]) /\ Apart(worker[v], u)
  <2> SUFFICES ASSUME NEW v \in Workers \ {w} PROVE Apart(u, worker[v]) /\ Apart(worker[v], u)
    OBVIOUS
  <2>1. Apart(r, worker[v])
    BY <1>1 DEF Inductive
  <2>2. \A a \in Accounts : a \in touched => a \notin worker[v].held
    BY <1>4 DEF Write, Free
  <2> QED
    BY <1>15, <2>1, <2>2 DEF Apart
<1> QED
  BY <1>8, <1>17, <1>18, RequestStep DEF Write, Inductive, TypeOK

-----------------------------------------------------------------------------
(* The commit of a request                                                   *)

\* No other request holds what this one holds, pockets included.
LEMMA HeldApart ==
  ASSUME Inductive, NEW w \in Workers, NEW v \in Workers, v # w, NEW b \in worker[v].held
  PROVE  b \in Books /\ b \notin worker[w].held
<1>1. Request(worker[w]) /\ Request(worker[v]) /\ Apart(worker[w], worker[v])
  BY DEF Inductive
<1>2. b \in Books
  BY <1>1 DEF Request, Worker
<1>3. CASE b \in Accounts
  BY <1>1, <1>2, <1>3 DEF Apart
<1>4. CASE b \in Parties
  BY <1>1, <1>2, <1>4, LedgerAssumption DEF Request, Apart
<1> QED
  BY <1>2, <1>3, <1>4 DEF Books

LEMMA CommitStep ==
  ASSUME Inductive, NEW w \in Workers, Commit(w) PROVE Inductive'
<1>1. PICK r : r = worker[w]
  OBVIOUS
<1>2. r \in Worker /\ Request(r) /\ paid \in Nat /\ paid <= Order /\ r.pay \in Nat /\ Order \in Nat
  BY <1>1, PaidWithin, LedgerAssumption DEF Inductive, Request, Worker
<1>3. /\ Step(w, Idle) /\ paid' = paid + r.pay /\ book' = Plus(book, r.moved)
      /\ balance' = [b \in Books |-> View(w, b)] /\ made' = made \cup (r.on \cap Entries)
      /\ journals' = [j \in DOMAIN journals |-> Marked(w, j)] \o r.drafts
      /\ UNCHANGED <<active, asked, crossed>>
  BY <1>1 DEF Commit
<1>4. /\ r.moved \in Movement /\ r.own \in Movement /\ balance \in Movement /\ book \in Movement
  BY <1>2 DEF Worker, Inductive, TypeOK
<1>5. ASSUME NEW b \in Books
      PROVE  View(w, b) \in Int /\ View(w, b) = balance[b] + r.moved[b]
  <2>1. balance[b] \in Int /\ r.moved[b] \in Int /\ r.own[b] \in Int
    BY <1>4 DEF Movement
  <2> QED
    BY <1>1, <1>2, <2>1 DEF View, Request
<1>6. balance' \in Movement /\ book' \in Movement
  BY <1>3, <1>4, <1>5, PlusType DEF Movement
<1>7. BalancesTold'
  <2>1. ASSUME NEW b \in Books PROVE balance'[b] = book'[b]
    <3>1. balance[b] = book[b] /\ book'[b] = book[b] + r.moved[b]
      BY <1>3, <1>4, PlusType DEF Inductive, BalancesTold
    <3> QED
      BY <1>3, <1>5, <3>1
  <2> QED
    BY <2>1 DEF BalancesTold
<1>8. /\ journals' \in Seq(Journal)
      /\ \A j \in DOMAIN journals' : Controlled(journals'[j].moves)
  <2>1. PICK marked : marked = [j \in DOMAIN journals |-> Marked(w, j)]
    OBVIOUS
  <2>2. journals \in Seq(Journal) /\ \A j \in DOMAIN journals : Controlled(journals[j].moves)
    BY DEF Inductive, TypeOK
  <2>3. ASSUME NEW j \in DOMAIN journals
        PROVE  Marked(w, j) \in Journal /\ Marked(w, j).moves = journals[j].moves
    <3>1. journals[j] \in Journal
      BY <2>2
    <3>2. PICK status \in {"draft", "posted", "reversed"} :
            Marked(w, j) = [journals[j] EXCEPT !.status = status]
      BY <3>1 DEF Marked, Journal
    <3> QED
      BY <3>1, <3>2 DEF Journal
  <2>4. marked \in Seq(Journal) /\ Len(marked) = Len(journals)
        /\ \A j \in DOMAIN marked : Controlled(marked[j].moves)
    BY <2>1, <2>2, <2>3
  <2>5. r.drafts \in Seq(Journal) /\ \A k \in DOMAIN r.drafts : Controlled(r.drafts[k].moves)
    BY <1>2 DEF Worker, Request
  <2>6. journals' = marked \o r.drafts
    BY <1>3, <2>1
  <2>7. journals' \in Seq(Journal)
    BY <2>4, <2>5, <2>6
  <2>8. ASSUME NEW j \in DOMAIN journals' PROVE Controlled(journals'[j].moves)
    <3>1. \/ j \in DOMAIN marked /\ journals'[j] = marked[j]
          \/ j - Len(marked) \in DOMAIN r.drafts /\ journals'[j] = r.drafts[j - Len(marked)]
      BY <2>4, <2>5, <2>6
    <3> QED
      BY <2>4, <2>5, <3>1
  <2> QED
    BY <2>7, <2>8
<1>9. worker' \in [Workers -> Worker]
      /\ \A v \in Workers : worker'[v] = IF v = w THEN Idle ELSE worker[v]
  BY <1>3, IdleType DEF Step, Inductive, TypeOK
<1>10. TypeOK'
  BY <1>2, <1>3, <1>6, <1>8, <1>9 DEF Inductive, TypeOK
<1>11. paid' \in Nat /\ paid' <= Order
  BY <1>2, <1>3 DEF Request
<1>12. ASSUME NEW v \in Workers PROVE Request(worker[v])'
  <2>1. CASE v = w
    <3>1. Request(Idle)'
      <4>1. (paid + Idle.pay <= Order)'
        BY <1>11, IdleType
      <4>2. DOMAIN Idle.drafts = {} /\ \A a \in Accounts : Idle.moved[a] = 0
        BY IdleType, NothingType, BooksOf
      <4> QED
        BY <4>1, <4>2, IdleType, NothingType DEF Request
    <3> QED
      BY <1>9, <2>1, <3>1
  <2>2. CASE v # w
    <3>1. PICK s : s = worker[v]
      OBVIOUS
    <3>2. Request(s) /\ worker'[v] = s /\ s.pay \in Nat
      BY <1>9, <2>2, <3>1 DEF Inductive, Request, Worker
    <3>3. \A b \in s.held : balance'[b] = balance[b]
      BY <1>3, <2>2, <3>1, HeldApart DEF View
    <3>4. paid' + s.pay <= Order
      <4>1. r.pay = 0 \/ s.pay = 0
        BY <1>1, <2>2, <3>1 DEF Inductive, Apart
      <4> QED
        BY <1>2, <1>3, <1>11, <3>2, <4>1 DEF Request
    <3> QED
      BY <1>3, <3>2, <3>3, <3>4 DEF Request, Controlled
  <2> QED
    BY <2>1, <2>2
<1>13. ASSUME NEW v \in Workers, NEW x \in Workers, v # x PROVE Apart(worker'[v], worker'[x])
  <2>1. Idle.held = {} /\ Idle.pay = 0
    BY IdleType
  <2>2. CASE v = w
    BY <1>9, <1>13, <2>1, <2>2 DEF Apart
  <2>3. CASE x = w
    BY <1>9, <1>13, <2>1, <2>3 DEF Apart
  <2>4. CASE v # w /\ x # w
    BY <1>9, <1>13, <2>4 DEF Inductive
  <2> QED
    BY <2>2, <2>3, <2>4
<1>14. (\A v, x \in Workers : v # x => Apart(worker[v], worker[x]))'
  BY <1>13 DEF Apart
<1> QED
  BY <1>7, <1>8, <1>10, <1>11, <1>12, <1>14 DEF Inductive, Controlled, NeverOverpaid

-----------------------------------------------------------------------------
(* The other steps                                                           *)

LEMMA AutomaticStep ==
  ASSUME Inductive, NEW w \in Workers, Automatic(w) PROVE Inductive'
<1>1. paid + 0 <= Order /\ 0 \in Nat
  BY PaidWithin
<1>2. ASSUME NEW e \in Entries, Record(w, e) PROVE Inductive'
  <2>1. Begin(w, "record", {e}, {JournalOf(e)}, 0)
    BY <1>2 DEF Record
  <2>2. {e} \in SUBSET (Entries \cup Nat) /\ {JournalOf(e)} \in SUBSET Journal
        /\ \A d \in {JournalOf(e)} : Controlled(d.moves)
    BY EntryType
  <2> QED
    BY <1>1, <2>1, <2>2, BeginStep
<1>3. CASE PostMissing(w)
  <2>1. Begin(w, "missing", Unposted, {JournalOf(e) : e \in Unposted}, 0)
    BY <1>3 DEF PostMissing
  <2>2. Unposted \subseteq Entries
    BY LedgerAssumption DEF Unposted
  <2>3. {JournalOf(e) : e \in Unposted} \in SUBSET Journal
        /\ \A d \in {JournalOf(e) : e \in Unposted} : Controlled(d.moves)
    BY <2>2, EntryType
  <2> QED
    BY <1>1, <2>1, <2>2, <2>3, BeginStep
<1> QED
  BY <1>2, <1>3 DEF Automatic

LEMMA ByHandStep ==
  ASSUME Inductive, NEW w \in Workers, ByHand(w) PROVE Inductive'
<1>1. paid + 0 <= Order /\ 0 \in Nat /\ paid \in Nat /\ Order \in Nat
  BY PaidWithin, LedgerAssumption
<1>2. ASSUME NEW j \in DOMAIN journals
      PROVE  j \in Nat /\ journals[j] \in Journal /\ Controlled(journals[j].moves)
             /\ journals[j].moves \in Movement
  <2>1. journals \in Seq(Journal) /\ Controlled(journals[j].moves)
    BY DEF Inductive, TypeOK
  <2>2. j \in Nat /\ journals[j] \in Journal
    BY <2>1
  <2> QED
    BY <2>1, <2>2 DEF Journal
<1>3. ASSUME NEW j \in DOMAIN journals, PostDraft(w, j) PROVE Inductive'
  <2>1. Begin(w, "post", {j}, {journals[j]}, 0)
    BY <1>3 DEF PostDraft
  <2>2. {j} \in SUBSET (Entries \cup Nat) /\ {journals[j]} \in SUBSET Journal
        /\ \A d \in {journals[j]} : Controlled(d.moves)
    BY <1>2
  <2> QED
    BY <1>1, <2>1, <2>2, BeginStep
<1>4. ASSUME NEW j \in DOMAIN journals, Reverse(w, j) PROVE Inductive'
  <2>1. PICK d : d = Draft(MirrorOf(journals[j].moves), Today, None, j)
    OBVIOUS
  <2>2. Begin(w, "reverse", {j}, {d}, 0)
    BY <1>4, <2>1 DEF Reverse
  <2>3. d \in Journal /\ Controlled(d.moves)
    <3>1. PICK m : m = MirrorOf(journals[j].moves)
      OBVIOUS
    <3>2. m \in Movement /\ Controlled(m) /\ j \in Nat
      BY <1>2, <3>1, MirrorType
    <3>3. d = Draft(m, Today, None, j)
      BY <2>1, <3>1
    <3> QED
      BY <3>2, <3>3, DraftType
  <2>4. {j} \in SUBSET (Entries \cup Nat) /\ {d} \in SUBSET Journal
        /\ \A e \in {d} : Controlled(e.moves)
    BY <1>2, <2>3
  <2> QED
    BY <1>1, <2>2, <2>4, BeginStep
<1>5. ASSUME NEW n \in DOMAIN Pay, PaySupplier(w, n) PROVE Inductive'
  <2>1. PICK d : d = Draft(Pay[n], Today, None, 0)
    OBVIOUS
  <2>2. Begin(w, "pay", {}, {d}, n) /\ PaymentFree(w) /\ n <= Order - paid
    BY <1>5, <2>1 DEF PaySupplier
  <2>3. n \in Nat /\ d \in Journal /\ Controlled(d.moves)
    BY <2>1, PaymentType
  <2>4. paid + n <= Order
    BY <1>1, <2>2, <2>3
  <2>5. {} \in SUBSET (Entries \cup Nat) /\ {d} \in SUBSET Journal
        /\ \A e \in {d} : Controlled(e.moves)
    BY <2>3
  <2> QED
    BY <2>2, <2>3, <2>4, <2>5, BeginStep
<1> QED
  BY <1>3, <1>4, <1>5 DEF ByHand

LEMMA EnterStep ==
  ASSUME Inductive, NEW m \in Manual, EnterManual(m) PROVE Inductive'
<1>1. PICK d : d = Draft(m, Today, None, 0)
  OBVIOUS
<1>2. m \in Movement /\ Controlled(m)
  BY LedgerAssumption DEF Controlled
<1>3. d \in Journal /\ d.moves = m
  BY <1>1, <1>2, DraftType
<1>4. /\ journals' = Append(journals, d) /\ asked' = asked + 1 /\ asked < MaxRequests
      /\ UNCHANGED <<balance, book, made, paid, active, worker, crossed>>
  BY <1>1 DEF EnterManual
<1>5. journals \in Seq(Journal) /\ \A j \in DOMAIN journals : Controlled(journals[j].moves)
  BY DEF Inductive, TypeOK
<1>6. journals' \in Seq(Journal)
  BY <1>3, <1>4, <1>5
<1>7. ASSUME NEW j \in DOMAIN journals' PROVE Controlled(journals'[j].moves)
  <2>1. (j \in DOMAIN journals /\ journals'[j] = journals[j]) \/ journals'[j] = d
    BY <1>3, <1>4, <1>5
  <2> QED
    BY <1>2, <1>3, <1>5, <2>1
<1>8. TypeOK'
  BY <1>4, <1>6, LedgerAssumption DEF Inductive, TypeOK
<1> QED
  BY <1>4, <1>7, <1>8 DEF Inductive, BalancesTold, NeverOverpaid, Request, Apart, Controlled

LEMMA ImportStep ==
  ASSUME Inductive, NEW e \in Entries, Import(e) PROVE Inductive'
<1>1. TypeOK'
  BY DEF Import, Inductive, TypeOK
<1> QED
  BY <1>1 DEF Import, Inductive, BalancesTold, NeverOverpaid, Request, Apart, Controlled

LEMMA AccountStep ==
  ASSUME Inductive, NEW a \in Accounts, Deactivate(a) \/ Activate(a) PROVE Inductive'
<1>1. /\ UNCHANGED <<journals, balance, book, made, paid, worker, asked, crossed>>
      /\ \A w \in Workers : a \notin worker[w].held
      /\ active' \subseteq Accounts /\ \A b \in active : b = a \/ b \in active'
  BY DEF Deactivate, Activate, Inductive, TypeOK
<1>2. TypeOK'
  BY <1>1 DEF Inductive, TypeOK
<1>3. ASSUME NEW w \in Workers PROVE Request(worker[w])'
  <2>1. Request(worker[w]) /\ worker[w].moved[a] = 0
    BY <1>1, BooksOf DEF Inductive, Request
  <2> QED
    BY <1>1, <2>1 DEF Request, Controlled
<1> QED
  BY <1>1, <1>2, <1>3 DEF Inductive, BalancesTold, NeverOverpaid, Apart, Controlled

LEMMA InitInductive == Init => Inductive
<1> SUFFICES ASSUME Init PROVE Inductive
  OBVIOUS
<1>1. \A w \in Workers : worker[w] = Idle
  BY DEF Init
<1>2. TypeOK
  BY IdleType, NothingType, LedgerAssumption DEF Init, TypeOK
<1>3. Request(Idle)
  BY IdleType, FreshRequest, LedgerAssumption DEF Init
<1>4. BalancesTold /\ NeverOverpaid /\ DOMAIN journals = {}
  BY LedgerAssumption DEF Init, BalancesTold, NeverOverpaid
<1> QED
  BY <1>1, <1>2, <1>3, <1>4, IdleType DEF Inductive, Apart

-----------------------------------------------------------------------------
(* What is filed once: the journal of an entry and the reversal of a journal *)

\* A subject is an entry or the number of a journal; a journal is of the entry
\* it posts and of the journal it undoes.
Subjects == Entries \cup (Nat \ {0})
Of(d, x) == IF x \in Entries THEN d.of = x ELSE d.undoes = x

Unwritten(x) == \A k \in DOMAIN journals : ~Of(journals[k], x)
Mirrors(d) ==
  d.undoes # 0 => /\ d.undoes \in DOMAIN journals
                  /\ \A a \in Accounts : d.moves[a] = -journals[d.undoes].moves[a]

\* What a request is to write and has written: of its own subjects only, and
\* one of each.
Drafted(r) ==
  /\ r.job \in {"record", "missing"} => r.on \subseteq Entries
  /\ r.job \in {"post", "reverse"} => r.on \subseteq Nat \ {0}
  /\ r.job \notin {"record", "missing", "post", "reverse"} => r.on = {}
  /\ r.job = "post" => r.drafts = <<>>
  /\ r.job # "post" => \A d \in r.todo : d.status = "draft"
  /\ r.job # "post" => \A x \in Subjects : \A d \in r.todo :
       Of(d, x) => x \in r.on /\ \A f \in r.todo : Of(f, x) => f = d
  /\ \A x \in Subjects : \A k \in DOMAIN r.drafts :
       Of(r.drafts[k], x) => /\ x \in r.on /\ \A d \in r.todo : ~Of(d, x)
                             /\ \A l \in DOMAIN r.drafts : Of(r.drafts[l], x) => l = k
  /\ \A k \in DOMAIN r.drafts : r.drafts[k].status # "reversed"
  /\ r.job = "reverse" => \A x \in r.on :
       (\E d \in r.todo : Of(d, x)) \/ \E k \in DOMAIN r.drafts : Of(r.drafts[k], x)

\* What it read of its subjects is so until it commits.
InHand(r) ==
  /\ \A x \in r.on :
       /\ x \in Nat => x \in DOMAIN journals
       /\ x \notin crossed =>
            /\ Unwritten(x)
            /\ x \in Nat => journals[x].status = IF r.job = "post" THEN "draft" ELSE "posted"
  /\ r.job # "post" => \A d \in r.todo : Mirrors(d)
  /\ \A k \in DOMAIN r.drafts : Mirrors(r.drafts[k])

Alone(r, s) == r.on \cap s.on \subseteq crossed

OnFile ==
  /\ \A k \in DOMAIN journals : Mirrors(journals[k]) /\ (journals[k].of \in Entries => journals[k].of \in made)
  /\ \A x \in Subjects \ crossed : \A k, l \in DOMAIN journals :
       Of(journals[k], x) /\ Of(journals[l], x) => k = l
  /\ \A j \in DOMAIN journals \ crossed : journals[j].status = "reversed" <=> ~Unwritten(j)

Filed ==
  /\ OnFile
  /\ \A w \in Workers : Drafted(worker[w]) /\ InHand(worker[w])
  /\ \A v, w \in Workers : v # w => Alone(worker[v], worker[w])

LEMMA IdleFiled == Drafted(Idle) /\ InHand(Idle) /\ \A s : Alone(Idle, s) /\ Alone(s, Idle)
<1>1. Idle.on = {} /\ Idle.todo = {} /\ Idle.drafts = <<>> /\ Idle.job = None
  BY DEF Idle
<1>2. DOMAIN Idle.drafts = {}
  BY <1>1
<1> QED
  BY <1>1, <1>2 DEF Drafted, InHand, Alone

LEMMA InitFiled == Init => Filed
<1> SUFFICES ASSUME Init PROVE Filed
  OBVIOUS
<1>1. DOMAIN journals = {} /\ \A w \in Workers : worker[w] = Idle
  BY DEF Init
<1> QED
  BY <1>1, IdleFiled DEF Filed, OnFile

\* A step of one request that leaves the journals alone.
LEMMA FiledStep ==
  ASSUME Inductive, Filed, NEW w \in Workers, NEW u, Step(w, u), journals' = journals, made' = made,
         crossed \subseteq crossed', Drafted(u), InHand(u)',
         \A v \in Workers \ {w} : u.on \cap worker[v].on \subseteq crossed'
  PROVE  Filed'
<1>1. \A v \in Workers : worker'[v] = IF v = w THEN u ELSE worker[v]
  BY DEF Inductive, TypeOK, Step
<1>2. \A x : Unwritten(x)' <=> Unwritten(x)
  BY DEF Unwritten, Of
<1>3. \A d : Mirrors(d)' <=> Mirrors(d)
  BY DEF Mirrors
<1>4. OnFile'
  BY <1>2, <1>3 DEF Filed, OnFile, Of
<1>5. ASSUME NEW v \in Workers PROVE Drafted(worker'[v]) /\ InHand(worker[v])'
  <2>1. CASE v = w
    BY <1>1, <2>1
  <2>2. CASE v # w
    <3>1. PICK r : r = worker[v]
      OBVIOUS
    <3>2. worker'[v] = r /\ Drafted(r) /\ InHand(r)
      BY <1>1, <2>2, <3>1 DEF Filed
    <3>3. InHand(r)'
      BY <1>2, <1>3, <3>2 DEF InHand
    <3> QED
      BY <3>2, <3>3
  <2> QED
    BY <2>1, <2>2
<1>6. ASSUME NEW v \in Workers, NEW x \in Workers, v # x PROVE Alone(worker[v], worker[x])'
  BY <1>1, <1>6 DEF Filed, Alone
<1>7. \A v \in Workers : Drafted(worker[v])'
  BY <1>5 DEF Drafted, Of, Subjects
<1> QED
  BY <1>4, <1>5, <1>6, <1>7 DEF Filed

LEMMA FailFiles == ASSUME Inductive, Filed, NEW w \in Workers, Fail(w) PROVE Filed'
<1>1. Step(w, Idle) /\ journals' = journals /\ made' = made /\ crossed' = crossed
  BY DEF Fail
<1>2. InHand(Idle)'
  BY IdleFiled DEF InHand, Idle
<1>3. Idle.on = {}
  BY DEF Idle
<1> QED
  BY <1>1, <1>2, <1>3, IdleFiled, FiledStep

LEMMA BeginFiles ==
  ASSUME Inductive, Filed, NEW w \in Workers, NEW job, NEW on, NEW todo, NEW pay,
         Begin(w, job, on, todo, pay),
         \A u : u.job = job /\ u.on = on /\ u.todo = todo /\ u.drafts = <<>> => Drafted(u) /\ InHand(u)
  PROVE  Filed'
<1>1. PICK u : u = [Idle EXCEPT !.job = job, !.on = on, !.todo = todo, !.pay = pay]
  OBVIOUS
<1>2. u.job = job /\ u.on = on /\ u.todo = todo /\ u.drafts = <<>>
  BY <1>1 DEF Idle
<1>3. /\ Step(w, u) /\ journals' = journals /\ made' = made
      /\ crossed' = crossed \cup {x \in on : \E v \in Workers : x \in worker[v].on}
  BY <1>1 DEF Begin
<1>4. Drafted(u) /\ InHand(u)
  BY <1>2
<1>5. InHand(u)'
  BY <1>3, <1>4 DEF InHand, Unwritten, Mirrors, Of
<1>6. \A v \in Workers \ {w} : u.on \cap worker[v].on \subseteq crossed'
  BY <1>2, <1>3
<1> QED
  BY <1>3, <1>4, <1>5, <1>6, FiledStep

LEMMA OnSubjects ==
  ASSUME Filed, Inductive, NEW w \in Workers
  PROVE  worker[w].on \subseteq Subjects
<1>1. worker[w] \in Worker /\ Drafted(worker[w])
  BY DEF Inductive, TypeOK, Filed
<1>2. worker[w].job \in {"record", "missing", "post", "reverse", "pay", None}
  BY <1>1 DEF Worker
<1> QED
  BY <1>1, <1>2 DEF Drafted, Subjects

\* What is drafted leaves the list of what is to do.
LEMMA WriteFiles ==
  ASSUME Inductive, Filed, NEW w \in Workers, NEW d \in worker[w].todo, Write(w, d)
  PROVE  Filed'
<1>1. PICK r : r = worker[w]
  OBVIOUS
<1>2. r \in Worker /\ Drafted(r) /\ InHand(r) /\ d \in Journal /\ r.drafts \in Seq(Journal)
  BY <1>1 DEF Inductive, TypeOK, Filed, Worker
<1>3. PICK e : e = IF MayPost(d) THEN [d EXCEPT !.status = "posted"] ELSE d
  OBVIOUS
<1>4. e.of = d.of /\ e.undoes = d.undoes /\ e.moves = d.moves /\ (e.status = "posted" \/ e.status = d.status)
      /\ e \in Journal
  BY <1>2, <1>3 DEF Journal
<1>5. PICK drafts : drafts = IF r.job = "post" THEN r.drafts ELSE Append(r.drafts, e)
  OBVIOUS
<1>6. PICK moves : moves = IF MayPost(d) THEN d.moves ELSE Nothing
  OBVIOUS
<1>7. PICK u : u = [r EXCEPT !.todo = r.todo \ {d}, !.drafts = drafts,
                             !.held = r.held \cup {b \in Books : d.moves[b] # 0},
                             !.own = [b \in Books |-> View(w, b) + moves[b]],
                             !.moved = Plus(r.moved, moves)]
  OBVIOUS
<1>8. Step(w, u) /\ journals' = journals /\ made' = made /\ crossed' = crossed
  BY <1>1, <1>3, <1>5, <1>6, <1>7 DEF Write
<1>9. u.job = r.job /\ u.on = r.on /\ u.todo = r.todo \ {d} /\ u.drafts = drafts
  BY <1>2, <1>7 DEF Worker
<1>10. \A v \in Workers \ {w} : u.on \cap worker[v].on \subseteq crossed'
  BY <1>1, <1>8, <1>9 DEF Filed, Alone
<1>11. d \in r.todo /\ \A x : Of(e, x) <=> Of(d, x)
  BY <1>1, <1>4 DEF Of
<1>12. CASE r.job = "post"
  <2>1. drafts = r.drafts /\ r.drafts = <<>>
    BY <1>2, <1>5, <1>12 DEF Drafted
  <2>2. DOMAIN drafts = {}
    BY <2>1
  <2>3. Drafted(u) /\ InHand(u)
    BY <1>2, <1>9, <1>12, <2>1, <2>2 DEF Drafted, InHand
  <2>4. InHand(u)'
    BY <1>8, <2>3 DEF InHand, Unwritten, Mirrors, Of
  <2> QED
    BY <1>8, <1>10, <2>3, <2>4, FiledStep
<1>13. CASE r.job # "post"
  <2>1. /\ DOMAIN drafts = DOMAIN r.drafts \cup {Len(r.drafts) + 1}
        /\ \A k \in DOMAIN r.drafts : drafts[k] = r.drafts[k] /\ k # Len(r.drafts) + 1
        /\ drafts[Len(r.drafts) + 1] = e
    BY <1>2, <1>4, <1>5, <1>13
  <2>2. \A x \in Subjects : Of(d, x) => x \in r.on /\ \A f \in r.todo : Of(f, x) => f = d
    BY <1>2, <1>11, <1>13 DEF Drafted
  <2>3. ASSUME NEW x \in Subjects, NEW k \in DOMAIN drafts, Of(drafts[k], x)
        PROVE  /\ x \in r.on /\ \A f \in r.todo \ {d} : ~Of(f, x)
               /\ \A l \in DOMAIN drafts : Of(drafts[l], x) => l = k
    <3>1. CASE k \in DOMAIN r.drafts
      <4>1. Of(r.drafts[k], x)
        BY <2>1, <2>3, <3>1
      <4>2. /\ x \in r.on /\ \A f \in r.todo : ~Of(f, x)
            /\ \A l \in DOMAIN r.drafts : Of(r.drafts[l], x) => l = k
        BY <1>2, <3>1, <4>1 DEF Drafted
      <4>3. ~Of(e, x)
        BY <1>11, <4>2
      <4> QED
        BY <2>1, <4>2, <4>3
    <3>2. CASE k = Len(r.drafts) + 1
      <4>1. Of(d, x)
        BY <1>11, <2>1, <2>3, <3>2
      <4>2. \A l \in DOMAIN r.drafts : ~Of(r.drafts[l], x)
        BY <1>2, <1>11, <4>1 DEF Drafted
      <4> QED
        BY <2>1, <2>2, <3>2, <4>1, <4>2
    <3> QED
      BY <2>1, <3>1, <3>2
  <2>4. d.status = "draft" /\ \A k \in DOMAIN drafts : drafts[k].status # "reversed"
    <3>1. d.status = "draft"
      BY <1>2, <1>11, <1>13 DEF Drafted
    <3>2. e.status # "reversed"
      BY <1>4, <3>1
    <3>3. \A k \in DOMAIN r.drafts : r.drafts[k].status # "reversed"
      BY <1>2 DEF Drafted
    <3> QED
      BY <2>1, <3>1, <3>2, <3>3
  <2>5. ASSUME r.job = "reverse", NEW x \in r.on
        PROVE  (\E f \in r.todo \ {d} : Of(f, x)) \/ \E k \in DOMAIN drafts : Of(drafts[k], x)
    <3>1. (\E f \in r.todo : Of(f, x)) \/ \E k \in DOMAIN r.drafts : Of(r.drafts[k], x)
      BY <1>2, <2>5 DEF Drafted
    <3> QED
      BY <1>11, <2>1, <3>1
  <2>6. Drafted(u)
    <3>1. /\ \A f \in r.todo : f.status = "draft"
          /\ \A x \in Subjects : \A f \in r.todo :
               Of(f, x) => x \in r.on /\ \A g \in r.todo : Of(g, x) => g = f
      BY <1>2, <1>13 DEF Drafted
    <3>2. /\ r.job \in {"record", "missing"} => r.on \subseteq Entries
          /\ r.job \in {"post", "reverse"} => r.on \subseteq Nat \ {0}
          /\ r.job \notin {"record", "missing", "post", "reverse"} => r.on = {}
      BY <1>2 DEF Drafted
    <3> QED
      BY <1>9, <1>13, <2>3, <2>4, <2>5, <3>1, <3>2 DEF Drafted
  <2>7. Mirrors(e) /\ \A k \in DOMAIN drafts : Mirrors(drafts[k])
    <3>1. Mirrors(e)
      BY <1>2, <1>4, <1>11, <1>13 DEF InHand, Mirrors
    <3> QED
      BY <1>2, <2>1, <3>1 DEF InHand
  <2>8. InHand(u)
    BY <1>2, <1>9, <2>7 DEF InHand
  <2>9. InHand(u)'
    BY <1>8, <2>8 DEF InHand, Unwritten, Mirrors, Of
  <2> QED
    BY <1>8, <1>10, <2>6, <2>9, FiledStep
<1> QED
  BY <1>12, <1>13

LEMMA AutomaticFiles ==
  ASSUME Inductive, Filed, NEW w \in Workers, Automatic(w) PROVE Filed'
<1>1. \A e \in Entries : /\ JournalOf(e).of = e /\ JournalOf(e).undoes = 0 /\ JournalOf(e).status = "draft"
                         /\ e \notin Nat
  BY LedgerAssumption DEF JournalOf, Draft
<1>2. \A x \in Subjects : x # 0
  BY LedgerAssumption DEF Subjects
<1>3. ASSUME NEW job \in {"record", "missing"}, NEW on \in SUBSET Entries, \A e \in on : Unwritten(e),
             NEW u, u.job = job, u.on = on, u.todo = {JournalOf(e) : e \in on}, u.drafts = <<>>
      PROVE  Drafted(u) /\ InHand(u)
  <2>1. DOMAIN u.drafts = {}
    BY <1>3
  <2>2. \A d \in u.todo : \E e \in on : d = JournalOf(e) /\ d.of = e /\ d.undoes = 0 /\ d.status = "draft"
    BY <1>1, <1>3
  <2>3. ASSUME NEW x \in Subjects, NEW d \in u.todo, Of(d, x) PROVE d = JournalOf(x) /\ x \in on
    BY <1>2, <2>2, <2>3 DEF Of
  <2>4. Drafted(u)
    BY <1>3, <2>1, <2>2, <2>3 DEF Drafted
  <2>5. InHand(u)
    BY <1>1, <1>3, <2>1, <2>2 DEF InHand, Mirrors
  <2> QED
    BY <2>4, <2>5
<1>4. ASSUME NEW e \in Entries, Record(w, e) PROVE Filed'
  <2>1. Begin(w, "record", {e}, {JournalOf(e)}, 0) /\ e \notin made
    BY <1>4 DEF Record
  <2>2. Unwritten(e)
    BY <2>1 DEF Unwritten, Of, Filed, OnFile
  <2>3. {JournalOf(e)} = {JournalOf(x) : x \in {e}}
    OBVIOUS
  <2> QED
    BY <1>3, <2>1, <2>2, <2>3, BeginFiles
<1>5. CASE PostMissing(w)
  <2>1. Begin(w, "missing", Unposted, {JournalOf(e) : e \in Unposted}, 0)
    BY <1>5 DEF PostMissing
  <2>2. Unposted \subseteq Entries /\ \A e \in Unposted : Unwritten(e)
    BY LedgerAssumption DEF Unposted, Unwritten, Of
  <2> QED
    BY <1>3, <2>1, <2>2, BeginFiles
<1> QED
  BY <1>4, <1>5 DEF Automatic

LEMMA ByHandFiles ==
  ASSUME Inductive, Filed, NEW w \in Workers, ByHand(w) PROVE Filed'
<1>1. ASSUME NEW j \in DOMAIN journals
      PROVE  j \in Nat \ {0} /\ j \in Subjects /\ j \notin Entries /\ journals[j] \in Journal
  BY LedgerAssumption DEF Inductive, TypeOK, Subjects
<1>3. ASSUME NEW j \in DOMAIN journals, PostDraft(w, j) PROVE Filed'
  <2>1. Begin(w, "post", {j}, {journals[j]}, 0) /\ journals[j].status = "draft"
    BY <1>3 DEF PostDraft
  <2>2. j \notin crossed => Unwritten(j)
    BY <2>1 DEF Filed, OnFile
  <2>3. ASSUME NEW u, u.job = "post", u.on = {j}, u.todo = {journals[j]}, u.drafts = <<>>
        PROVE  Drafted(u) /\ InHand(u)
    <3>1. DOMAIN u.drafts = {}
      BY <2>3
    <3> QED
      BY <1>1, <2>1, <2>2, <2>3, <3>1 DEF Drafted, InHand
  <2> QED
    BY <2>1, <2>3, BeginFiles
<1>4. ASSUME NEW j \in DOMAIN journals, Reverse(w, j) PROVE Filed'
  <2>1. PICK d : d = Draft(MirrorOf(journals[j].moves), Today, None, j)
    OBVIOUS
  <2>2. /\ Begin(w, "reverse", {j}, {d}, 0) /\ journals[j].status = "posted"
        /\ \A k \in DOMAIN journals : journals[k].undoes # j
    BY <1>4, <2>1 DEF Reverse, Reversible
  <2>3. Unwritten(j)
    BY <1>1, <2>2 DEF Unwritten, Of
  <2>4. /\ d.of = None /\ d.undoes = j /\ d.status = "draft"
        /\ \A a \in Accounts : d.moves[a] = -journals[j].moves[a]
    BY <2>1, BooksOf DEF Draft, MirrorOf
  <2>5. Mirrors(d) /\ Of(d, j) /\ \A x \in Subjects : Of(d, x) => x = j
    BY <1>1, <2>4, LedgerAssumption DEF Mirrors, Of
  <2>6. ASSUME NEW u, u.job = "reverse", u.on = {j}, u.todo = {d}, u.drafts = <<>>
        PROVE  Drafted(u) /\ InHand(u)
    <3>1. DOMAIN u.drafts = {}
      BY <2>6
    <3> QED
      BY <1>1, <2>2, <2>3, <2>4, <2>5, <2>6, <3>1 DEF Drafted, InHand
  <2> QED
    BY <2>2, <2>6, BeginFiles
<1>5. ASSUME NEW n \in DOMAIN Pay, PaySupplier(w, n) PROVE Filed'
  <2>1. PICK d : d = Draft(Pay[n], Today, None, 0)
    OBVIOUS
  <2>2. Begin(w, "pay", {}, {d}, n)
    BY <1>5, <2>1 DEF PaySupplier
  <2>3. d.of = None /\ d.undoes = 0 /\ d.status = "draft"
    BY <2>1 DEF Draft
  <2>4. Mirrors(d) /\ \A x \in Subjects : ~Of(d, x)
    BY <2>3, LedgerAssumption DEF Mirrors, Of, Subjects
  <2>5. ASSUME NEW u, u.job = "pay", u.on = {}, u.todo = {d}, u.drafts = <<>>
        PROVE  Drafted(u) /\ InHand(u)
    <3>1. DOMAIN u.drafts = {}
      BY <2>5
    <3> QED
      BY <2>3, <2>4, <2>5, <3>1 DEF Drafted, InHand
  <2> QED
    BY <2>2, <2>5, BeginFiles
<1> QED
  BY <1>3, <1>4, <1>5 DEF ByHand

\* The journals after a commit: those there were, marked, and the drafts.
LEMMA Committed ==
  ASSUME Inductive, NEW w \in Workers, Commit(w),
         NEW r, r = worker[w], NEW marked, marked = [j \in DOMAIN journals |-> Marked(w, j)]
  PROVE  /\ \A j \in DOMAIN journals :
              /\ marked[j].of = journals[j].of /\ marked[j].undoes = journals[j].undoes
              /\ marked[j].moves = journals[j].moves /\ marked[j] \in Journal
              /\ marked[j].status = IF j \notin r.on THEN journals[j].status
                                    ELSE IF r.job = "post" THEN "posted" ELSE "reversed"
              /\ j \in DOMAIN journals' /\ journals'[j] = marked[j]
         /\ \A k \in DOMAIN r.drafts : /\ Len(journals) + k \in DOMAIN journals' \ DOMAIN journals
                                       /\ journals'[Len(journals) + k] = r.drafts[k]
         /\ \A i \in DOMAIN journals' :
              i \in DOMAIN journals \/ \E k \in DOMAIN r.drafts : i = Len(journals) + k
<1>3. r.drafts \in Seq(Journal) /\ journals \in Seq(Journal)
  BY DEF Inductive, TypeOK, Worker
<1>4. journals' = marked \o r.drafts
  BY DEF Commit
<1>5. ASSUME NEW j \in DOMAIN journals
      PROVE  /\ marked[j].of = journals[j].of /\ marked[j].undoes = journals[j].undoes
             /\ marked[j].moves = journals[j].moves /\ marked[j] \in Journal
             /\ marked[j].status = IF j \notin r.on THEN journals[j].status
                                   ELSE IF r.job = "post" THEN "posted" ELSE "reversed"
  <2>1. journals[j] \in Journal
    BY <1>3
  <2>2. PICK status \in {"draft", "posted", "reversed"} :
          /\ marked[j] = [journals[j] EXCEPT !.status = status]
          /\ status = IF j \notin r.on THEN journals[j].status
                      ELSE IF r.job = "post" THEN "posted" ELSE "reversed"
    BY <2>1 DEF Marked, Journal
  <2> QED
    BY <2>1, <2>2 DEF Journal
<1>6. marked \in Seq(Journal) /\ Len(marked) = Len(journals) /\ DOMAIN marked = DOMAIN journals
  BY <1>3, <1>5
<1>7. /\ \A j \in DOMAIN journals : j \in DOMAIN journals' /\ journals'[j] = marked[j]
      /\ \A k \in DOMAIN r.drafts : /\ Len(journals) + k \in DOMAIN journals' \ DOMAIN journals
                                    /\ journals'[Len(journals) + k] = r.drafts[k]
      /\ \A i \in DOMAIN journals' :
           i \in DOMAIN journals \/ \E k \in DOMAIN r.drafts : i = Len(journals) + k
  <2>1. DOMAIN journals = 1 .. Len(journals) /\ DOMAIN r.drafts = 1 .. Len(r.drafts)
        /\ Len(journals) \in Nat /\ Len(r.drafts) \in Nat
    BY <1>3
  <2>2. /\ journals' \in Seq(Journal) /\ Len(journals') = Len(journals) + Len(r.drafts)
        /\ \A i \in 1 .. Len(journals) + Len(r.drafts) :
             journals'[i] = IF i <= Len(journals) THEN marked[i] ELSE r.drafts[i - Len(journals)]
    <3>1. PICK J : J = Journal
      OBVIOUS
    <3>2. marked \in Seq(J) /\ r.drafts \in Seq(J)
      BY <1>3, <1>6, <3>1
    <3>3. /\ marked \o r.drafts \in Seq(J)
          /\ Len(marked \o r.drafts) = Len(marked) + Len(r.drafts)
          /\ \A i \in 1 .. Len(marked) + Len(r.drafts) :
               (marked \o r.drafts)[i] = IF i <= Len(marked) THEN marked[i] ELSE r.drafts[i - Len(marked)]
      BY <3>2, ConcatProperties
    <3> QED
      BY <1>4, <1>6, <3>1, <3>3
  <2>3. DOMAIN journals' = 1 .. Len(journals) + Len(r.drafts)
    BY <2>2
  <2>4. ASSUME NEW k \in DOMAIN r.drafts
        PROVE  /\ Len(journals) + k \in DOMAIN journals' \ DOMAIN journals
               /\ journals'[Len(journals) + k] = r.drafts[k]
    <3>1. PICK i : i = Len(journals) + k
      OBVIOUS
    <3>2. i \in 1 .. Len(journals) + Len(r.drafts) /\ i \notin DOMAIN journals /\ ~(i <= Len(journals))
          /\ i - Len(journals) = k
      BY <2>1, <3>1
    <3> QED
      BY <2>2, <2>3, <3>1, <3>2
  <2>5. ASSUME NEW i \in DOMAIN journals', i \notin DOMAIN journals
        PROVE  \E k \in DOMAIN r.drafts : i = Len(journals) + k
    <3>1. i - Len(journals) \in DOMAIN r.drafts /\ i = Len(journals) + (i - Len(journals))
      BY <2>1, <2>3, <2>5
    <3> QED
      BY <3>1
  <2> QED
    BY <2>1, <2>2, <2>3, <2>4, <2>5
<1> QED
  BY <1>5, <1>7

\* Of a subject nobody else has in hand, one journal is written when the request
\* commits: the one it drafted.
LEMMA CommitFiles ==
  ASSUME Inductive, Filed, NEW w \in Workers, Commit(w) PROVE Filed'
<1>1. PICK r : r = worker[w]
  OBVIOUS
<1>2. PICK marked : marked = [j \in DOMAIN journals |-> Marked(w, j)]
  OBVIOUS
<1>3. /\ Drafted(r) /\ InHand(r) /\ r.drafts \in Seq(Journal) /\ r.on \subseteq Subjects
      /\ journals \in Seq(Journal) /\ r.todo = {}
  BY <1>1, OnSubjects DEF Inductive, TypeOK, Filed, Worker, Commit
<1>4. /\ journals' = marked \o r.drafts /\ made' = made \cup (r.on \cap Entries) /\ crossed' = crossed
      /\ \A v \in Workers : worker'[v] = IF v = w THEN Idle ELSE worker[v]
  BY <1>1, <1>2 DEF Commit, Step, Inductive, TypeOK
<1>5. /\ \A j \in DOMAIN journals :
           /\ marked[j].of = journals[j].of /\ marked[j].undoes = journals[j].undoes
           /\ marked[j].moves = journals[j].moves /\ marked[j] \in Journal
           /\ marked[j].status = IF j \notin r.on THEN journals[j].status
                                 ELSE IF r.job = "post" THEN "posted" ELSE "reversed"
  BY <1>1, <1>2, Committed
<1>7. /\ \A j \in DOMAIN journals : j \in DOMAIN journals' /\ journals'[j] = marked[j]
      /\ \A k \in DOMAIN r.drafts : /\ Len(journals) + k \in DOMAIN journals' \ DOMAIN journals
                                    /\ journals'[Len(journals) + k] = r.drafts[k]
      /\ \A i \in DOMAIN journals' :
           i \in DOMAIN journals \/ \E k \in DOMAIN r.drafts : i = Len(journals) + k
  BY <1>1, <1>2, Committed
<1>8. /\ \A j \in DOMAIN journals : \A x : Of(journals'[j], x) <=> Of(journals[j], x)
      /\ \A d : Mirrors(d) => Mirrors(d)'
  BY <1>5, <1>7 DEF Of, Mirrors
<1>9. ASSUME NEW x \in Subjects, x \notin r.on
      PROVE  /\ Unwritten(x)' <=> Unwritten(x)
             /\ \A k \in DOMAIN journals' : Of(journals'[k], x) => k \in DOMAIN journals
  <2>1. \A k \in DOMAIN r.drafts : ~Of(r.drafts[k], x)
    BY <1>3, <1>9 DEF Drafted
  <2>2. \A k \in DOMAIN journals' : Of(journals'[k], x) => k \in DOMAIN journals
    BY <1>7, <2>1
  <2>3. Unwritten(x)' <=> \A k \in DOMAIN journals' : ~Of(journals'[k], x)
    BY DEF Unwritten, Of
  <2> QED
    BY <1>7, <1>8, <2>2, <2>3 DEF Unwritten
<1>10. (\A k \in DOMAIN journals :
          Mirrors(journals[k]) /\ (journals[k].of \in Entries => journals[k].of \in made))'
  <2>1. ASSUME NEW k \in DOMAIN journals
        PROVE  Mirrors(journals[k])' /\ (journals'[k].of \in Entries => journals'[k].of \in made')
    <3>1. Mirrors(journals[k]) /\ (journals[k].of \in Entries => journals[k].of \in made)
      BY DEF Filed, OnFile
    <3>2. /\ journals'[k].of = journals[k].of /\ journals'[k].undoes = journals[k].undoes
          /\ journals'[k].moves = journals[k].moves
      BY <1>5, <1>7
    <3>3. PICK d : d = journals[k]
      OBVIOUS
    <3>4. Mirrors(d)'
      BY <1>8, <3>1, <3>3
    <3>5. Mirrors(journals[k])'
      BY <3>2, <3>3, <3>4 DEF Mirrors
    <3> QED
      BY <1>4, <3>1, <3>2, <3>5
  <2>2. ASSUME NEW k \in DOMAIN r.drafts, NEW i \in DOMAIN journals', i = Len(journals) + k
        PROVE  Mirrors(journals[i])' /\ (journals'[i].of \in Entries => journals'[i].of \in made')
    <3>1. Mirrors(r.drafts[k]) /\ journals'[i] = r.drafts[k]
      BY <1>3, <1>7, <2>2 DEF InHand
    <3>2. Mirrors(journals[i])'
      BY <1>5, <1>7, <3>1 DEF Mirrors
    <3>3. r.drafts[k].of \in Entries => r.drafts[k].of \in r.on
      BY <1>3 DEF Drafted, Of, Subjects
    <3> QED
      BY <1>4, <3>1, <3>2, <3>3
  <2> QED
    BY <1>7, <2>1, <2>2
<1>11. ASSUME NEW x \in Subjects \ crossed, NEW k \in DOMAIN journals', NEW l \in DOMAIN journals',
              Of(journals'[k], x), Of(journals'[l], x)
       PROVE  k = l
  <2>1. CASE x \in r.on
    <3>1. \A i \in DOMAIN journals : ~Of(journals'[i], x)
      BY <1>3, <1>8, <1>11, <2>1 DEF InHand, Unwritten
    <3>2. PICK i \in DOMAIN r.drafts : k = Len(journals) + i
      BY <1>7, <1>11, <3>1
    <3>3. PICK m \in DOMAIN r.drafts : l = Len(journals) + m
      BY <1>7, <1>11, <3>1
    <3>4. Of(r.drafts[i], x) /\ Of(r.drafts[m], x)
      BY <1>7, <1>11, <3>2, <3>3
    <3> QED
      BY <1>3, <3>2, <3>3, <3>4 DEF Drafted
  <2>2. CASE x \notin r.on
    <3>1. k \in DOMAIN journals /\ l \in DOMAIN journals
      BY <1>9, <1>11, <2>2
    <3>2. Of(journals[k], x) /\ Of(journals[l], x)
      BY <1>8, <1>11, <3>1
    <3> QED
      BY <3>1, <3>2 DEF Filed, OnFile
  <2> QED
    BY <2>1, <2>2
<1>12. ASSUME NEW j \in DOMAIN journals' \ crossed
       PROVE  journals'[j].status = "reversed" <=> ~Unwritten(j)'
  <2>0. Unwritten(j)' <=> \A k \in DOMAIN journals' : ~Of(journals'[k], j)
    BY DEF Unwritten, Of
  <2>1. ASSUME j \in DOMAIN journals PROVE j \in Subjects /\ j \in Nat \ {0}
    BY <1>3, <2>1 DEF Subjects
  <2>2. CASE j \in DOMAIN journals /\ j \notin r.on
    <3>1. journals[j].status = "reversed" <=> ~Unwritten(j)
      BY <1>12, <2>2 DEF Filed, OnFile
    <3> QED
      BY <1>5, <1>7, <1>9, <2>1, <2>2, <3>1
  <2>3. CASE j \in DOMAIN journals /\ j \in r.on
    <3>1. Unwritten(j) /\ r.job \in {"post", "reverse"}
      BY <1>3, <1>12, <2>1, <2>3, LedgerAssumption DEF InHand, Drafted
    <3>2. CASE r.job = "post"
      <4>1. DOMAIN r.drafts = {}
        BY <1>3, <3>2 DEF Drafted
      <4>2. Unwritten(j)'
        BY <1>7, <1>8, <2>0, <3>1, <4>1 DEF Unwritten
      <4> QED
        BY <1>5, <1>7, <2>3, <3>2, <4>2
    <3>3. CASE r.job = "reverse"
      <4>1. PICK k \in DOMAIN r.drafts : Of(r.drafts[k], j)
        BY <1>3, <2>3, <3>3 DEF Drafted
      <4>2. ~Unwritten(j)'
        BY <1>7, <2>0, <4>1
      <4> QED
        BY <1>5, <1>7, <2>3, <3>3, <4>2
    <3> QED
      BY <3>1, <3>2, <3>3
  <2>4. CASE j \notin DOMAIN journals
    <3>1. PICK k \in DOMAIN r.drafts : j = Len(journals) + k
      BY <1>7, <2>4
    <3>2. journals'[j].status # "reversed"
      BY <1>3, <1>7, <3>1 DEF Drafted
    <3>3. j \in Nat \ {0} /\ j \notin Entries
      BY <1>3, <3>1, LedgerAssumption
    <3>4. ASSUME NEW i \in DOMAIN journals' PROVE journals'[i].undoes # j
      <4>1. CASE i \in DOMAIN journals
        <5>1. Mirrors(journals[i]) /\ journals'[i].undoes = journals[i].undoes
          BY <1>5, <1>7, <4>1 DEF Filed, OnFile
        <5> QED
          BY <2>4, <3>3, <5>1 DEF Mirrors
      <4>2. CASE \E m \in DOMAIN r.drafts : i = Len(journals) + m
        <5>1. PICK m \in DOMAIN r.drafts : journals'[i] = r.drafts[m]
          BY <1>7, <4>2
        <5>2. Mirrors(r.drafts[m])
          BY <1>3 DEF InHand
        <5> QED
          BY <2>4, <3>3, <5>1, <5>2 DEF Mirrors
      <4> QED
        BY <1>7, <4>1, <4>2
    <3>5. Unwritten(j)'
      BY <2>0, <3>3, <3>4 DEF Of
    <3> QED
      BY <3>2, <3>5
  <2> QED
    BY <2>2, <2>3, <2>4
<1>13. OnFile'
  BY <1>4, <1>10, <1>11, <1>12 DEF OnFile, Of, Subjects
<1>14. ASSUME NEW v \in Workers PROVE Drafted(worker'[v]) /\ InHand(worker[v])'
  <2>1. CASE v = w
    <3>1. InHand(Idle)'
      BY IdleFiled DEF InHand, Idle
    <3> QED
      BY <1>4, <2>1, <3>1, IdleFiled
  <2>2. CASE v # w
    <3>1. PICK s : s = worker[v]
      OBVIOUS
    <3>2. /\ worker'[v] = s /\ Drafted(s) /\ InHand(s) /\ s.on \subseteq Subjects /\ s.on \cap r.on \subseteq crossed
      BY <1>1, <1>4, <2>2, <3>1, OnSubjects DEF Filed, Alone
    <3>3. ASSUME NEW x \in s.on
          PROVE  /\ x \in Nat => x \in DOMAIN journals'
                 /\ x \notin crossed' =>
                      /\ Unwritten(x)'
                      /\ x \in Nat => journals'[x].status = IF s.job = "post" THEN "draft" ELSE "posted"
      <4>1. x \in Nat => x \in DOMAIN journals /\ x \in DOMAIN journals'
        BY <1>7, <3>2 DEF InHand
      <4>2. ASSUME x \notin crossed PROVE x \notin r.on /\ Unwritten(x)'
        BY <1>9, <3>2, <4>2 DEF InHand
      <4>3. ASSUME x \notin crossed, x \in Nat
            PROVE  journals'[x].status = IF s.job = "post" THEN "draft" ELSE "posted"
        BY <1>5, <1>7, <3>2, <4>1, <4>2, <4>3 DEF InHand
      <4> QED
        BY <1>4, <4>1, <4>2, <4>3
    <3>4. (s.job # "post" => \A d \in s.todo : Mirrors(d)') /\ \A k \in DOMAIN s.drafts : Mirrors(s.drafts[k])'
      BY <1>8, <3>2 DEF InHand
    <3>5. InHand(s)'
      BY <3>3, <3>4 DEF InHand
    <3> QED
      BY <3>2, <3>5
  <2> QED
    BY <2>1, <2>2
<1>15. ASSUME NEW v \in Workers, NEW x \in Workers, v # x PROVE Alone(worker[v], worker[x])'
  BY <1>4, <1>15, IdleFiled DEF Filed, Alone, Idle
<1>16. \A v \in Workers : Drafted(worker[v])'
  BY <1>14 DEF Drafted, Of, Subjects
<1> QED
  BY <1>13, <1>14, <1>15, <1>16 DEF Filed

LEMMA EnterFiles ==
  ASSUME Inductive, Filed, NEW m \in Manual, EnterManual(m) PROVE Filed'
<1>1. PICK d : d = Draft(m, Today, None, 0)
  OBVIOUS
<1>2. d.of = None /\ d.undoes = 0 /\ d.status = "draft" /\ d \in Journal
  BY <1>1, LedgerAssumption, DraftType DEF Draft
<1>3. journals' = Append(journals, d) /\ worker' = worker /\ made' = made /\ crossed' = crossed
  BY <1>1 DEF EnterManual
<1>4. /\ DOMAIN journals' = DOMAIN journals \cup {Len(journals) + 1}
      /\ Len(journals) + 1 \in Nat \ {0} /\ Len(journals) + 1 \notin DOMAIN journals
      /\ journals'[Len(journals) + 1] = d
      /\ \A j \in DOMAIN journals : journals'[j] = journals[j] /\ j \in Nat \ {0}
  BY <1>2, <1>3 DEF Inductive, TypeOK
<1>5. \A x \in Subjects : ~Of(d, x)
  BY <1>2, LedgerAssumption DEF Of, Subjects
<1>6. ASSUME NEW x \in Subjects PROVE Unwritten(x)' <=> Unwritten(x)
  <2>1. Unwritten(x)' <=> \A k \in DOMAIN journals' : ~Of(journals'[k], x)
    BY DEF Unwritten, Of
  <2> QED
    BY <1>4, <1>5, <2>1 DEF Unwritten
<1>7. \A e : Mirrors(e) => Mirrors(e)'
  BY <1>4 DEF Mirrors
<1>8. (\A k \in DOMAIN journals :
         Mirrors(journals[k]) /\ (journals[k].of \in Entries => journals[k].of \in made))'
  <2>1. ASSUME NEW k \in DOMAIN journals
        PROVE  Mirrors(journals[k])' /\ (journals'[k].of \in Entries => journals'[k].of \in made')
    <3>1. Mirrors(journals[k]) /\ (journals[k].of \in Entries => journals[k].of \in made)
      BY DEF Filed, OnFile
    <3> QED
      BY <1>3, <1>4, <3>1 DEF Mirrors
  <2>2. d.of \notin Entries /\ d.undoes = 0
    BY <1>2, LedgerAssumption
  <2> QED
    BY <1>4, <2>1, <2>2 DEF Mirrors
<1>9. (\A x \in Subjects \ crossed : \A k, l \in DOMAIN journals :
         Of(journals[k], x) /\ Of(journals[l], x) => k = l)'
  <2> SUFFICES ASSUME NEW x \in Subjects \ crossed, NEW k \in DOMAIN journals', NEW l \in DOMAIN journals',
                      Of(journals'[k], x), Of(journals'[l], x)
               PROVE  k = l
    BY <1>3 DEF Of, Subjects
  <2>1. k \in DOMAIN journals /\ l \in DOMAIN journals
    BY <1>4, <1>5
  <2>2. Of(journals[k], x) /\ Of(journals[l], x)
    BY <1>4, <2>1
  <2> QED
    BY <2>1, <2>2 DEF Filed, OnFile
<1>10. ASSUME NEW j \in DOMAIN journals' \ crossed
       PROVE  journals'[j].status = "reversed" <=> ~Unwritten(j)'
  <2>1. j \in Subjects /\ j \notin Entries
    BY <1>4, LedgerAssumption DEF Subjects
  <2>2. CASE j \in DOMAIN journals
    BY <1>4, <1>6, <1>10, <2>1, <2>2 DEF Filed, OnFile
  <2>3. CASE j = Len(journals) + 1
    <3>1. \A k \in DOMAIN journals : journals[k].undoes # j
      BY <1>4, <2>3 DEF Filed, OnFile, Mirrors
    <3>2. Unwritten(j)
      BY <2>1, <3>1 DEF Unwritten, Of
    <3> QED
      BY <1>2, <1>4, <1>6, <2>1, <2>3, <3>2
  <2> QED
    BY <1>4, <2>2, <2>3
<1>11. OnFile'
  BY <1>3, <1>8, <1>9, <1>10 DEF OnFile
<1>12. ASSUME NEW v \in Workers PROVE InHand(worker[v])'
  <2>1. PICK s : s = worker[v]
    OBVIOUS
  <2>2. worker'[v] = s /\ InHand(s) /\ s.on \subseteq Subjects
    BY <1>3, <2>1, OnSubjects DEF Filed
  <2>3. \A x \in s.on : /\ x \in Nat => x \in DOMAIN journals /\ x \in DOMAIN journals' /\ journals'[x] = journals[x]
                        /\ Unwritten(x)' <=> Unwritten(x)
    BY <1>4, <1>6, <2>2 DEF InHand
  <2>4. InHand(s)'
    BY <1>3, <1>7, <2>2, <2>3 DEF InHand
  <2> QED
    BY <2>2, <2>4
<1>13. \A v \in Workers : Drafted(worker[v])'
  BY <1>3 DEF Filed, Drafted, Of, Subjects
<1> QED
  BY <1>3, <1>11, <1>12, <1>13 DEF Filed, Alone

LEMMA OtherFiles ==
  ASSUME Filed, UNCHANGED <<journals, worker, crossed>>, made \subseteq made' PROVE Filed'
<1>1. OnFile'
  BY DEF Filed, OnFile, Mirrors, Unwritten, Of
<1>2. \A w \in Workers : Drafted(worker[w])' /\ InHand(worker[w])'
  BY DEF Filed, Drafted, InHand, Mirrors, Unwritten, Of
<1> QED
  BY <1>1, <1>2 DEF Filed, Alone

-----------------------------------------------------------------------------
(* The rows of the book are the lines of the journals                        *)

Even(m) == SumFunctionOnSet(m, Accounts) = 0

Rows(b) == SumFunctionOnSet([j \in DOMAIN journals |-> journals[j].moves[b]], Standing)

Posted(r) == {k \in DOMAIN r.drafts : r.drafts[k].status # "draft"}
RowsOf(r, b) == SumFunctionOnSet([k \in DOMAIN r.drafts |-> r.drafts[k].moves[b]], Posted(r))

\* A request that posts a draft has moved nothing yet, or all of it and then
\* the draft is one still.
Posting(r) ==
  \E j \in DOMAIN journals :
    /\ r.on = {j}
    /\ \A d, e \in r.todo : d = e
    /\ \A d \in r.todo : d.moves = journals[j].moves
    /\ r.moved = IF r.todo = {} THEN journals[j].moves ELSE Nothing
    /\ r.moved # Nothing => journals[j].status = "draft"

\* Any other moves what it drafts, and reverses what was posted.
Tallied(r) ==
  /\ r.job = "post" => Posting(r)
  /\ r.job # "post" => \A b \in Books : r.moved[b] = RowsOf(r, b)
  /\ r.job = "reverse" => \A j \in r.on : journals[j].status # "draft"
  /\ Even(r.moved)
  /\ \A d \in r.todo : Even(d.moves)
  /\ \A k \in DOMAIN r.drafts : Even(r.drafts[k].moves)

Summed ==
  /\ \A b \in Books : book[b] = Rows(b)
  /\ Even(book)
  /\ \A j \in DOMAIN journals : Even(journals[j].moves)
  /\ \A w \in Workers : Tallied(worker[w])

LEMMA EvenNothing == Even(Nothing)
  BY LedgerAssumption, SumZero, BooksOf DEF Even, Nothing

LEMMA EvenPlus ==
  ASSUME NEW f \in Movement, NEW g \in Movement, Even(f), Even(g)
  PROVE  Even(Plus(f, g))
<1>1. \A a \in Accounts : f[a] \in Int /\ g[a] \in Int /\ Plus(f, g)[a] = f[a] + g[a]
  BY BooksOf, PlusType DEF Movement
<1>2. SumFunctionOnSet(Plus(f, g), Accounts) = SumFunctionOnSet(f, Accounts) + SumFunctionOnSet(g, Accounts)
  BY <1>1, LedgerAssumption, SumPlus
<1> QED
  BY <1>2 DEF Even

LEMMA EvenMirror ==
  ASSUME NEW m \in Movement, Even(m)
  PROVE  Even(MirrorOf(m))
<1>1. PICK n : n = MirrorOf(m)
  OBVIOUS
<1>2. n \in Movement /\ \A a \in Accounts : n[a] = -m[a]
  BY <1>1, MirrorType, BooksOf DEF MirrorOf
<1>3. \A a \in Accounts : m[a] \in Int /\ n[a] \in Int /\ Nothing[a] = m[a] + n[a]
  <2> SUFFICES ASSUME NEW a \in Accounts PROVE m[a] \in Int /\ n[a] \in Int /\ Nothing[a] = m[a] + n[a]
    OBVIOUS
  <2>1. m[a] \in Int /\ n[a] \in Int /\ Nothing[a] = 0
    BY <1>2, BooksOf, NothingType DEF Movement
  <2> QED
    BY <1>2, <2>1
<1>4. SumFunctionOnSet(Nothing, Accounts) = SumFunctionOnSet(m, Accounts) + SumFunctionOnSet(n, Accounts)
  BY <1>3, LedgerAssumption, SumPlus
<1>5. SumFunctionOnSet(n, Accounts) \in Int
  BY <1>3, LedgerAssumption, SumType
<1>6. SumFunctionOnSet(n, Accounts) = 0
  BY <1>4, <1>5, EvenNothing DEF Even
<1> QED
  BY <1>1, <1>6 DEF Even

\* Of what moves a book, there is an account that it moves.
LEMMA MovesAccount ==
  ASSUME NEW m \in Movement, Controlled(m), m # Nothing
  PROVE  \E a \in Accounts : m[a] # 0
<1>1. PICK b \in Books : m[b] # 0
  <2>1. ASSUME \A b \in Books : m[b] = 0 PROVE m = Nothing
    BY <2>1 DEF Movement, Nothing
  <2> QED
    BY <2>1
<1>2. CASE b \in Accounts
  BY <1>1, <1>2
<1>3. CASE b \in Parties
  BY <1>1, <1>3, LedgerAssumption DEF Controlled
<1> QED
  BY <1>1, <1>2, <1>3 DEF Books

LEMMA RowTypes ==
  ASSUME Inductive
  PROVE  /\ IsFiniteSet(Standing) /\ Standing \subseteq DOMAIN journals
         /\ \A j \in DOMAIN journals : journals[j].moves \in Movement
         /\ \A b \in Books : \A j \in DOMAIN journals : journals[j].moves[b] \in Int
<1>1. journals \in Seq(Journal)
  BY DEF Inductive, TypeOK
<1>2. IsFiniteSet(DOMAIN journals)
  <2>1. DOMAIN journals = 1 .. Len(journals) /\ Len(journals) \in Nat
    BY <1>1
  <2> QED
    BY <2>1, FS_Interval
<1>3. Standing \subseteq DOMAIN journals
  BY DEF Standing
<1>4. \A j \in DOMAIN journals : journals[j].moves \in Movement
  <2>1. \A j \in DOMAIN journals : journals[j] \in Journal
    BY <1>1
  <2> QED
    BY <2>1 DEF Journal
<1>5. \A b \in Books : \A j \in DOMAIN journals : journals[j].moves[b] \in Int
  BY <1>4 DEF Movement
<1>6. IsFiniteSet(Standing)
  BY <1>2, <1>3, FS_Subset
<1> QED
  BY <1>2, <1>3, <1>4, <1>5, <1>6

LEMMA DraftTypes ==
  ASSUME NEW r \in Worker
  PROVE  /\ IsFiniteSet(Posted(r)) /\ Posted(r) \subseteq DOMAIN r.drafts /\ DOMAIN r.drafts \subseteq Nat
         /\ \A k \in DOMAIN r.drafts : r.drafts[k] \in Journal /\ r.drafts[k].moves \in Movement
         /\ \A b \in Books : \A k \in DOMAIN r.drafts : r.drafts[k].moves[b] \in Int
<1>1. r.drafts \in Seq(Journal)
  BY DEF Worker
<1>2. IsFiniteSet(DOMAIN r.drafts) /\ DOMAIN r.drafts \subseteq Nat
  <2>1. DOMAIN r.drafts = 1 .. Len(r.drafts) /\ Len(r.drafts) \in Nat
    BY <1>1
  <2> QED
    BY <2>1, FS_Interval
<1>3. Posted(r) \subseteq DOMAIN r.drafts
  BY DEF Posted
<1>4. \A k \in DOMAIN r.drafts : r.drafts[k] \in Journal /\ r.drafts[k].moves \in Movement
  <2>1. \A k \in DOMAIN r.drafts : r.drafts[k] \in Journal
    BY <1>1
  <2> QED
    BY <2>1 DEF Journal
<1>5. \A b \in Books : \A k \in DOMAIN r.drafts : r.drafts[k].moves[b] \in Int
  BY <1>4 DEF Movement
<1>6. IsFiniteSet(Posted(r))
  BY <1>2, <1>3, FS_Subset
<1> QED
  BY <1>2, <1>3, <1>4, <1>5, <1>6

\* Nothing moved and nothing drafted.
LEMMA NothingTallied ==
  ASSUME NEW r, r.job # "post", r.drafts = <<>>, r.moved = Nothing,
         \A d \in r.todo : Even(d.moves),
         r.job = "reverse" => \A j \in r.on : journals[j].status # "draft"
  PROVE  Tallied(r)
<1>1. DOMAIN r.drafts = {} /\ Posted(r) = {}
  BY DEF Posted
<1>2. \A b \in Books : r.moved[b] = RowsOf(r, b)
  BY <1>1, NothingType, SumEmpty DEF RowsOf
<1> QED
  BY <1>1, <1>2, EvenNothing DEF Tallied

\* A step of one request that leaves the journals and the book alone.
LEMMA SummedStep ==
  ASSUME Inductive, Summed, NEW w \in Workers, NEW u, Step(w, u),
         journals' = journals, book' = book, Tallied(u)
  PROVE  Summed'
<1>1. \A v \in Workers : worker'[v] = IF v = w THEN u ELSE worker[v]
  BY DEF Inductive, TypeOK, Step
<1>2. (\A b \in Books : book[b] = Rows(b))' /\ Even(book)' /\ (\A j \in DOMAIN journals : Even(journals[j].moves))'
  BY DEF Summed, Rows, Standing, Even
<1>3. ASSUME NEW v \in Workers PROVE Tallied(worker[v])'
  <2>1. PICK r : r = worker'[v] /\ Tallied(r)
    BY <1>1 DEF Summed
  <2>2. Tallied(r)'
    BY <2>1 DEF Tallied, Posting, RowsOf, Posted, Even
  <2> QED
    BY <2>1, <2>2
<1> QED
  BY <1>2, <1>3 DEF Summed

LEMMA FailSums == ASSUME Inductive, Summed, NEW w \in Workers, Fail(w) PROVE Summed'
<1>1. Idle.job = None /\ Idle.drafts = <<>> /\ Idle.moved = Nothing /\ Idle.todo = {} /\ Idle.on = {}
  BY DEF Idle
<1>2. Tallied(Idle)
  BY <1>1, NothingTallied, LedgerAssumption
<1>3. Step(w, Idle) /\ journals' = journals /\ book' = book
  BY DEF Fail
<1> QED
  BY <1>2, <1>3, SummedStep

LEMMA BeginSums ==
  ASSUME Inductive, Summed, NEW w \in Workers, NEW job, NEW on, NEW todo, NEW pay,
         Begin(w, job, on, todo, pay),
         \A u : u.job = job /\ u.on = on /\ u.todo = todo /\ u.drafts = <<>> /\ u.moved = Nothing => Tallied(u)
  PROVE  Summed'
<1>1. PICK u : u = [Idle EXCEPT !.job = job, !.on = on, !.todo = todo, !.pay = pay]
  OBVIOUS
<1>2. u.job = job /\ u.on = on /\ u.todo = todo /\ u.drafts = <<>> /\ u.moved = Nothing
  BY <1>1 DEF Idle
<1>3. Step(w, u) /\ journals' = journals /\ book' = book
  BY <1>1 DEF Begin
<1> QED
  BY <1>2, <1>3, SummedStep

LEMMA AutomaticSums ==
  ASSUME Inductive, Summed, NEW w \in Workers, Automatic(w) PROVE Summed'
<1>1. \A e \in Entries : Even(JournalOf(e).moves)
  BY LedgerAssumption DEF JournalOf, Draft, Even, Range
<1>2. ASSUME NEW e \in Entries, Record(w, e) PROVE Summed'
  <2>1. Begin(w, "record", {e}, {JournalOf(e)}, 0)
    BY <1>2 DEF Record
  <2>2. ASSUME NEW u, u.job = "record", u.on = {e}, u.todo = {JournalOf(e)}, u.drafts = <<>>, u.moved = Nothing
        PROVE  Tallied(u)
    BY <1>1, <2>2, NothingTallied
  <2> QED
    BY <2>1, <2>2, BeginSums
<1>3. CASE PostMissing(w)
  <2>1. PICK todo : todo = {JournalOf(e) : e \in Unposted}
    OBVIOUS
  <2>2. Begin(w, "missing", Unposted, todo, 0)
    BY <1>3, <2>1 DEF PostMissing
  <2>3. \A d \in todo : Even(d.moves)
    BY <1>1, <2>1, LedgerAssumption DEF Unposted
  <2>4. ASSUME NEW u, u.job = "missing", u.on = Unposted, u.todo = todo, u.drafts = <<>>, u.moved = Nothing
        PROVE  Tallied(u)
    BY <2>3, <2>4, NothingTallied
  <2> QED
    BY <2>2, <2>4, BeginSums
<1> QED
  BY <1>2, <1>3 DEF Automatic

LEMMA ByHandSums ==
  ASSUME Inductive, Summed, NEW w \in Workers, ByHand(w) PROVE Summed'
<1>1. ASSUME NEW j \in DOMAIN journals, PostDraft(w, j) PROVE Summed'
  <2>1. Begin(w, "post", {j}, {journals[j]}, 0) /\ journals[j].status = "draft" /\ Even(journals[j].moves)
    BY <1>1 DEF PostDraft, Summed
  <2>2. ASSUME NEW u, u.job = "post", u.on = {j}, u.todo = {journals[j]}, u.drafts = <<>>, u.moved = Nothing
        PROVE  Tallied(u)
    <3>1. Posting(u)
      BY <2>2 DEF Posting
    <3>2. DOMAIN u.drafts = {}
      BY <2>2
    <3> QED
      BY <2>1, <2>2, <3>1, <3>2, EvenNothing DEF Tallied
  <2> QED
    BY <2>1, <2>2, BeginSums
<1>2. ASSUME NEW j \in DOMAIN journals, Reverse(w, j) PROVE Summed'
  <2>1. PICK d : d = Draft(MirrorOf(journals[j].moves), Today, None, j)
    OBVIOUS
  <2>2. Begin(w, "reverse", {j}, {d}, 0) /\ journals[j].status = "posted"
    BY <1>2, <2>1 DEF Reverse, Reversible
  <2>3. Even(d.moves)
    BY <2>1, RowTypes, EvenMirror DEF Draft, Summed
  <2>4. ASSUME NEW u, u.job = "reverse", u.on = {j}, u.todo = {d}, u.drafts = <<>>, u.moved = Nothing
        PROVE  Tallied(u)
    BY <2>2, <2>3, <2>4, NothingTallied
  <2> QED
    BY <2>2, <2>4, BeginSums
<1>3. ASSUME NEW n \in DOMAIN Pay, PaySupplier(w, n) PROVE Summed'
  <2>1. PICK d : d = Draft(Pay[n], Today, None, 0)
    OBVIOUS
  <2>2. Begin(w, "pay", {}, {d}, n)
    BY <1>3, <2>1 DEF PaySupplier
  <2>3. Even(d.moves)
    BY <2>1, LedgerAssumption DEF Draft, Even, Range
  <2>4. ASSUME NEW u, u.job = "pay", u.on = {}, u.todo = {d}, u.drafts = <<>>, u.moved = Nothing
        PROVE  Tallied(u)
    BY <2>3, <2>4, NothingTallied
  <2> QED
    BY <2>2, <2>4, BeginSums
<1> QED
  BY <1>1, <1>2, <1>3 DEF ByHand

\* A request moves what it drafts as it drafts it.
LEMMA WriteSums ==
  ASSUME Inductive, Filed, Summed, NEW w \in Workers, NEW d \in worker[w].todo, Write(w, d)
  PROVE  Summed'
<1>1. PICK r : r = worker[w]
  OBVIOUS
<1>2. r \in Worker /\ d \in r.todo /\ d \in Journal /\ d.moves \in Movement /\ Tallied(r) /\ Drafted(r)
      /\ r.drafts \in Seq(Journal) /\ r.moved \in Movement
  <2>1. r \in Worker /\ d \in r.todo /\ Tallied(r) /\ Drafted(r)
    BY <1>1 DEF Inductive, TypeOK, Summed, Filed
  <2>2. d \in Journal /\ r.drafts \in Seq(Journal) /\ r.moved \in Movement
    BY <2>1 DEF Worker
  <2> QED
    BY <2>1, <2>2 DEF Journal
<1>3. PICK e : e = IF MayPost(d) THEN [d EXCEPT !.status = "posted"] ELSE d
  OBVIOUS
<1>4. e.moves = d.moves /\ e \in Journal /\ e.status = IF MayPost(d) THEN "posted" ELSE d.status
  BY <1>2, <1>3 DEF Journal
<1>5. PICK drafts : drafts = IF r.job = "post" THEN r.drafts ELSE Append(r.drafts, e)
  OBVIOUS
<1>6. PICK moves : moves = IF MayPost(d) THEN d.moves ELSE Nothing
  OBVIOUS
<1>7. PICK u : u = [r EXCEPT !.todo = r.todo \ {d}, !.drafts = drafts,
                             !.held = r.held \cup {b \in Books : d.moves[b] # 0},
                             !.own = [b \in Books |-> View(w, b) + moves[b]],
                             !.moved = Plus(r.moved, moves)]
  OBVIOUS
<1>8. Step(w, u) /\ journals' = journals /\ book' = book
  BY <1>1, <1>3, <1>5, <1>6, <1>7 DEF Write
<1>9. u.job = r.job /\ u.on = r.on /\ u.todo = r.todo \ {d} /\ u.drafts = drafts /\ u.moved = Plus(r.moved, moves)
  BY <1>2, <1>7 DEF Worker
<1>10. moves \in Movement /\ Even(moves) /\ Even(d.moves)
  BY <1>2, <1>6, NothingType, EvenNothing DEF Tallied
<1>11. /\ Even(u.moved)
       /\ \A b \in Books : u.moved[b] = r.moved[b] + moves[b] /\ r.moved[b] \in Int /\ moves[b] \in Int
       /\ u.moved \in Movement
  <2>1. Even(u.moved)
    BY <1>2, <1>9, <1>10, EvenPlus DEF Tallied
  <2>2. u.moved \in Movement /\ \A b \in Books : u.moved[b] = r.moved[b] + moves[b]
    BY <1>2, <1>9, <1>10, PlusType
  <2> QED
    BY <1>2, <1>10, <2>1, <2>2 DEF Movement
<1>12. CASE r.job = "post"
  <2>1. PICK j \in DOMAIN journals :
          /\ r.on = {j} /\ r.todo = {d} /\ d.moves = journals[j].moves /\ r.moved = Nothing
    BY <1>2, <1>12 DEF Tallied, Posting
  <2>2. MayPost(d) /\ journals[j].status = "draft"
    BY <1>1, <1>12, <2>1 DEF Write, KeyFree
  <2>3. u.moved = d.moves
    <3>1. \A b \in Books : u.moved[b] = d.moves[b]
      BY <1>2, <1>6, <1>11, <2>1, <2>2, NothingType DEF Movement
    <3> QED
      BY <1>2, <1>11, <3>1 DEF Movement
  <2>4. Posting(u)
    BY <1>9, <2>1, <2>2, <2>3 DEF Posting
  <2>5. drafts = r.drafts
    BY <1>5, <1>12
  <2>6. Tallied(u)
    BY <1>2, <1>9, <1>11, <1>12, <2>4, <2>5 DEF Tallied
  <2> QED
    BY <1>8, <2>6, SummedStep
<1>13. CASE r.job # "post"
  <2>1. PICK n : n = Len(r.drafts) + 1
    OBVIOUS
  <2>2. /\ DOMAIN drafts = DOMAIN r.drafts \cup {n} /\ n \notin DOMAIN r.drafts
        /\ \A k \in DOMAIN r.drafts : drafts[k] = r.drafts[k]
        /\ drafts[n] = e
    BY <1>2, <1>4, <1>5, <1>13, <2>1
  <2>3. d.status = "draft"
    BY <1>2, <1>13 DEF Drafted
  <2>4. /\ n \notin Posted(r)
        /\ Posted(u) = IF MayPost(d) THEN Posted(r) \cup {n} ELSE Posted(r)
    BY <1>4, <1>9, <2>2, <2>3 DEF Posted
  <2>5. ASSUME NEW b \in Books PROVE u.moved[b] = RowsOf(u, b)
    <3>1. PICK f : f = [k \in DOMAIN r.drafts |-> r.drafts[k].moves[b]]
      OBVIOUS
    <3>2. PICK g : g = [k \in DOMAIN drafts |-> drafts[k].moves[b]]
      OBVIOUS
    <3>3. /\ IsFiniteSet(Posted(r)) /\ Posted(r) \subseteq DOMAIN r.drafts
          /\ \A k \in Posted(r) : f[k] = g[k] /\ g[k] \in Int
      BY <1>2, <2>2, <3>1, <3>2, DraftTypes
    <3>4. r.moved[b] = SumFunctionOnSet(g, Posted(r))
      <4>1. SumFunctionOnSet(f, Posted(r)) = SumFunctionOnSet(g, Posted(r))
        BY <3>3, SumSame
      <4> QED
        BY <1>2, <1>13, <3>1, <4>1 DEF Tallied, RowsOf
    <3>5. RowsOf(u, b) = SumFunctionOnSet(g, Posted(u))
      BY <1>9, <3>2 DEF RowsOf
    <3>6. CASE MayPost(d)
      <4>1. g[n] = d.moves[b] /\ moves[b] = d.moves[b]
        BY <1>4, <1>6, <2>2, <3>2, <3>6
      <4>2. \A k \in Posted(r) \cup {n} : g[k] \in Int
        BY <1>11, <3>3, <4>1
      <4>3. PICK S : S = Posted(r)
        OBVIOUS
      <4>4. SumFunctionOnSet(g, S \cup {n}) = SumFunctionOnSet(g, S) + g[n]
        BY <2>4, <3>3, <4>2, <4>3, SumAdd
      <4> QED
        BY <1>11, <2>4, <3>4, <3>5, <3>6, <4>1, <4>3, <4>4
    <3>7. CASE ~MayPost(d)
      <4>1. u.moved[b] = r.moved[b]
        BY <1>6, <1>11, <3>7, NothingType
      <4> QED
        BY <2>4, <3>4, <3>5, <3>7, <4>1
    <3> QED
      BY <3>6, <3>7
  <2>6. \A k \in DOMAIN drafts : Even(drafts[k].moves)
    BY <1>2, <1>4, <1>10, <2>2 DEF Tallied
  <2>7. Tallied(u)
    BY <1>2, <1>9, <1>11, <1>13, <2>5, <2>6 DEF Tallied
  <2> QED
    BY <1>8, <2>7, SummedStep
<1> QED
  BY <1>12, <1>13

\* Two requests never move the lines of the same draft.
LEMMA PostsApart ==
  ASSUME Inductive, Summed, NEW v \in Workers, NEW w \in Workers, v # w, NEW j \in DOMAIN journals,
         worker[v].job = "post", worker[v].on = {j}, worker[v].moved # Nothing,
         worker[w].job = "post", worker[w].on = {j}, worker[w].todo = {}
  PROVE  FALSE
<1>1. /\ Tallied(worker[v]) /\ Tallied(worker[w]) /\ Request(worker[v]) /\ Request(worker[w])
      /\ Apart(worker[v], worker[w])
  BY DEF Summed, Inductive
<1>2. worker[v].moved = journals[j].moves /\ worker[w].moved = journals[j].moves
  BY <1>1 DEF Tallied, Posting
<1>3. journals[j].moves \in Movement /\ Controlled(journals[j].moves)
  BY RowTypes DEF Inductive
<1>4. PICK a \in Accounts : journals[j].moves[a] # 0
  BY <1>2, <1>3, MovesAccount
<1>5. a \in worker[v].held /\ a \in worker[w].held
  BY <1>1, <1>2, <1>4, BooksOf DEF Request
<1> QED
  BY <1>1, <1>5 DEF Apart

\* A commit adds to the rows what the request moved.
LEMMA CommitRows ==
  ASSUME Inductive, Filed, Summed, NEW w \in Workers, Commit(w), NEW b \in Books
  PROVE  Rows(b)' = Rows(b) + worker[w].moved[b]
<1>1. PICK r : r = worker[w]
  OBVIOUS
<1>2. PICK marked : marked = [j \in DOMAIN journals |-> Marked(w, j)]
  OBVIOUS
<1>3. r \in Worker /\ Tallied(r) /\ Drafted(r) /\ InHand(r) /\ r.todo = {}
  BY <1>1 DEF Inductive, TypeOK, Summed, Filed, Commit
<1>4. /\ \A j \in DOMAIN journals :
           /\ j \in DOMAIN journals' /\ journals'[j].moves = journals[j].moves
           /\ journals'[j].status = IF j \notin r.on THEN journals[j].status
                                    ELSE IF r.job = "post" THEN "posted" ELSE "reversed"
      /\ \A k \in DOMAIN r.drafts : /\ Len(journals) + k \in DOMAIN journals' \ DOMAIN journals
                                    /\ journals'[Len(journals) + k] = r.drafts[k]
      /\ \A i \in DOMAIN journals' :
           i \in DOMAIN journals \/ \E k \in DOMAIN r.drafts : i = Len(journals) + k
  BY <1>1, <1>2, Committed
<1>5. PICK f : f = [j \in DOMAIN journals |-> journals[j].moves[b]]
  OBVIOUS
<1>6. PICK g : g = [j \in DOMAIN journals' |-> journals'[j].moves[b]]
  OBVIOUS
<1>7. PICK S : S = Standing
  OBVIOUS
<1>8. /\ IsFiniteSet(S) /\ S \subseteq DOMAIN journals
      /\ \A j \in DOMAIN journals : f[j] \in Int /\ g[j] = f[j]
      /\ Rows(b) = SumFunctionOnSet(f, S)
  BY <1>4, <1>5, <1>6, <1>7, RowTypes DEF Rows
<1>9. SumFunctionOnSet(g, S) = Rows(b)
  <2>1. SumFunctionOnSet(g, S) = SumFunctionOnSet(f, S)
    BY <1>8, SumSame
  <2> QED
    BY <1>8, <2>1
<1>10. Rows(b)' = SumFunctionOnSet(g, Standing')
  BY <1>6 DEF Rows
<1>11. Standing' = {j \in DOMAIN journals' : journals'[j].status # "draft"}
  BY DEF Standing
<1>12. Rows(b) \in Int
  BY <1>8, SumType
<1>13. CASE r.job = "post"
  <2>1. PICK j \in DOMAIN journals :
          /\ r.on = {j} /\ r.moved = journals[j].moves
          /\ r.moved # Nothing => journals[j].status = "draft"
    BY <1>3, <1>13 DEF Tallied, Posting
  <2>2. DOMAIN r.drafts = {}
    BY <1>3, <1>13 DEF Drafted
  <2>3. Standing' = S \cup {j}
    BY <1>4, <1>7, <1>11, <1>13, <2>1, <2>2 DEF Standing
  <2>4. g[j] = r.moved[b] /\ g[j] \in Int
    BY <1>5, <1>8, <2>1
  <2>5. CASE j \in S
    <3>1. r.moved = Nothing
      BY <1>7, <2>1, <2>5 DEF Standing
    <3>2. S \cup {j} = S /\ r.moved[b] = 0
      BY <2>5, <3>1, NothingType
    <3> QED
      BY <1>1, <1>9, <1>10, <1>12, <2>3, <3>2
  <2>6. CASE j \notin S
    <3>1. \A x \in S \cup {j} : g[x] \in Int
      BY <1>8, <2>4
    <3>2. SumFunctionOnSet(g, S \cup {j}) = SumFunctionOnSet(g, S) + g[j]
      BY <1>8, <2>6, <3>1, SumAdd
    <3> QED
      BY <1>1, <1>9, <1>10, <2>3, <2>4, <3>2
  <2> QED
    BY <2>5, <2>6
<1>14. CASE r.job # "post"
  <2>1. PICK h : h = [k \in DOMAIN r.drafts |-> r.drafts[k].moves[b]]
    OBVIOUS
  <2>2. PICK T : T = Posted(r)
    OBVIOUS
  <2>3. PICK n : n = Len(journals)
    OBVIOUS
  <2>4. n \in Nat
    BY <2>3 DEF Inductive, TypeOK
  <2>5. /\ IsFiniteSet(T) /\ T \subseteq DOMAIN r.drafts /\ T \subseteq Nat
        /\ \A k \in T : h[k] \in Int
    BY <1>3, <2>1, <2>2, DraftTypes
  <2>6. \A k \in T : n + k \notin S /\ g[n + k] = h[k] /\ h[k] \in Int
    BY <1>4, <1>6, <1>8, <2>1, <2>3, <2>5
  <2>7. \A j \in DOMAIN journals : journals'[j].status # "draft" <=> journals[j].status # "draft"
    <3>1. ASSUME NEW j \in DOMAIN journals, j \in r.on PROVE r.job = "reverse"
      <4>1. j \in Nat \ {0} /\ j \notin Entries
        BY LedgerAssumption DEF Inductive, TypeOK
      <4> QED
        BY <1>3, <1>14, <3>1, <4>1 DEF Drafted
    <3> QED
      BY <1>3, <1>4, <3>1 DEF Tallied
  <2>8. Standing' = S \cup {n + k : k \in T}
    <3>1. ASSUME NEW i \in DOMAIN journals', i \notin DOMAIN journals
          PROVE  journals'[i].status # "draft" <=> \E k \in T : i = n + k
      <4>1. PICK k \in DOMAIN r.drafts : i = n + k /\ journals'[i] = r.drafts[k]
        BY <1>4, <2>3, <3>1
      <4>2. \A l \in T : i = n + l => l = k
        <5>1. k \in Nat /\ \A l \in T : l \in Nat
          BY <1>3, <2>5, DraftTypes
        <5> QED
          BY <2>4, <4>1, <5>1
      <4> QED
        BY <2>2, <4>1, <4>2 DEF Posted
    <3>2. \A k \in T : n + k \in DOMAIN journals' /\ n + k \notin DOMAIN journals
      BY <1>4, <2>3, <2>5
    <3>3. \A i \in DOMAIN journals : i \in DOMAIN journals' /\ (i \in S <=> journals'[i].status # "draft")
      BY <1>4, <1>7, <2>7 DEF Standing
    <3> QED
      BY <1>8, <1>11, <3>1, <3>2, <3>3
  <2>9. IsFiniteSet(S \cup {n + k : k \in T})
    <3>1. journals' \in Seq(Journal)
      BY CommitStep DEF Inductive, TypeOK
    <3>2. IsFiniteSet(DOMAIN journals')
      <4>1. DOMAIN journals' = 1 .. Len(journals') /\ Len(journals') \in Nat
        BY <3>1
      <4> QED
        BY <4>1, FS_Interval
    <3> QED
      BY <1>11, <2>8, <3>2, FS_Subset
  <2>10. SumFunctionOnSet(g, S \cup {n + k : k \in T}) = SumFunctionOnSet(g, S) + SumFunctionOnSet(h, T)
    <3>1. \A x \in S : g[x] \in Int
      BY <1>8
    <3> QED
      BY <1>8, <2>4, <2>5, <2>6, <2>9, <3>1, SumAppended
  <2>11. SumFunctionOnSet(h, T) = r.moved[b]
    BY <1>3, <1>14, <2>1, <2>2 DEF Tallied, RowsOf
  <2> QED
    BY <1>1, <1>9, <1>10, <2>8, <2>10, <2>11
<1> QED
  BY <1>13, <1>14

LEMMA CommitSums ==
  ASSUME Inductive, Filed, Summed, NEW w \in Workers, Commit(w) PROVE Summed'
<1>1. PICK r : r = worker[w]
  OBVIOUS
<1>2. PICK marked : marked = [j \in DOMAIN journals |-> Marked(w, j)]
  OBVIOUS
<1>3. r \in Worker /\ Tallied(r) /\ Drafted(r) /\ r.todo = {} /\ r.moved \in Movement /\ book \in Movement
  BY <1>1 DEF Inductive, TypeOK, Summed, Filed, Commit, Worker
<1>4. /\ \A j \in DOMAIN journals :
           /\ j \in DOMAIN journals' /\ journals'[j].moves = journals[j].moves
           /\ journals'[j].status = IF j \notin r.on THEN journals[j].status
                                    ELSE IF r.job = "post" THEN "posted" ELSE "reversed"
      /\ \A k \in DOMAIN r.drafts : journals'[Len(journals) + k] = r.drafts[k]
      /\ \A i \in DOMAIN journals' :
           i \in DOMAIN journals \/ \E k \in DOMAIN r.drafts : i = Len(journals) + k
  BY <1>1, <1>2, Committed
<1>5. book' = Plus(book, r.moved) /\ \A v \in Workers : worker'[v] = IF v = w THEN Idle ELSE worker[v]
  BY <1>1 DEF Commit, Step, Inductive, TypeOK
<1>6. (\A b \in Books : book[b] = Rows(b))'
  <2>1. ASSUME NEW b \in Books PROVE book'[b] = Rows(b)'
    BY <1>1, <1>3, <1>5, PlusType, CommitRows DEF Summed
  <2> QED
    BY <2>1
<1>7. Even(book)'
  <2>1. Even(Plus(book, r.moved))
    BY <1>3, EvenPlus DEF Summed, Tallied
  <2> QED
    BY <1>5, <2>1 DEF Even
<1>8. (\A j \in DOMAIN journals : Even(journals[j].moves))'
  <2>1. ASSUME NEW j \in DOMAIN journals' PROVE Even(journals'[j].moves)
    BY <1>3, <1>4 DEF Summed, Tallied
  <2> QED
    BY <2>1 DEF Even
<1>9. ASSUME NEW v \in Workers PROVE Tallied(worker[v])'
  <2>1. CASE v = w
    <3>1. Idle.job = None /\ Idle.drafts = <<>> /\ Idle.moved = Nothing /\ Idle.todo = {} /\ Idle.on = {}
      BY DEF Idle
    <3>2. Tallied(Idle)
      BY <3>1, NothingTallied, LedgerAssumption
    <3>3. Tallied(Idle)'
      BY <3>1, <3>2, LedgerAssumption DEF Tallied, RowsOf, Posted, Even
    <3> QED
      BY <1>5, <2>1, <3>3
  <2>2. CASE v # w
    <3>1. PICK s : s = worker[v]
      OBVIOUS
    <3>2. Tallied(s) /\ Drafted(s) /\ InHand(s) /\ s \in Worker
      BY <3>1 DEF Summed, Filed, Inductive, TypeOK
    <3>3. s.job = "post" => Posting(s)'
      <4>1. SUFFICES ASSUME s.job = "post" PROVE Posting(s)'
        OBVIOUS
      <4>2. PICK j \in DOMAIN journals :
              /\ s.on = {j}
              /\ \A d, e \in s.todo : d = e
              /\ \A d \in s.todo : d.moves = journals[j].moves
              /\ s.moved = IF s.todo = {} THEN journals[j].moves ELSE Nothing
              /\ s.moved # Nothing => journals[j].status = "draft"
        BY <3>2, <4>1 DEF Tallied, Posting
      <4>3. ASSUME s.moved # Nothing PROVE journals'[j].status = "draft"
        <5>1. j \notin r.on
          <6>1. j \in Nat \ {0} /\ j \notin Entries
            BY LedgerAssumption DEF Inductive, TypeOK
          <6>2. SUFFICES ASSUME j \in r.on PROVE FALSE
            OBVIOUS
          <6>3. r.job \in {"post", "reverse"}
            BY <1>3, <6>1, <6>2 DEF Drafted
          <6>4. CASE r.job = "reverse"
            BY <1>3, <4>2, <4>3, <6>2, <6>4 DEF Tallied
          <6>5. CASE r.job = "post"
            <7>1. r.on = {j}
              BY <1>3, <6>2, <6>5 DEF Tallied, Posting
            <7> QED
              BY <1>1, <1>3, <2>2, <3>1, <4>1, <4>2, <4>3, <6>5, <7>1, PostsApart
          <6> QED
            BY <6>3, <6>4, <6>5
        <5> QED
          BY <1>4, <4>2, <4>3, <5>1
      <4>4. j \in DOMAIN journals' /\ journals'[j].moves = journals[j].moves
        BY <1>4
      <4> QED
        BY <4>2, <4>3, <4>4 DEF Posting
    <3>4. s.job = "reverse" => \A j \in s.on : journals'[j].status # "draft"
      <4>1. ASSUME s.job = "reverse", NEW j \in s.on PROVE j \in DOMAIN journals
        BY <3>2, <4>1 DEF Drafted, InHand
      <4> QED
        BY <1>4, <3>2, <4>1 DEF Tallied
    <3>5. Tallied(s)'
      BY <3>2, <3>3, <3>4 DEF Tallied, RowsOf, Posted, Even
    <3> QED
      BY <1>5, <2>2, <3>1, <3>5
  <2> QED
    BY <2>1, <2>2
<1> QED
  BY <1>6, <1>7, <1>8, <1>9 DEF Summed

\* A draft is no row yet.
LEMMA EnterSums ==
  ASSUME Inductive, Filed, Summed, NEW m \in Manual, EnterManual(m) PROVE Summed'
<1>1. PICK d : d = Draft(m, Today, None, 0)
  OBVIOUS
<1>2. d.status = "draft" /\ d.moves = m /\ Even(d.moves) /\ d \in Journal
  BY <1>1, LedgerAssumption, DraftType DEF Draft, Even
<1>3. journals' = Append(journals, d) /\ worker' = worker /\ book' = book
  BY <1>1 DEF EnterManual
<1>4. PICK n : n = Len(journals) + 1
  OBVIOUS
<1>5. /\ DOMAIN journals' = DOMAIN journals \cup {n} /\ n \notin DOMAIN journals
      /\ journals'[n] = d
      /\ \A j \in DOMAIN journals : journals'[j] = journals[j]
  BY <1>2, <1>3, <1>4 DEF Inductive, TypeOK
<1>6. Standing' = Standing
  BY <1>2, <1>5 DEF Standing
<1>7. ASSUME NEW b \in Books PROVE Rows(b)' = Rows(b)
  <2>1. PICK f : f = [j \in DOMAIN journals |-> journals[j].moves[b]]
    OBVIOUS
  <2>2. PICK g : g = [j \in DOMAIN journals' |-> journals'[j].moves[b]]
    OBVIOUS
  <2>3. IsFiniteSet(Standing) /\ \A j \in Standing : g[j] = f[j]
    BY <1>5, <2>1, <2>2, RowTypes
  <2>4. SumFunctionOnSet(g, Standing) = SumFunctionOnSet(f, Standing)
    BY <2>3, SumSame
  <2>5. Rows(b)' = SumFunctionOnSet(g, Standing')
    BY <2>2 DEF Rows
  <2> QED
    BY <1>6, <2>1, <2>4, <2>5 DEF Rows
<1>8. (\A b \in Books : book[b] = Rows(b))' /\ Even(book)'
  BY <1>3, <1>7 DEF Summed, Even
<1>9. (\A j \in DOMAIN journals : Even(journals[j].moves))'
  BY <1>2, <1>5 DEF Summed, Even
<1>10. ASSUME NEW v \in Workers PROVE Tallied(worker[v])'
  <2>1. PICK s : s = worker[v]
    OBVIOUS
  <2>2. Tallied(s) /\ Drafted(s) /\ InHand(s)
    BY <2>1 DEF Summed, Filed
  <2>3. s.job = "post" => Posting(s)'
    BY <1>5, <2>2 DEF Tallied, Posting
  <2>4. s.job = "reverse" => \A j \in s.on : journals'[j].status # "draft"
    BY <1>5, <2>2 DEF Tallied, Drafted, InHand
  <2>5. Tallied(s)'
    BY <2>2, <2>3, <2>4 DEF Tallied, RowsOf, Posted, Even
  <2> QED
    BY <1>3, <2>1, <2>5
<1> QED
  BY <1>8, <1>9, <1>10 DEF Summed

LEMMA OtherSums ==
  ASSUME Summed, UNCHANGED <<journals, worker, book>> PROVE Summed'
<1>1. (\A b \in Books : book[b] = Rows(b))' /\ Even(book)' /\ (\A j \in DOMAIN journals : Even(journals[j].moves))'
  BY DEF Summed, Rows, Standing, Even
<1>2. ASSUME NEW v \in Workers PROVE Tallied(worker[v])'
  <2>1. PICK r : r = worker[v]
    OBVIOUS
  <2>2. Tallied(r)'
    BY <2>1 DEF Summed, Tallied, Posting, RowsOf, Posted, Even
  <2> QED
    BY <2>1, <2>2
<1> QED
  BY <1>1, <1>2 DEF Summed

LEMMA InitSummed == Init => Summed
<1> SUFFICES ASSUME Init PROVE Summed
  OBVIOUS
<1>1. DOMAIN journals = {} /\ Standing = {} /\ book = Nothing
  BY DEF Init, Standing
<1>2. \A b \in Books : book[b] = Rows(b)
  BY <1>1, NothingType, SumEmpty DEF Rows
<1>3. Idle.job = None /\ Idle.drafts = <<>> /\ Idle.moved = Nothing /\ Idle.todo = {} /\ Idle.on = {}
  BY DEF Idle
<1>4. Tallied(Idle)
  BY <1>3, NothingTallied, LedgerAssumption
<1>5. \A w \in Workers : Tallied(worker[w])
  BY <1>4 DEF Init
<1> QED
  BY <1>1, <1>2, <1>5, EvenNothing DEF Summed

-----------------------------------------------------------------------------
(* Theorems                                                                  *)

LEMMA NextInductive == Inductive /\ [Next]_vars => Inductive'
<1> SUFFICES ASSUME Inductive, [Next]_vars PROVE Inductive'
  OBVIOUS
<1>1. ASSUME NEW w \in Workers, Proceed(w) PROVE Inductive'
  BY <1>1, WriteStep, CommitStep, FailStep DEF Proceed
<1>2. CASE UNCHANGED vars
  BY <1>2 DEF vars, Inductive, TypeOK, BalancesTold, NeverOverpaid, Request, Apart, Controlled
<1> QED
  BY <1>1, <1>2, AutomaticStep, ByHandStep, ImportStep, EnterStep, AccountStep DEF Next

THEOREM Invariance == Spec => []Inductive
  BY InitInductive, NextInductive, PTL DEF Spec

\* Every variable keeps its type.
THEOREM TypeCorrect == Spec => []TypeOK
<1>1. Inductive => TypeOK
  BY DEF Inductive
<1> QED
  BY <1>1, Invariance, PTL

\* The running total of every account, and of every pocket that no request
\* locks, is the sum of its rows, whichever requests overlap (post, mirror).
THEOREM TotalsAreTold == Spec => []BalancesTold
<1>1. Inductive => BalancesTold
  BY DEF Inductive
<1> QED
  BY <1>1, Invariance, PTL

\* Payments never settle more than the order is worth (create_payment).
THEOREM OrderIsNotOverpaid == Spec => []NeverOverpaid
<1>1. Inductive => NeverOverpaid
  BY DEF Inductive
<1> QED
  BY <1>1, Invariance, PTL

\* The balance of an account that is not active stands still (post,
\* update_account).
THEOREM InactiveAccountsStand == Spec => InactiveStands
<1> DEFINE Still == \A a \in Accounts \ (active \cup active') : balance'[a] = balance[a]
<1>1. Inductive /\ [Next]_vars => [Still]_vars
  <2> SUFFICES ASSUME Inductive, Next PROVE Still
    OBVIOUS
  <2>1. CASE balance' = balance
    BY <2>1
  <2>2. ASSUME NEW w \in Workers, Commit(w) PROVE Still
    <3> SUFFICES ASSUME NEW a \in Accounts, a \notin active PROVE balance'[a] = balance[a]
      OBVIOUS
    <3>1. a \in Books /\ balance[a] \in Int
      BY BooksOf DEF Inductive, TypeOK, Movement
    <3>2. worker[w].moved[a] = 0
      BY DEF Inductive, Request
    <3>3. View(w, a) = balance[a]
      BY <3>1, <3>2 DEF View, Inductive, Request
    <3> QED
      BY <2>2, <3>1, <3>3 DEF Commit
  <2>3. balance' = balance \/ \E w \in Workers : Commit(w)
    BY DEF Next, Automatic, ByHand, Proceed, PostMissing, Record, PostDraft, Reverse, PaySupplier,
           Begin, Write, Fail, Import, EnterManual, Deactivate, Activate
  <2> QED
    BY <2>1, <2>2, <2>3
<1> QED
  BY <1>1, Invariance, PTL DEF Spec, InactiveStands

LEMMA NextFiled == Inductive /\ Filed /\ [Next]_vars => Filed'
<1> SUFFICES ASSUME Inductive, Filed, [Next]_vars PROVE Filed'
  OBVIOUS
<1>1. ASSUME NEW w \in Workers, Automatic(w) \/ ByHand(w) \/ Proceed(w) PROVE Filed'
  BY <1>1, AutomaticFiles, ByHandFiles, WriteFiles, CommitFiles, FailFiles DEF Proceed
<1>2. ASSUME NEW e \in Entries, Import(e) PROVE Filed'
  BY <1>2, OtherFiles DEF Import
<1>3. ASSUME NEW a \in Accounts, Deactivate(a) \/ Activate(a) PROVE Filed'
  BY <1>3, OtherFiles DEF Deactivate, Activate
<1>4. CASE UNCHANGED vars
  BY <1>4, OtherFiles DEF vars
<1> QED
  BY <1>1, <1>2, <1>3, <1>4, EnterFiles DEF Next

THEOREM FiledInvariance == Spec => []Filed
  BY InitFiled, NextFiled, Invariance, PTL DEF Spec

LEMMA AtMostOne ==
  ASSUME NEW S, \A x, y \in S : x = y
  PROVE  IsFiniteSet(S) /\ Cardinality(S) = IF S = {} THEN 0 ELSE 1
<1>1. CASE S = {}
  BY <1>1, FS_EmptySet
<1>2. CASE S # {}
  <2>1. PICK x : x \in S
    BY <1>2
  <2>2. S = {x}
    BY <2>1
  <2> QED
    BY <1>2, <2>2, FS_Singleton
<1> QED
  BY <1>1, <1>2

\* A cost no two requests had in hand at a time has at most one journal
\* (post_cost_entry, post_missing).
THEOREM CostIsPostedOnce == Spec => []CostsPostedOnce
<1>1. Filed => CostsPostedOnce
  <2> SUFFICES ASSUME Filed, NEW e \in Costs \ crossed PROVE Cardinality(JournalsOf(e)) <= 1
    BY DEF CostsPostedOnce
  <2>1. e \in Entries /\ e \in Subjects
    BY LedgerAssumption DEF Subjects
  <2>2. \A j, k \in JournalsOf(e) : j = k
    BY <2>1 DEF Filed, OnFile, JournalsOf, Of
  <2> HIDE DEF JournalsOf
  <2>3. Cardinality(JournalsOf(e)) \in {0, 1}
    BY <2>2, AtMostOne
  <2> QED
    BY <2>3
<1> QED
  BY <1>1, FiledInvariance, PTL

\* A journal no two requests had in hand at a time is reversed by one journal,
\* its mirror image, and by none while it is not reversed (reverse).
THEOREM ReversalIsOneMirror == Spec => []ReversalUndoes
<1>1. Inductive /\ Filed => ReversalUndoes
  <2> SUFFICES ASSUME Inductive, Filed, NEW j \in DOMAIN journals, j \notin crossed
               PROVE  /\ Cardinality(Reversals(j)) = IF journals[j].status = "reversed" THEN 1 ELSE 0
                      /\ \A k \in Reversals(j), a \in Accounts : journals[k].moves[a] = -journals[j].moves[a]
    BY DEF ReversalUndoes
  <2>1. j \in Nat \ {0} /\ j \in Subjects /\ j \notin Entries
    BY LedgerAssumption DEF Inductive, TypeOK, Subjects
  <2>2. \A k, l \in Reversals(j) : k = l
    BY <2>1 DEF Filed, OnFile, Reversals, Of
  <2>3. journals[j].status = "reversed" <=> Reversals(j) # {}
    BY <2>1 DEF Filed, OnFile, Unwritten, Reversals, Of
  <2>4. \A k \in Reversals(j), a \in Accounts : journals[k].moves[a] = -journals[j].moves[a]
    BY <2>1 DEF Filed, OnFile, Reversals, Mirrors
  <2> HIDE DEF Reversals
  <2>5. Cardinality(Reversals(j)) = IF Reversals(j) = {} THEN 0 ELSE 1
    BY <2>2, AtMostOne
  <2> QED
    BY <2>3, <2>4, <2>5
<1> QED
  BY <1>1, Invariance, FiledInvariance, PTL

LEMMA NextSummed == Inductive /\ Filed /\ Summed /\ [Next]_vars => Summed'
<1> SUFFICES ASSUME Inductive, Filed, Summed, [Next]_vars PROVE Summed'
  OBVIOUS
<1>1. ASSUME NEW w \in Workers, Automatic(w) \/ ByHand(w) \/ Proceed(w) PROVE Summed'
  BY <1>1, AutomaticSums, ByHandSums, WriteSums, CommitSums, FailSums DEF Proceed
<1>2. ASSUME NEW e \in Entries, Import(e) PROVE Summed'
  BY <1>2, OtherSums DEF Import
<1>3. ASSUME NEW m \in Manual, EnterManual(m) PROVE Summed'
  BY <1>3, EnterSums
<1>4. ASSUME NEW a \in Accounts, Deactivate(a) \/ Activate(a) PROVE Summed'
  BY <1>4, OtherSums DEF Deactivate, Activate
<1>5. CASE UNCHANGED vars
  BY <1>5, OtherSums DEF vars
<1> QED
  BY <1>1, <1>2, <1>3, <1>4, <1>5 DEF Next

THEOREM SummedInvariance == Spec => []Summed
  BY InitSummed, NextSummed, Invariance, FiledInvariance, PTL DEF Spec

\* The rows of the book are the lines of the journals that were posted, each
\* once, and debits and credits agree, whichever requests post and reverse the
\* same journals at a time (post, trial_balance).
THEOREM RowsAreTheJournals == Spec => []BookIsTheJournals
<1>1. Inductive /\ Summed => BookIsTheJournals
  <2> SUFFICES ASSUME Inductive, Summed
               PROVE  /\ \A b \in Books : book[b] = SumFunction([j \in Standing |-> journals[j].moves[b]])
                      /\ SumFunctionOnSet(book, Accounts) = 0
    BY DEF BookIsTheJournals
  <2>1. ASSUME NEW b \in Books PROVE book[b] = SumFunction([j \in Standing |-> journals[j].moves[b]])
    <3>1. PICK f : f = [j \in DOMAIN journals |-> journals[j].moves[b]]
      OBVIOUS
    <3>2. PICK g : g = [j \in Standing |-> journals[j].moves[b]]
      OBVIOUS
    <3>3. IsFiniteSet(Standing) /\ DOMAIN g = Standing /\ \A j \in Standing : f[j] = g[j]
      BY <3>1, <3>2, RowTypes
    <3>4. SumFunctionOnSet(f, Standing) = SumFunctionOnSet(g, Standing)
      BY <3>3, SumSame
    <3> QED
      BY <3>1, <3>2, <3>3, <3>4 DEF SumFunction, Summed, Rows
  <2> QED
    BY <2>1 DEF Summed, Even
<1> QED
  BY <1>1, Invariance, SummedInvariance, PTL
==============================================================================
