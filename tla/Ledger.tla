-------------------------------- MODULE Ledger --------------------------------
(***************************************************************************)
(* The books: accounting/service.py with its subsidiary ledgers, the       *)
(* payment of suppliers and the requests that post to it by themselves.    *)
(*                                                                         *)
(* A journal is drafted under the next JRN number and posted under locks   *)
(* on its accounts: the balances it moves are those read under the lock.   *)
(* Everything a request decides on before that is read without one: the    *)
(* list of entries with no journal, the status of a journal, the absence   *)
(* of a reversal.  The balance of a supplier's pocket has no lock either.  *)
(***************************************************************************)
EXTENDS Integers, Sequences, FiniteSets, Functions

CONSTANTS
  Accounts,
  System,    \* those the automatic postings need
  Payable, Bank,
  Parties,   \* the suppliers: their pockets lie under Payable
  Entries,   \* what is recorded and posts itself: costs and goods received
  Costs,     \* the cost entries among them
  Imported,  \* the cost entries that the approval of a document records
  Moved,     \* what the journal of an entry moves
  Month,     \* the month it is dated in
  Manual,    \* the manual journals that may be drafted
  Pay,       \* what a payment moves, for each amount that may be paid
  Order,     \* the value of the order that payments settle
  Today, Closed,  \* the month of today, and the closed months
  Workers, MaxRequests, None

VARIABLES
  journals,
  balance,   \* of each account and pocket, debits positive
  book,      \* the sums of the rows of general_ledger and subsidiary_entries
  made,      \* the entries recorded
  paid,      \* the sum of the allocations to the order
  active,    \* the active accounts
  worker,    \* the requests
  asked,     \* the number of requests made so far
  crossed    \* ghost: the entries and journals two requests had at a time

vars == <<journals, balance, book, made, paid, active, worker, asked, crossed>>

Books == Accounts \cup Parties
Movement == [Books -> Int]
Journal == [moves : Movement, month : Closed \cup {Today}, status : {"draft", "posted", "reversed"},
            of : Entries \cup {None}, undoes : Nat]

ASSUME LedgerAssumption ==
  /\ System \subseteq Accounts /\ {Payable, Bank} \subseteq System /\ Payable # Bank
  /\ Accounts \cap Parties = {} /\ Imported \subseteq Costs /\ Costs \subseteq Entries
  /\ None \notin Entries \cup {"record", "missing", "post", "reverse", "pay"} /\ Entries \cap Nat = {}
  /\ Moved \in [Entries -> Movement] /\ Month \in [Entries -> Closed \cup {Today}]
  /\ Order \in Nat /\ Pay \in [1 .. Order -> Movement] /\ Manual \subseteq Movement
  /\ MaxRequests \in Nat
  \* Debits and credits agree (_validate_balanced).
  /\ IsFiniteSet(Accounts)
  /\ \A m \in Range(Moved) \cup Range(Pay) \cup Manual : SumFunctionOnSet(m, Accounts) = 0
  \* A line that moves a pocket is one that moves its control account.
  /\ \A m \in Range(Moved) \cup Range(Pay) : m[Payable] = 0 => \A p \in Parties : m[p] = 0
  /\ \A m \in Manual, p \in Parties : m[p] = 0

Nothing == [b \in Books |-> 0]
Plus(f, g) == [b \in Books |-> f[b] + g[b]]

Draft(moves, month, of, undoes) ==
  [moves |-> moves, month |-> month, status |-> "draft", of |-> of, undoes |-> undoes]

\* The mirror image of the lines carries no pocket.
MirrorOf(m) == [b \in Books |-> IF b \in Accounts THEN -m[b] ELSE 0]

\* A draft is refused by an account that is not active and by a closed month.
MayPost(d) == d.month \notin Closed /\ \A a \in Accounts : d.moves[a] # 0 => a \in active

-----------------------------------------------------------------------------
(* Requests *)

Idle == [job |-> None, on |-> {}, todo |-> {}, drafts |-> <<>>, held |-> {},
         own |-> Nothing, moved |-> Nothing, pay |-> 0]

Busy(w) == worker[w] # Idle
View(w, b) == IF b \in worker[w].held THEN worker[w].own[b] ELSE balance[b]
\* Mutant: the accounts are read without FOR UPDATE.
FreeUnlocked(w, a) == TRUE
Free(w, a) == \A v \in Workers \ {w} : a \notin worker[v].held
\* A number is locked with the latest row that has one: an overlapping request
\* waits, and then collides with it.
NumberFree(w) == \A v \in Workers \ {w} : worker[v].drafts = <<>>
\* Mutant: payments do not wait for each other.
PaymentUnnumbered(w) == TRUE
PaymentFree(w) == \A v \in Workers \ {w} : worker[v].pay = 0

Step(w, new) == worker' = [worker EXCEPT ![w] = new]

Init ==
  /\ journals = <<>> /\ balance = Nothing /\ book = Nothing
  /\ made = {} /\ paid = 0 /\ active = Accounts
  /\ worker = [w \in Workers |-> Idle]
  /\ asked = 0 /\ crossed = {}

\* A request begins with what it reads, and has on as its subject.
Begin(w, job, on, todo, pay) ==
  /\ ~Busy(w) /\ asked < MaxRequests /\ asked' = asked + 1
  /\ Step(w, [Idle EXCEPT !.job = job, !.on = on, !.todo = todo, !.pay = pay])
  /\ crossed' = crossed \cup {x \in on : \E v \in Workers : x \in worker[v].on}
  /\ UNCHANGED <<journals, balance, book, made, paid, active>>

JournalOf(e) == Draft(Moved[e], Month[e], e, 0)

\* A cost or a delivery is recorded and posts itself.
Record(w, e) ==
  /\ e \notin made \cup Imported /\ \A v \in Workers : e \notin worker[v].on
  /\ Begin(w, "record", {e}, {JournalOf(e)}, 0)

\* The approval of an ingested invoice records its cost and posts nothing.
Import(e) ==
  /\ e \in Imported /\ made' = made \cup {e}
  /\ UNCHANGED <<journals, balance, book, paid, active, worker, asked, crossed>>

\* The costs with no journal behind them.
\* Mutant: the list has those whose journal is still a draft.
UnpostedOrDraft == {e \in made \cap Costs :
                      \A j \in DOMAIN journals : journals[j].of = e => journals[j].status = "draft"}
Unposted == {e \in made \cap Costs : \A j \in DOMAIN journals : journals[j].of # e}

PostMissing(w) ==
  Unposted # {} /\ Begin(w, "missing", Unposted, {JournalOf(e) : e \in Unposted}, 0)

\* A manual journal is drafted under a number and committed at once.
EnterManual(moves) ==
  /\ asked < MaxRequests /\ asked' = asked + 1
  /\ \A w \in Workers : worker[w].drafts = <<>>
  /\ journals' = Append(journals, Draft(moves, Today, None, 0))
  /\ UNCHANGED <<balance, book, made, paid, active, worker, crossed>>

PostDraft(w, j) ==
  journals[j].status = "draft" /\ Begin(w, "post", {j}, {journals[j]}, 0)

\* Mutant: a journal that was reversed can be reversed again.
EverPosted(j) == journals[j].status # "draft"
Reversible(j) ==
  /\ journals[j].status = "posted"
  /\ \A k \in DOMAIN journals : journals[k].undoes # j

Reverse(w, j) ==
  Reversible(j) /\ Begin(w, "reverse", {j}, {Draft(MirrorOf(journals[j].moves), Today, None, j)}, 0)

\* What is outstanding on the order is read under the payment's number.
PaySupplier(w, amount) ==
  /\ PaymentFree(w) /\ amount <= Order - paid
  /\ Begin(w, "pay", {}, {Draft(Pay[amount], Today, None, 0)}, amount)

\* The unique key on the line of a row of the general ledger lets a draft be
\* posted only once.
\* Mutant: the rows have no key.
KeylessRows(w) == TRUE
KeyFree(w) == worker[w].job = "post" => \A j \in worker[w].on : journals[j].status = "draft"

\* One journal is drafted, its accounts are locked and it is posted.  When it
\* is refused, the automatic posting leaves the draft and goes on; any other
\* request fails.  A posted draft is the journal there is already.
Write(w, d) ==
  /\ d \in worker[w].todo
  /\ worker[w].job = "post" \/ NumberFree(w)
  /\ KeyFree(w)
  /\ \A a \in Accounts : d.moves[a] # 0 => Free(w, a)
  /\ MayPost(d) \/ worker[w].job \in {"record", "missing"}
  /\ LET posted  == MayPost(d)
         moves   == IF posted THEN d.moves ELSE Nothing
         touched == {b \in Books : d.moves[b] # 0}
     IN  Step(w, [worker[w] EXCEPT
           !.todo = @ \ {d},
           !.drafts = IF worker[w].job = "post" THEN @
                      ELSE Append(@, IF posted THEN [d EXCEPT !.status = "posted"] ELSE d),
           !.held = @ \cup touched,
           !.own = [b \in Books |-> View(w, b) + moves[b]],
           !.moved = Plus(@, moves)])
  /\ UNCHANGED <<journals, balance, book, made, paid, active, asked, crossed>>

\* The status a request gives to the journal it is about.
Marked(w, j) ==
  [journals[j] EXCEPT !.status = IF j \notin worker[w].on THEN @
                                 ELSE IF worker[w].job = "post" THEN "posted" ELSE "reversed"]

Commit(w) ==
  /\ Busy(w) /\ worker[w].todo = {}
  /\ journals' = [j \in DOMAIN journals |-> Marked(w, j)] \o worker[w].drafts
  /\ balance' = [b \in Books |-> View(w, b)]
  /\ book' = Plus(book, worker[w].moved)
  /\ made' = made \cup (worker[w].on \cap Entries)
  /\ paid' = paid + worker[w].pay
  /\ Step(w, Idle)
  /\ UNCHANGED <<active, asked, crossed>>

\* A request is refused, collides with the number of another, or is the victim
\* of a deadlock.  What an automatic posting swallows of these has ended the
\* transaction all the same.
Fail(w) ==
  /\ Busy(w) /\ Step(w, Idle)
  /\ UNCHANGED <<journals, balance, book, made, paid, active, asked, crossed>>

\* An account is changed under the lock of its row, as postings take.
Deactivate(a) ==
  /\ a \notin System /\ \A w \in Workers : a \notin worker[w].held
  /\ active' = active \ {a}
  /\ UNCHANGED <<journals, balance, book, made, paid, worker, asked, crossed>>
Activate(a) ==
  /\ \A w \in Workers : a \notin worker[w].held
  /\ active' = active \cup {a}
  /\ UNCHANGED <<journals, balance, book, made, paid, worker, asked, crossed>>

Automatic(w) == PostMissing(w) \/ \E e \in Entries : Record(w, e)
ByHand(w) ==
  \/ \E j \in DOMAIN journals : PostDraft(w, j) \/ Reverse(w, j)
  \/ \E amount \in DOMAIN Pay : PaySupplier(w, amount)
Proceed(w) == (\E d \in worker[w].todo : Write(w, d)) \/ Commit(w) \/ Fail(w)

Next ==
  \/ \E w \in Workers : Automatic(w) \/ ByHand(w) \/ Proceed(w)
  \/ \E e \in Entries : Import(e)
  \/ \E moves \in Manual : EnterManual(moves)
  \/ \E a \in Accounts : Deactivate(a) \/ Activate(a)

Spec == Init /\ [][Next]_vars

-----------------------------------------------------------------------------
(* Properties *)

Worker == [job : {"record", "missing", "post", "reverse", "pay", None},
           on : SUBSET (Entries \cup Nat), todo : SUBSET Journal, drafts : Seq(Journal),
           held : SUBSET Books, own : Movement, moved : Movement, pay : Nat]

TypeOK ==
  /\ journals \in Seq(Journal) /\ balance \in Movement /\ book \in Movement
  /\ made \subseteq Entries /\ paid \in Nat /\ active \subseteq Accounts
  /\ worker \in [Workers -> Worker]
  /\ asked \in 0 .. MaxRequests /\ crossed \subseteq Entries \cup Nat

\* "balance is a cached running total maintained by posting, not a source of
\* truth -- the general_ledger rows are" (Account), and the pocket of a
\* supplier, which no request locks, is as safe: every running total is the sum
\* of its rows, whichever requests overlap (post, mirror).
BalancesTold == \A b \in Books : balance[b] = book[b]

\* The rows of the book are the lines of the journals posted and reversed, each
\* of them once, and so debits and credits agree (post, trial_balance).
Standing == {j \in DOMAIN journals : journals[j].status # "draft"}
BookIsTheJournals ==
  /\ \A b \in Books : book[b] = SumFunction([j \in Standing |-> journals[j].moves[b]])
  /\ SumFunctionOnSet(book, Accounts) = 0

\* Payments that overlap never settle more than the order is worth: the check
\* is safe because it is made under the payment's number (create_payment).
NeverOverpaid == paid <= Order

\* A cost has at most one journal, be it a draft that was refused, unless two
\* requests had it in hand at a time (post_cost_entry, post_missing).
JournalsOf(e) == {j \in DOMAIN journals : journals[j].of = e}
CostsPostedOnce == \A e \in Costs \ crossed : Cardinality(JournalsOf(e)) <= 1

\* A journal is reversed by one journal that is the mirror image of its accounts
\* and by no other, unless two requests had it in hand at a time (reverse).
Reversals(j) == {k \in DOMAIN journals : journals[k].undoes = j}
ReversalUndoes ==
  \A j \in DOMAIN journals : j \notin crossed =>
    /\ Cardinality(Reversals(j)) = IF journals[j].status = "reversed" THEN 1 ELSE 0
    /\ \A k \in Reversals(j), a \in Accounts : journals[k].moves[a] = -journals[j].moves[a]

\* The balance of an account that is not active stands still, even if it is
\* deactivated while a journal is being posted to it (post, update_account).
InactiveStands ==
  [][\A a \in Accounts \ (active \cup active') : balance'[a] = balance[a]]_vars

=============================================================================
