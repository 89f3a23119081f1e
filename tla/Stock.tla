-------------------------------- MODULE Stock --------------------------------
(***************************************************************************)
(* The store: inventory/service.py with the purchase orders that are       *)
(* received into it (procurement/service.py).                              *)
(*                                                                         *)
(* A request runs in a transaction.  Every movement locks its item, works  *)
(* on the item's row and on its levels and lots, and appends to the        *)
(* movement ledger; all of it is the request's own until it commits.  A    *)
(* receipt into the store reads the item before goods_in() locks it, and   *)
(* the session hands goods_in() the row it read: the quantity on hand and  *)
(* the cost of that row are those of before the wait.  The statuses of     *)
(* orders and stocktakes are read without a lock.                          *)
(***************************************************************************)
EXTENDS Integers, Sequences, Functions

CONSTANTS
  Items, Locations,
  Tracked,    \* the items kept in lots
  Lots,       \* the lots, numbered by the date they expire
  Default,    \* the default location
  Moves,      \* the direct movements that may be asked for
  Orders,
  OrderLines, \* the lines of each order, as movements into the store
  Workers,    \* the requests under way
  Counts,     \* the quantities that may be counted
  MaxLevel,   \* bound: no direct movement takes a level above it
  MaxTakes,   \* bound: the stocktakes opened
  MaxRequests,\* bound: the requests made
  None

VARIABLES
  stock,      \* the committed rows: each item with its levels and its lots
  ledger,     \* the committed movements of each item: their sums, and the
              \* unit costs stock came in at
  active,     \* the active locations
  orders,     \* the purchase orders, and how often each has landed
  takes,      \* the stocktakes
  worker,     \* the requests
  asked,      \* the number of requests made so far
  overtaken,  \* ghost: the items a receipt saw before another's commit
  crossed     \* ghost: the orders and stocktakes two requests had at a time

vars == <<stock, ledger, active, orders, takes, worker, asked, overtaken, crossed>>

Kinds == {"goods_in", "issue", "adjust", "transfer"}
Move == [kind : Kinds, item : Items, at : Locations, to : Locations,
         qty : Int, price : Nat, lot : Lots \cup {None}, line : Nat]

ASSUME StockAssumption ==
  /\ Tracked \subseteq Items /\ Lots \subseteq Nat /\ Default \in Locations
  /\ None \notin Nat /\ Counts \subseteq Nat /\ MaxLevel \in Nat /\ MaxTakes \in Nat /\ MaxRequests \in Nat
  /\ None \notin Orders \cup [item : Items, qty : Nat] /\ Orders \cap Nat = {}
  /\ Moves \subseteq Move /\ OrderLines \in [Orders -> SUBSET Move]
  /\ \A m \in Moves : m.kind # "adjust" => m.qty > 0
  /\ \A o \in Orders : \A m \in OrderLines[o] :
        m.kind = "goods_in" /\ m.qty > 0 /\ m.lot = None

Total(f) == FoldFunction(LAMBDA x, y : x + y, 0, f)

-----------------------------------------------------------------------------
(* What a movement does to its item *)

\* quantize(CENT): to the nearest cent, a half to the even one.
Cents(a, b) ==
  IF 2 * (a % b) > b \/ (2 * (a % b) = b /\ (a \div b) % 2 = 1) THEN a \div b + 1 ELSE a \div b

\* Mutant: the value is divided by the quantity that was there before.
AverageOfOld(row, qty, price) ==
  IF row.qoh <= 0 THEN price ELSE Cents(row.qoh * row.cost + qty * price, row.qoh)
Average(row, qty, price) ==
  IF row.qoh <= 0 THEN price ELSE Cents(row.qoh * row.cost + qty * price, row.qoh + qty)

\* The sums of movements, of the item, of each level and of each lot, and the unit
\* costs on those of them that brought stock in.
NoSums == [all |-> 0, at |-> [l \in Locations |-> 0],
           lot |-> [l \in Locations |-> [b \in Lots |-> 0]], came |-> {}]
NoRow == [qoh |-> 0, cost |-> 0, level |-> NoSums.at, lots |-> NoSums.lot]
Plus(a, b) ==
  [all |-> a.all + b.all, at |-> [l \in Locations |-> a.at[l] + b.at[l]],
   came |-> a.came \cup b.came,
   lot |-> [l \in Locations |-> [b1 \in Lots |-> a.lot[l][b1] + b.lot[l][b1]]]]

\* What may be drawn from the lots of a shelf: all of the quantity, from the
\* one lot that was named or from the soonest to expire on.
Draws(shelf, qty, named) ==
  {t \in [Lots -> 0 .. qty] :
     /\ Total(t) = qty
     /\ \A b \in Lots : t[b] <= shelf[b] /\ (named # None /\ b # named => t[b] = 0)
     /\ named = None => \A b, c \in Lots : b < c /\ t[c] > 0 => t[b] = shelf[b]}

\* A quantity comes to a location or leaves it; and the movements that say so.
Shifted(row, l, qty, cost, lots) ==
  [qoh |-> row.qoh + qty, cost |-> cost, level |-> [row.level EXCEPT ![l] = @ + qty], lots |-> lots]
Written(l, qty, lot, came) ==
  [all |-> qty, at |-> [NoSums.at EXCEPT ![l] = qty], lot |-> lot, came |-> came]

\* Each gives the row and the movements written, or nothing when refused.
GoodsIn(m, row) ==
  LET cost == Average(row, m.qty, m.price)
  IN  IF m.item \notin Tracked
      THEN {[row |-> Shifted(row, m.at, m.qty, cost, row.lots),
             sums |-> Written(m.at, m.qty, NoSums.lot, {m.price})]}
      ELSE {[row |-> Shifted(row, m.at, m.qty, cost, [row.lots EXCEPT ![m.at][lot] = @ + m.qty]),
             sums |-> Written(m.at, m.qty, [NoSums.lot EXCEPT ![m.at][lot] = m.qty], {m.price})] :
              lot \in {m.lot} \ {None}}

\* Mutant: what is left at the location is not asked.
IssueUnchecked(m, row) ==
  {[row |-> Shifted(row, m.at, -m.qty, row.cost, row.lots),
    sums |-> Written(m.at, -m.qty, NoSums.lot, {})]}
\* An issue to a project: the movements of a tracked item are one for each lot.
Issue(m, row) ==
  IF m.qty > row.level[m.at] THEN {} ELSE
  IF m.item \notin Tracked
  THEN {[row |-> Shifted(row, m.at, -m.qty, row.cost, row.lots),
         sums |-> Written(m.at, -m.qty, NoSums.lot, {})]}
  ELSE {[row |-> Shifted(row, m.at, -m.qty, row.cost,
                   [row.lots EXCEPT ![m.at] = [b \in Lots |-> row.lots[m.at][b] - taken[b]]]),
         sums |-> Written(m.at, -Total(taken), [NoSums.lot EXCEPT ![m.at] = [b \in Lots |-> -taken[b]]], {})] :
          taken \in Draws(row.lots[m.at], m.qty, m.lot)}

\* An adjustment leaves the lots alone; what it finds comes in at the item's cost.
Adjust(m, row) ==
  IF m.qty = 0 \/ row.level[m.at] + m.qty < 0 THEN {} ELSE
  {[row |-> Shifted(row, m.at, m.qty, row.cost, row.lots),
    sums |-> Written(m.at, m.qty, NoSums.lot, IF m.qty > 0 THEN {row.cost} ELSE {})]}

\* So does a transfer, which moves what is on hand from one level to another.
Transfer(m, row) ==
  IF m.at = m.to \/ m.to \notin active \/ m.qty > row.level[m.at] THEN {} ELSE
  {[row |-> [qoh |-> row.qoh, cost |-> row.cost, lots |-> row.lots,
             level |-> [row.level EXCEPT ![m.at] = @ - m.qty, ![m.to] = @ + m.qty]],
    sums |-> [all |-> 0, lot |-> NoSums.lot, came |-> {}, at |-> [NoSums.at EXCEPT ![m.at] = -m.qty, ![m.to] = m.qty]]]}

Outcomes(m, row) ==
  CASE m.kind = "goods_in" -> GoodsIn(m, row)
    [] m.kind = "issue"    -> Issue(m, row)
    [] m.kind = "adjust"   -> Adjust(m, row)
    [] m.kind = "transfer" -> Transfer(m, row)

-----------------------------------------------------------------------------
(* Requests *)

NoJob == [on |-> None, to |-> None]
Idle == [job |-> NoJob, todo |-> {}, seen |-> None, held |-> {}, own |-> [i \in Items |-> NoRow],
         sums |-> [i \in Items |-> NoSums], count |-> None]

Busy(w) == worker[w] # Idle
View(w, i) == IF i \in worker[w].held THEN worker[w].own[i] ELSE stock[i]
\* Mutant: the item is read without FOR UPDATE.
FreeUnlocked(w, i) == TRUE
Free(w, i) == \A v \in Workers \ {w} : i \notin worker[v].held

Start(w) == ~Busy(w) /\ asked < MaxRequests /\ asked' = asked + 1
Step(w, new) == worker' = [worker EXCEPT ![w] = new]

Init ==
  /\ stock = [i \in Items |-> NoRow]
  /\ ledger = [i \in Items |-> NoSums]
  /\ active = Locations
  /\ orders = [o \in Orders |-> [status |-> "draft", landed |-> 0]]
  /\ takes = <<>>
  /\ worker = [w \in Workers |-> Idle]
  /\ asked = 0 /\ overtaken = {} /\ crossed = {}

\* A request that decides on an order or a stocktake reads its status first.
Begin(w, id, to, todo, count) ==
  /\ Start(w)
  /\ Step(w, [Idle EXCEPT !.job = [on |-> id, to |-> to], !.todo = todo, !.count = count])
  /\ crossed' = IF \E v \in Workers : worker[v].job.on = id THEN crossed \cup {id} ELSE crossed
  /\ UNCHANGED <<stock, ledger, active, orders, takes, overtaken>>

IssueOrder(w, o) == orders[o].status = "draft" /\ Begin(w, o, "issued", {}, None)

\* Mutant: any order can be cancelled.
CancelAnyOrder(w, o) == Begin(w, o, "cancelled", {}, None)
CancelOrder(w, o) == orders[o].status \in {"draft", "issued"} /\ Begin(w, o, "cancelled", {}, None)

\* Into the store, at one location, or to the project, when no stock moves.
ReceiveOrder(w, o) ==
  /\ orders[o].status = "issued"
  /\ \/ \E l \in Locations : Begin(w, o, "received", {[m EXCEPT !.at = l] : m \in OrderLines[o]}, None)
     \/ Begin(w, o, "received", {}, None)

\* Opening a stocktake: nothing is being counted yet.
OpenTake(w, l) ==
  /\ Len(takes) < MaxTakes
  /\ \A s \in DOMAIN takes : takes[s].status # "counting"
  /\ Begin(w, 0, l, {}, None)

CountTake(w, s, i, qty) ==
  takes[s].status = "counting" /\ Begin(w, s, None, {}, [item |-> i, qty |-> qty])

CancelTake(w, s) == takes[s].status = "counting" /\ Begin(w, s, "cancelled", {}, None)

Counted(s) == {i \in Items : takes[s].lines[i].counted # None}
\* Mutant: what is on the shelf is set against the book of now.
VarianceOfBook(s, i) == takes[s].lines[i].counted - stock[i].level[takes[s].at]
Variance(s, i) == takes[s].lines[i].counted - takes[s].lines[i].expected

\* The counted variances become adjustments.
ApproveTake(w, s) ==
  /\ takes[s].status = "counting" /\ Counted(s) # {}
  /\ Begin(w, s, "approved",
       {[kind |-> "adjust", item |-> i, at |-> takes[s].at, to |-> takes[s].at,
         qty |-> Variance(s, i), price |-> 0, lot |-> None, line |-> 0] :
            i \in {j \in Counted(s) : Variance(s, j) # 0}}, None)

\* _receive_to_store(): the item of the line is read before goods_in() locks it.
Load(w, i) ==
  /\ worker[w].job.to = "received" /\ worker[w].seen = None
  /\ \E m \in worker[w].todo : m.item = i
  /\ Step(w, [worker[w] EXCEPT !.seen = [item |-> i, qoh |-> View(w, i).qoh, cost |-> View(w, i).cost]])
  /\ UNCHANGED <<stock, ledger, active, orders, takes, asked, overtaken, crossed>>

\* The movement itself, once the item is locked.  What the session has already
\* read of the row is not read again.
Do(w, m, todo) ==
  LET fresh == View(w, m.item)
      seen  == worker[w].seen
      row   == IF seen = None THEN fresh ELSE [fresh EXCEPT !.qoh = seen.qoh, !.cost = seen.cost]
  IN  /\ Free(w, m.item)
      /\ seen # None => seen.item = m.item
      /\ worker[w].job.to = "received" => seen # None
      /\ \E out \in Outcomes(m, row) :
           Step(w, [worker[w] EXCEPT
             !.todo = todo, !.seen = None, !.held = @ \cup {m.item},
             !.own = [@ EXCEPT ![m.item] = out.row],
             !.sums = [@ EXCEPT ![m.item] = Plus(worker[w].sums[m.item], out.sums)]])
      /\ overtaken' = IF row = fresh THEN overtaken ELSE overtaken \cup {m.item}
      /\ UNCHANGED <<stock, ledger, active, orders, takes, crossed>>

\* A direct movement, within the bound.
Ask(w, m) ==
  /\ Start(w)
  /\ m.kind \in {"goods_in", "adjust"} => stock[m.item].level[m.at] + m.qty <= MaxLevel
  /\ m.kind = "transfer" => stock[m.item].level[m.to] + m.qty <= MaxLevel
  /\ Do(w, m, {})

\* One of the movements a receipt or an approval is made of.
Proceed(w, m) == m \in worker[w].todo /\ Do(w, m, worker[w].todo \ {m}) /\ UNCHANGED asked

\* The commit of the stock that moved.
Store(w) ==
  /\ worker[w].todo = {}
  /\ stock' = [i \in Items |-> View(w, i)]
  /\ ledger' = [i \in Items |-> Plus(ledger[i], worker[w].sums[i])]
  /\ Step(w, Idle)
  /\ UNCHANGED <<active, asked, overtaken, crossed>>

CommitMove(w) == Busy(w) /\ worker[w].job = NoJob /\ Store(w) /\ UNCHANGED <<orders, takes>>

CommitOrder(w, o) ==
  /\ worker[w].job.on = o /\ Store(w) /\ UNCHANGED takes
  /\ orders' = [orders EXCEPT ![o] = [status |-> worker[w].job.to,
       landed |-> @.landed + IF worker[w].job.to = "received" THEN 1 ELSE 0]]

\* The quantities expected are those of the levels now.
CommitOpen(w) ==
  /\ worker[w].job.on = 0 /\ Store(w) /\ UNCHANGED orders
  /\ takes' = Append(takes, [status |-> "counting", at |-> worker[w].job.to,
       lines |-> [i \in Items |-> [expected |-> stock[i].level[worker[w].job.to],
                                   counted |-> None, book |-> 0, posted |-> 0]]])

Taken(s, status, lines) ==
  takes' = [takes EXCEPT ![s] = [status |-> status, at |-> takes[s].at, lines |-> lines]]

\* (book is a ghost: what the book had when the shelf was counted)
CommitCount(w, s) ==
  LET count == worker[w].count
      line  == takes[s].lines[count.item]
  IN  /\ worker[w].job.on = s /\ count # None /\ Store(w) /\ UNCHANGED orders
      /\ Taken(s, takes[s].status, [takes[s].lines EXCEPT ![count.item] =
           [expected |-> line.expected, counted |-> count.qty,
            book |-> stock[count.item].level[takes[s].at], posted |-> line.posted]])

\* (posted is the sum of the adjustments that carry the stocktake's number)
CommitTake(w, s) ==
  /\ worker[w].job.on = s /\ worker[w].count = None /\ Store(w) /\ UNCHANGED orders
  /\ Taken(s, worker[w].job.to, [i \in Items |->
       [takes[s].lines[i] EXCEPT !.posted = @ + worker[w].sums[i].all]])

\* A request is refused, collides with the number of another, or is the victim
\* of a deadlock: everything it wrote is gone.
Fail(w) ==
  /\ Busy(w) /\ Step(w, Idle)
  /\ UNCHANGED <<stock, ledger, active, orders, takes, asked, overtaken, crossed>>

\* Only the default location may not be deactivated, and none that holds stock.
Deactivate(l) ==
  /\ l # Default /\ \A i \in Items : stock[i].level[l] = 0
  /\ active' = active \ {l}
  /\ UNCHANGED <<stock, ledger, orders, takes, worker, asked, overtaken, crossed>>
Activate(l) ==
  /\ active' = active \cup {l}
  /\ UNCHANGED <<stock, ledger, orders, takes, worker, asked, overtaken, crossed>>

Orderly(w) ==
  \E o \in Orders : IssueOrder(w, o) \/ CancelOrder(w, o) \/ ReceiveOrder(w, o) \/ CommitOrder(w, o)
Stocktake(w) ==
  \/ \E l \in Locations : OpenTake(w, l)
  \/ CommitOpen(w)
  \/ \E s \in DOMAIN takes :
       \/ ApproveTake(w, s) \/ CancelTake(w, s) \/ CommitTake(w, s) \/ CommitCount(w, s)
       \/ \E i \in Items, qty \in Counts : CountTake(w, s, i, qty)
Movement(w) ==
  \/ \E m \in Moves : Ask(w, m)
  \/ \E i \in Items : Load(w, i)
  \/ \E m \in worker[w].todo : Proceed(w, m)
  \/ CommitMove(w) \/ Fail(w)

Next ==
  \/ \E w \in Workers : Orderly(w) \/ Stocktake(w) \/ Movement(w)
  \/ \E l \in Locations : Deactivate(l) \/ Activate(l)

Spec == Init /\ [][Next]_vars

-----------------------------------------------------------------------------
(* Properties *)

Sums == [all : Int, at : [Locations -> Int], lot : [Locations -> [Lots -> Int]], came : SUBSET Nat]
Row == [qoh : Int, cost : Int, level : [Locations -> Int], lots : [Locations -> [Lots -> Int]]]
Line == [expected : Int, counted : Nat \cup {None}, book : Int, posted : Int]
Seen == [item : Items, qoh : Int, cost : Int]
Worker == [
  job : [on : Orders \cup Nat \cup {None},
         to : {"issued", "cancelled", "received", "approved", None} \cup Locations],
  todo : SUBSET Move, seen : Seen \cup {None}, held : SUBSET Items, own : [Items -> Row],
  sums : [Items -> Sums], count : [item : Items, qty : Nat] \cup {None}]

TypeOK ==
  /\ stock \in [Items -> Row] /\ ledger \in [Items -> Sums] /\ active \subseteq Locations
  /\ orders \in [Orders -> [status : {"draft", "issued", "received", "cancelled"}, landed : Nat]]
  /\ takes \in Seq([status : {"counting", "approved", "cancelled"}, at : Locations,
                    lines : [Items -> Line]])
  /\ worker \in [Workers -> Worker]
  /\ asked \in 0 .. MaxRequests /\ overtaken \subseteq Items /\ crossed \subseteq Orders \cup Nat

\* The movement ledger is the whole story of every shelf and every lot, so that
\* a recall finds where a lot went, and no shelf is ever below zero, whatever
\* requests overlap (goods_in, issue_to_project, adjust, transfer_stock).
ShelvesReconcile ==
  \A i \in Items, l \in Locations :
    /\ stock[i].level[l] = ledger[i].at[l] /\ stock[i].level[l] >= 0
    /\ \A b \in Lots : stock[i].lots[l][b] = ledger[i].lot[l][b] /\ stock[i].lots[l][b] >= 0

\* "SUM(quantity) per item reconciles with qty_on_hand" (StockMovement): it does
\* for as long as no receipt into the store has read the item before another
\* request's commit.
ReconcilesUnlessOvertaken == \A i \in Items \ overtaken : stock[i].qoh = ledger[i].all

\* The weighted average cost of an item lies between two unit costs its stock came
\* in at, rounding included, however receipts overlap and even when the quantity on
\* hand they leave is wrong (goods_in); it has none before any stock came in.
CostWithinPrices ==
  \A i \in Items :
    LET cost == stock[i].cost
        came == ledger[i].came
    IN  IF came = {} THEN cost = 0 ELSE \E low, high \in came : low <= cost /\ cost <= high

\* An order that no two requests had in hand at a time lands once when it is
\* received, and never when it is cancelled (receive_po, cancel_po).
OrdersLandOnce ==
  \A o \in Orders \ crossed : orders[o].landed = IF orders[o].status = "received" THEN 1 ELSE 0

\* A stocktake that no two requests had in hand at a time posts the counted
\* variances once when it is approved and nothing otherwise, movements in
\* between or not (approve_stocktake).
VariancesPostedOnce ==
  \A s \in DOMAIN takes : s \notin crossed =>
    \A i \in Items : LET line == takes[s].lines[i] IN
      line.posted = IF takes[s].status = "approved" /\ line.counted # None
                    THEN line.counted - line.expected ELSE 0

=============================================================================
