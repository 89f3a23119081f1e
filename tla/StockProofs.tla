----------------------------- MODULE StockProofs -----------------------------
(* Proofs about the store, for any items, locations, lots, orders, requests *)
(* and movements.                                                           *)
EXTENDS Stock, TLAPS

-----------------------------------------------------------------------------
(* The weighted average.                                                   *)

\* Rounding to the cent never rises above a whole number of cents that bounds
\* the exact value.
LEMMA CentsBounded ==
  ASSUME NEW a \in Nat, NEW b \in Nat, b > 0, NEW p \in Nat, a <= p * b
  PROVE  Cents(a, b) \in Nat /\ Cents(a, b) <= p
<1> DEFINE d == a \div b
           r == a % b
<1>1. d \in Nat /\ r \in Nat /\ r < b /\ a = b * d + r
  BY SMT
<1>2. d <= p
  <2>1. SUFFICES ASSUME d >= p + 1 PROVE FALSE
    BY <1>1
  <2>2. b * d >= b * (p + 1)
    BY <2>1, <1>1, SMT
  <2>3. b * (p + 1) = p * b + b
    BY SMT
  <2> QED
    BY <1>1, <2>2, <2>3
<1>3. d = p => r = 0
  <2>1. ASSUME d = p PROVE r <= 0
    <3>1. b * d = p * b
      BY <2>1, <1>1, SMT
    <3> QED
      BY <1>1, <3>1
  <2> QED
    BY <1>1, <2>1
<1>4. Cents(a, b) = IF 2 * r > b \/ (2 * r = b /\ d % 2 = 1) THEN d + 1 ELSE d
  BY DEF Cents
<1> HIDE DEF d, r
<1> QED
  BY <1>1, <1>2, <1>3, <1>4

\* An average of two costs is not above the greater.
LEMMA AverageBounded ==
  ASSUME NEW q \in Nat, q > 0, NEW c \in Nat, NEW n \in Nat, NEW price \in Nat,
         NEW p \in Nat, c <= p, price <= p
  PROVE  Cents(q * c + n * price, q + n) \in Nat /\ Cents(q * c + n * price, q + n) <= p
<1>1. q * c <= q * p /\ n * price <= n * p
  BY SMT
<1>2. q * p + n * p = p * (q + n)
  BY SMT
<1>3. q * c \in Nat /\ n * price \in Nat /\ q * p \in Nat /\ n * p \in Nat /\ p * (q + n) \in Nat
  BY SMT
<1>4. q * c + n * price <= p * (q + n)
  BY <1>1, <1>2, <1>3
<1> QED
  BY <1>3, <1>4, CentsBounded

\* Nor does it fall below one.
LEMMA CentsBoundedBelow ==
  ASSUME NEW a \in Nat, NEW b \in Nat, b > 0, NEW p \in Nat, p * b <= a
  PROVE  p <= Cents(a, b)
<1> DEFINE d == a \div b
           r == a % b
<1>1. d \in Nat /\ r \in Nat /\ r < b /\ a = b * d + r
  BY SMT
<1>2. p <= d
  <2>1. SUFFICES ASSUME p >= d + 1 PROVE FALSE
    BY <1>1
  <2>2. p * b >= (d + 1) * b
    BY <2>1, <1>1, SMT
  <2>3. (d + 1) * b = b * d + b
    BY <1>1, SMT
  <2> QED
    BY <1>1, <2>2, <2>3
<1>3. Cents(a, b) = IF 2 * r > b \/ (2 * r = b /\ d % 2 = 1) THEN d + 1 ELSE d
  BY DEF Cents
<1> HIDE DEF d, r
<1> QED
  BY <1>1, <1>2, <1>3

\* An average of two costs is not below the lesser.
LEMMA AverageBoundedBelow ==
  ASSUME NEW q \in Nat, q > 0, NEW c \in Nat, NEW n \in Nat, NEW price \in Nat,
         NEW p \in Nat, p <= c, p <= price
  PROVE  p <= Cents(q * c + n * price, q + n)
<1>1. q * p <= q * c /\ n * p <= n * price
  BY SMT
<1>2. q * p + n * p = p * (q + n)
  BY SMT
<1>3. q * c \in Nat /\ n * price \in Nat /\ q * p \in Nat /\ n * p \in Nat /\ p * (q + n) \in Nat
  BY SMT
<1>4. p * (q + n) <= q * c + n * price
  BY <1>1, <1>2, <1>3
<1> QED
  BY <1>3, <1>4, CentsBoundedBelow

\* Between two of the costs that stock came in at.
Within(cost, came) == \E low, high \in came : low <= cost /\ cost <= high

\* A goods-in leaves a cost within the costs stock came in at and its own price.
LEMMA AverageCost ==
  ASSUME NEW row \in Row, NEW qty \in Int, qty > 0, NEW price \in Nat, row.cost \in Nat,
         NEW came \in SUBSET Nat
  PROVE  /\ Average(row, qty, price) \in Nat
         /\ row.qoh <= 0 \/ Within(row.cost, came) =>
              Within(Average(row, qty, price), came \cup {price})
<1>1. row.qoh \in Int
  BY DEF Row
<1>2. CASE row.qoh <= 0
  BY <1>1, <1>2 DEF Average, Within
<1>3. CASE row.qoh > 0
  <2>1. /\ row.qoh \in Nat /\ qty \in Nat
        /\ Average(row, qty, price) = Cents(row.qoh * row.cost + qty * price, row.qoh + qty)
    BY <1>1, <1>3 DEF Average
  <2>2. ASSUME NEW p \in Nat, row.cost <= p, price <= p
        PROVE  Average(row, qty, price) \in Nat /\ Average(row, qty, price) <= p
    <3>1. /\ Cents(row.qoh * row.cost + qty * price, row.qoh + qty) \in Nat
          /\ Cents(row.qoh * row.cost + qty * price, row.qoh + qty) <= p
      BY <1>3, <2>1, <2>2, AverageBounded, Zenon
    <3> QED
      BY <2>1, <3>1
  <2>3. ASSUME NEW p \in Nat, p <= row.cost, p <= price
        PROVE  p <= Average(row, qty, price)
    <3>1. p <= Cents(row.qoh * row.cost + qty * price, row.qoh + qty)
      BY <1>3, <2>1, <2>3, AverageBoundedBelow, Zenon
    <3> QED
      BY <2>1, <3>1
  <2>4. Average(row, qty, price) \in Nat
    <3>1. row.cost + price \in Nat /\ row.cost <= row.cost + price /\ price <= row.cost + price
      OBVIOUS
    <3> QED
      BY <2>2, <3>1
  <2>5. ASSUME Within(row.cost, came) PROVE Within(Average(row, qty, price), came \cup {price})
    <3>1. PICK low \in came, high \in came : low <= row.cost /\ row.cost <= high
      BY <2>5 DEF Within
    <3>2. PICK least \in {low, price} : least <= row.cost /\ least <= price
      <4>1. CASE low <= price
        BY <3>1, <4>1
      <4>2. CASE price < low
        BY <3>1, <4>2
      <4> QED
        BY <4>1, <4>2
    <3>3. PICK most \in {high, price} : row.cost <= most /\ price <= most
      <4>1. CASE price <= high
        BY <3>1, <4>1
      <4>2. CASE high < price
        BY <3>1, <4>2
      <4> QED
        BY <4>1, <4>2
    <3>4. least \in Nat /\ most \in Nat /\ least \in came \cup {price} /\ most \in came \cup {price}
      BY <3>1
    <3> QED
      BY <2>2, <2>3, <3>2, <3>3, <3>4 DEF Within
  <2> QED
    BY <1>3, <2>4, <2>5, <1>1
<1> QED
  BY <1>1, <1>2, <1>3

-----------------------------------------------------------------------------
(* What a movement writes: the row it leaves and the sums of the movements  *)
(* it appends tell the same story.                                          *)

\* A row and the sums of all the movements that made it.
Agree(row, sums) ==
  /\ row.qoh = sums.all
  /\ \A l \in Locations : row.level[l] = sums.at[l]
  /\ \A l \in Locations, b \in Lots : row.lots[l][b] = sums.lot[l][b]

\* Nothing on a shelf is below zero.
NotBelowZero(row) ==
  /\ \A l \in Locations : row.level[l] >= 0
  /\ \A l \in Locations, b \in Lots : row.lots[l][b] >= 0

\* What is written when a row becomes another.
Told(row, new, sums) ==
  /\ new.qoh = row.qoh + sums.all
  /\ \A l \in Locations : new.level[l] = row.level[l] + sums.at[l]
  /\ \A l \in Locations, b \in Lots : new.lots[l][b] = row.lots[l][b] + sums.lot[l][b]

\* A movement that may be asked for, or is one line of an order or a stocktake.
Sound(m) ==
  /\ m \in Move
  /\ m.kind # "adjust" => m.qty > 0

LEMMA NoSumsType == NoSums \in Sums /\ NoRow \in Row
  BY DEF NoSums, Sums, NoRow, Row

LEMMA PlusType ==
  ASSUME NEW a \in Sums, NEW b \in Sums
  PROVE  /\ Plus(a, b) \in Sums
         /\ Plus(a, b).all = a.all + b.all
         /\ \A l \in Locations : Plus(a, b).at[l] = a.at[l] + b.at[l]
         /\ \A l \in Locations, c \in Lots : Plus(a, b).lot[l][c] = a.lot[l][c] + b.lot[l][c]
  BY DEF Plus, Sums

LEMMA ShiftedTold ==
  ASSUME NEW row \in Row, NEW l \in Locations, NEW qty \in Int, NEW cost \in Nat,
         NEW lots \in [Locations -> [Lots -> Int]], NEW lot \in [Locations -> [Lots -> Int]],
         NEW came \in SUBSET Nat,
         \A k \in Locations, b \in Lots : lots[k][b] = row.lots[k][b] + lot[k][b] /\ lots[k][b] >= 0,
         NotBelowZero(row), row.level[l] + qty >= 0
  PROVE  /\ Shifted(row, l, qty, cost, lots) \in Row /\ Written(l, qty, lot, came) \in Sums
         /\ Told(row, Shifted(row, l, qty, cost, lots), Written(l, qty, lot, came))
         /\ NotBelowZero(Shifted(row, l, qty, cost, lots))
<1>1. /\ row.qoh \in Int /\ row.level \in [Locations -> Int]
  BY DEF Row
<1>2. NoSums.at \in [Locations -> Int] /\ \A k \in Locations : NoSums.at[k] = 0
  BY DEF NoSums
<1>3. Shifted(row, l, qty, cost, lots) \in Row
  BY <1>1 DEF Shifted, Row
<1>4. Written(l, qty, lot, came) \in Sums
  BY <1>2 DEF Written, Sums
<1>5. Told(row, Shifted(row, l, qty, cost, lots), Written(l, qty, lot, came))
  BY <1>1, <1>2 DEF Told, Shifted, Written
<1>6. NotBelowZero(Shifted(row, l, qty, cost, lots))
  BY <1>1 DEF NotBelowZero, Shifted
<1> QED
  BY <1>3, <1>4, <1>5, <1>6

LEMMA OutcomeTold ==
  ASSUME NEW m, Sound(m), NEW row \in Row, NotBelowZero(row), row.cost \in Nat,
         NEW out \in Outcomes(m, row)
  PROVE  /\ out.row \in Row /\ out.sums \in Sums
         /\ Told(row, out.row, out.sums)
         /\ NotBelowZero(out.row)
         /\ out.row.cost \in Nat
<1> USE DEF Sound, Move
<1>1. /\ row.level \in [Locations -> Int] /\ row.lots \in [Locations -> [Lots -> Int]]
      /\ row.qoh \in Int /\ row.cost \in Nat
      /\ \A l \in Locations : row.level[l] >= 0
      /\ \A l \in Locations, b \in Lots : row.lots[l][b] >= 0
  BY DEF Row, NotBelowZero
<1>2. /\ NoSums.lot \in [Locations -> [Lots -> Int]] /\ NoSums.at \in [Locations -> Int]
      /\ \A l \in Locations : NoSums.at[l] = 0
      /\ \A l \in Locations, b \in Lots : NoSums.lot[l][b] = 0
  BY DEF NoSums
<1>3. ASSUME NEW qty \in Int, NEW cost \in Nat, NEW came \in SUBSET Nat,
             out = [row |-> Shifted(row, m.at, qty, cost, row.lots),
                    sums |-> Written(m.at, qty, NoSums.lot, came)],
             row.level[m.at] + qty >= 0
      PROVE  /\ out.row \in Row /\ out.sums \in Sums
             /\ Told(row, out.row, out.sums) /\ NotBelowZero(out.row)
             /\ out.row.cost \in Nat
  <2>1. Shifted(row, m.at, qty, cost, row.lots).cost = cost
    BY DEF Shifted
  <2>2. \A k \in Locations, b \in Lots :
          row.lots[k][b] = row.lots[k][b] + NoSums.lot[k][b] /\ row.lots[k][b] >= 0
    BY <1>1, <1>2
  <2>3. /\ Shifted(row, m.at, qty, cost, row.lots) \in Row /\ Written(m.at, qty, NoSums.lot, came) \in Sums
        /\ Told(row, Shifted(row, m.at, qty, cost, row.lots), Written(m.at, qty, NoSums.lot, came))
        /\ NotBelowZero(Shifted(row, m.at, qty, cost, row.lots))
    <3>1. m.at \in Locations /\ row.level[m.at] + qty >= 0
      BY <1>3
    <3> QED
      BY <1>1, <1>2, <2>2, <3>1, ShiftedTold
  <2>4. out.row = Shifted(row, m.at, qty, cost, row.lots) /\ out.sums = Written(m.at, qty, NoSums.lot, came)
    BY <1>3
  <2> QED
    BY <1>3, <2>1, <2>3, <2>4, Zenon
<1>4. CASE m.kind = "goods_in"
  <2>1. out \in GoodsIn(m, row)
    BY <1>4 DEF Outcomes
  <2> DEFINE cost == Average(row, m.qty, m.price)
             came == {m.price}
  <2>2. cost \in Nat /\ came \in SUBSET Nat
    BY <1>4, AverageCost
  <2> HIDE DEF cost, came
  <2>3. CASE m.item \notin Tracked
    <3>1. out = [row |-> Shifted(row, m.at, m.qty, cost, row.lots), sums |-> Written(m.at, m.qty, NoSums.lot, came)]
      BY <2>1, <2>3 DEF GoodsIn, cost, came
    <3>2. m.qty \in Int /\ row.level[m.at] + m.qty >= 0
      BY <1>1, <1>4
    <3> QED
      BY <1>3, <2>2, <3>1, <3>2, Zenon
  <2>4. CASE m.item \in Tracked
    <3> DEFINE lots == [row.lots EXCEPT ![m.at][m.lot] = @ + m.qty]
               lot  == [NoSums.lot EXCEPT ![m.at][m.lot] = m.qty]
    <3>1. /\ m.lot \in Lots
          /\ out = [row |-> Shifted(row, m.at, m.qty, cost, lots), sums |-> Written(m.at, m.qty, lot, came)]
      BY <2>1, <2>4 DEF GoodsIn, cost, came
    <3>2. /\ lots \in [Locations -> [Lots -> Int]] /\ lot \in [Locations -> [Lots -> Int]]
      <4>1. m.qty \in Int /\ m.at \in Locations
        OBVIOUS
      <4>2. /\ [row.lots[m.at] EXCEPT ![m.lot] = @ + m.qty] \in [Lots -> Int]
            /\ [NoSums.lot[m.at] EXCEPT ![m.lot] = m.qty] \in [Lots -> Int]
        BY <1>1, <1>2, <3>1, <4>1
      <4> QED
        BY <1>1, <1>2, <4>1, <4>2
    <3>3. \A k \in Locations, b \in Lots : lots[k][b] = row.lots[k][b] + lot[k][b] /\ lots[k][b] >= 0
      BY <1>1, <1>2, <1>4, <3>1
    <3> HIDE DEF lots, lot
    <3>4. row.level[m.at] + m.qty >= 0
      BY <1>1, <1>4
    <3>5. Shifted(row, m.at, m.qty, cost, lots).cost = cost
      BY DEF Shifted
    <3> QED
      BY <2>2, <3>1, <3>2, <3>3, <3>4, <3>5, ShiftedTold
  <2> QED
    BY <2>3, <2>4
<1>5. CASE m.kind = "issue"
  <2>1. out \in Issue(m, row)
    BY <1>5 DEF Outcomes
  <2>2. m.qty <= row.level[m.at]
    BY <1>1, <2>1 DEF Issue
  <2>3. CASE m.item \notin Tracked
    <3>1. out = [row |-> Shifted(row, m.at, -m.qty, row.cost, row.lots),
                 sums |-> Written(m.at, -m.qty, NoSums.lot, {})]
      BY <2>1, <2>2, <2>3 DEF Issue
    <3>2. -m.qty \in Int /\ row.level[m.at] + (-m.qty) >= 0 /\ {} \in SUBSET Nat
      BY <1>1, <2>2
    <3> QED
      BY <1>1, <1>3, <3>1, <3>2, Zenon
  <2>4. CASE m.item \in Tracked
    <3>1. PICK taken \in Draws(row.lots[m.at], m.qty, m.lot) :
            out = [row |-> Shifted(row, m.at, -m.qty, row.cost,
                             [row.lots EXCEPT ![m.at] = [b \in Lots |-> row.lots[m.at][b] - taken[b]]]),
                   sums |-> Written(m.at, -Total(taken),
                             [NoSums.lot EXCEPT ![m.at] = [b \in Lots |-> -taken[b]]], {})]
      BY <2>1, <2>2, <2>4 DEF Issue
    <3>2. /\ taken \in [Lots -> Nat] /\ Total(taken) = m.qty
          /\ \A b \in Lots : taken[b] <= row.lots[m.at][b]
      BY <1>5 DEF Draws
    <3> HIDE DEF Total
    <3> DEFINE lots == [row.lots EXCEPT ![m.at] = [b \in Lots |-> row.lots[m.at][b] - taken[b]]]
               lot  == [NoSums.lot EXCEPT ![m.at] = [b \in Lots |-> -taken[b]]]
    <3>3. /\ lots \in [Locations -> [Lots -> Int]] /\ lot \in [Locations -> [Lots -> Int]]
          /\ \A k \in Locations, b \in Lots : lots[k][b] = row.lots[k][b] + lot[k][b] /\ lots[k][b] >= 0
      BY <1>1, <1>2, <3>2
    <3>4. out = [row |-> Shifted(row, m.at, -m.qty, row.cost, lots), sums |-> Written(m.at, -m.qty, lot, {})]
      BY <3>1, <3>2
    <3> HIDE DEF lots, lot
    <3>5. Shifted(row, m.at, -m.qty, row.cost, lots).cost = row.cost
      BY DEF Shifted
    <3>6. row.level[m.at] + (-m.qty) >= 0 /\ -m.qty \in Int /\ m.at \in Locations
      BY <1>1, <2>2
    <3>7. /\ Shifted(row, m.at, -m.qty, row.cost, lots) \in Row /\ Written(m.at, -m.qty, lot, {}) \in Sums
          /\ Told(row, Shifted(row, m.at, -m.qty, row.cost, lots), Written(m.at, -m.qty, lot, {}))
          /\ NotBelowZero(Shifted(row, m.at, -m.qty, row.cost, lots))
      BY <1>1, <3>3, <3>6, ShiftedTold
    <3>8. out.row = Shifted(row, m.at, -m.qty, row.cost, lots) /\ out.sums = Written(m.at, -m.qty, lot, {})
      BY <3>4
    <3> QED
      BY <3>5, <3>7, <3>8, Zenon
  <2> QED
    BY <2>3, <2>4
<1>6. CASE m.kind = "adjust"
  <2> DEFINE came == IF m.qty > 0 THEN {row.cost} ELSE {}
  <2>1. /\ row.level[m.at] + m.qty >= 0
        /\ out = [row |-> Shifted(row, m.at, m.qty, row.cost, row.lots),
                  sums |-> Written(m.at, m.qty, NoSums.lot, came)]
    BY <1>1, <1>6 DEF Outcomes, Adjust
  <2>2. came \in SUBSET Nat
    BY <1>1
  <2> HIDE DEF came
  <2> QED
    BY <1>1, <1>3, <2>1, <2>2
<1>7. CASE m.kind = "transfer"
  <2> DEFINE level == [row.level EXCEPT ![m.at] = @ - m.qty, ![m.to] = @ + m.qty]
             at    == [NoSums.at EXCEPT ![m.at] = -m.qty, ![m.to] = m.qty]
  <2>1. /\ m.at # m.to /\ m.qty <= row.level[m.at]
        /\ out = [row |-> [qoh |-> row.qoh, cost |-> row.cost, lots |-> row.lots, level |-> level],
                  sums |-> [all |-> 0, lot |-> NoSums.lot, came |-> {}, at |-> at]]
    BY <1>1, <1>7 DEF Outcomes, Transfer
  <2>2. level \in [Locations -> Int] /\ at \in [Locations -> Int]
    <3>1. m.at \in Locations /\ m.to \in Locations /\ m.qty \in Int
      OBVIOUS
    <3>2. row.level[m.at] - m.qty \in Int /\ row.level[m.to] + m.qty \in Int /\ -m.qty \in Int
      BY <1>1, <3>1
    <3> QED
      BY <1>1, <1>2, <3>1, <3>2
  <2>3. \A l \in Locations : level[l] = row.level[l] + at[l] /\ level[l] >= 0
    <3>1. m.at \in Locations /\ m.to \in Locations /\ m.qty \in Int /\ m.qty > 0
      BY <1>7
    <3>2. /\ level[m.at] = row.level[m.at] - m.qty /\ at[m.at] = -m.qty
          /\ level[m.to] = row.level[m.to] + m.qty /\ at[m.to] = m.qty
      BY <1>1, <1>2, <2>1, <3>1
    <3>3. \A l \in Locations \ {m.at, m.to} : level[l] = row.level[l] /\ at[l] = 0
      BY <1>1, <1>2, <3>1
    <3>4. row.level \in [Locations -> Int] /\ \A l \in Locations : row.level[l] >= 0
      BY <1>1
    <3> HIDE DEF level, at, Sound, Move
    <3> TAKE l \in Locations
    <3>5. CASE l = m.at
      BY <2>1, <3>1, <3>2, <3>4, <3>5
    <3>6. CASE l = m.to
      BY <2>1, <3>1, <3>2, <3>4, <3>6
    <3>7. CASE l # m.at /\ l # m.to
      BY <3>3, <3>4, <3>7
    <3> QED
      BY <3>5, <3>6, <3>7
  <2> HIDE DEF level, at
  <2>4. /\ out.row.qoh = row.qoh /\ out.row.cost = row.cost /\ out.row.lots = row.lots
        /\ out.row.level = level /\ out.row \in Row
    BY <1>1, <2>1, <2>2 DEF Row
  <2>5. /\ out.sums.all = 0 /\ out.sums.lot = NoSums.lot
        /\ out.sums.at = at /\ out.sums \in Sums /\ out.sums.came = {}
    BY <1>2, <2>1, <2>2 DEF Sums
  <2> QED
    BY <1>1, <1>2, <2>3, <2>4, <2>5 DEF Told, NotBelowZero
<1> QED
  BY <1>4, <1>5, <1>6, <1>7 DEF Kinds

-----------------------------------------------------------------------------
(* The inductive invariant: what a request has in hand is the committed row *)
(* and its own movements, for no other request can change the row.          *)

\* A row is another with the movements of sums; its quantity on hand too,
\* if the item was never overtaken.
Fits(i, row, base, sums, over) ==
  /\ NotBelowZero(row) /\ row.cost \in Nat
  /\ \A l \in Locations : row.level[l] = base.level[l] + sums.at[l]
  /\ \A l \in Locations, b \in Lots : row.lots[l][b] = base.lots[l][b] + sums.lot[l][b]
  /\ i \notin over => row.qoh = base.qoh + sums.all

Request(u, base, over) ==
  /\ \A m \in u.todo : Sound(m)
  /\ u.seen # None => u.seen.cost \in Nat
  /\ u.job.on \in Orders => u.job.to \in {"issued", "cancelled", "received"}
  /\ u.job.on = 0 => u.job.to \in Locations
  /\ u.job.on \in Nat \ {0} /\ u.count = None => u.job.to \in {"approved", "cancelled"}
  /\ \A i \in Items \ u.held : u.sums[i] = NoSums
  /\ \A i \in u.held : Fits(i, u.own[i], base[i], u.sums[i], over)

Committed(i, row, sums, over) ==
  /\ NotBelowZero(row) /\ row.cost \in Nat
  /\ \A l \in Locations : row.level[l] = sums.at[l]
  /\ \A l \in Locations, b \in Lots : row.lots[l][b] = sums.lot[l][b]
  /\ i \notin over => row.qoh = sums.all

Mutex == \A v, w \in Workers : v # w => worker[v].held \cap worker[w].held = {}

Inductive ==
  /\ TypeOK /\ Mutex
  /\ \A i \in Items : Committed(i, stock[i], ledger[i], overtaken)
  /\ \A w \in Workers : Request(worker[w], stock, overtaken)

LEMMA IdleType == Idle \in Worker /\ Idle.held = {} /\ \A base, over : Request(Idle, base, over)
<1>1. /\ [i \in Items |-> NoRow] \in [Items -> Row] /\ [i \in Items |-> NoSums] \in [Items -> Sums]
  BY NoSumsType
<1>2. NoJob \in [on : Orders \cup Nat \cup {None},
                 to : {"issued", "cancelled", "received", "approved", None} \cup Locations]
  BY DEF NoJob
<1>3. Idle \in Worker
  BY <1>1, <1>2 DEF Idle, Worker
<1>4. \A base, over : Request(Idle, base, over)
  BY StockAssumption DEF Request, Idle, NoJob
<1> QED
  BY <1>3, <1>4 DEF Idle

LEMMA InitInductive == Init => Inductive
<1> SUFFICES ASSUME Init PROVE Inductive
  OBVIOUS
<1>1. TypeOK
  <2>1. takes \in Seq([status : {"counting", "approved", "cancelled"}, at : Locations,
                       lines : [Items -> Line]])
    BY DEF Init
  <2>2. orders \in [Orders -> [status : {"draft", "issued", "received", "cancelled"}, landed : Nat]]
    BY DEF Init
  <2> QED
    BY <2>1, <2>2, NoSumsType, IdleType, StockAssumption DEF Init, TypeOK
<1>2. \A w \in Workers : worker[w] = Idle
  BY DEF Init
<1>3. Mutex /\ \A w \in Workers : Request(worker[w], stock, overtaken)
  BY <1>2, IdleType DEF Mutex
<1>4. \A i \in Items : Committed(i, stock[i], ledger[i], overtaken)
  BY DEF Init, Committed, NoRow, NoSums, NotBelowZero
<1> QED
  BY <1>1, <1>3, <1>4 DEF Inductive

\* An item that is overtaken asks less.
LEMMA OverGrows ==
  ASSUME NEW u, NEW base, NEW over, NEW new, over \subseteq new, Request(u, base, over)
  PROVE  Request(u, base, new)
<1>1. \A i \in u.held : Fits(i, u.own[i], base[i], u.sums[i], new)
  BY DEF Request, Fits
<1> QED
  BY <1>1 DEF Request

\* A step of one request that leaves what is committed alone.
LEMMA OwnStep ==
  ASSUME Inductive, NEW w \in Workers, NEW u \in Worker, Step(w, u),
         UNCHANGED <<stock, ledger, active, orders, takes>>,
         asked' \in 0 .. MaxRequests, overtaken \subseteq overtaken', overtaken' \subseteq Items,
         crossed' \subseteq Orders \cup Nat,
         Request(u, stock, overtaken'),
         \A v \in Workers \ {w} : worker[v].held \cap u.held = {}
  PROVE  Inductive'
<1>1. worker \in [Workers -> Worker] /\ worker' \in [Workers -> Worker]
  BY DEF Inductive, TypeOK, Step
<1>2. /\ worker'[w] = u
      /\ \A v \in Workers \ {w} : worker'[v] = worker[v]
  BY <1>1 DEF Step
<1>3. TypeOK'
  BY <1>1 DEF Inductive, TypeOK
<1>4. Mutex'
  BY <1>2 DEF Inductive, Mutex
<1>5. ASSUME NEW i \in Items PROVE Committed(i, stock'[i], ledger'[i], overtaken')
  BY DEF Inductive, Committed
<1>6. ASSUME NEW v \in Workers PROVE Request(worker'[v], stock', overtaken')
  <2>1. CASE v = w
    BY <1>2, <2>1
  <2>2. CASE v # w
    <3>1. Request(worker[v], stock, overtaken')
      BY OverGrows DEF Inductive
    <3> QED
      BY <1>2, <2>2, <3>1
  <2> QED
    BY <2>1, <2>2
<1> QED
  BY <1>3, <1>4, <1>5, <1>6 DEF Inductive

\* The row a request works on.
LEMMA ViewFits ==
  ASSUME Inductive, NEW w \in Workers, NEW i \in Items
  PROVE  /\ View(w, i) \in Row /\ NotBelowZero(View(w, i)) /\ View(w, i).cost \in Nat
         /\ Fits(i, View(w, i), stock[i], worker[w].sums[i], overtaken)
<1>1. worker[w] \in Worker /\ stock[i] \in Row
  BY DEF Inductive, TypeOK
<1>2. Request(worker[w], stock, overtaken) /\ Committed(i, stock[i], ledger[i], overtaken)
  BY DEF Inductive
<1>3. CASE i \in worker[w].held
  <2>1. View(w, i) = worker[w].own[i] /\ worker[w].own[i] \in Row
    BY <1>1, <1>3 DEF View, Worker
  <2> QED
    BY <1>2, <1>3, <2>1 DEF Request, Fits
<1>4. CASE i \notin worker[w].held
  <2>1. View(w, i) = stock[i] /\ worker[w].sums[i] = NoSums
    BY <1>2, <1>4 DEF View, Request
  <2>2. /\ NoSums.all = 0 /\ \A l \in Locations : NoSums.at[l] = 0
        /\ \A l \in Locations, b \in Lots : NoSums.lot[l][b] = 0
    BY DEF NoSums
  <2>3. /\ stock[i].qoh \in Int /\ \A l \in Locations : stock[i].level[l] \in Int
        /\ \A l \in Locations, b \in Lots : stock[i].lots[l][b] \in Int
    BY <1>1 DEF Row
  <2>4. NotBelowZero(stock[i]) /\ stock[i].cost \in Nat
    BY <1>2 DEF Committed
  <2>5. Fits(i, stock[i], stock[i], NoSums, overtaken)
    BY <2>2, <2>3, <2>4 DEF Fits
  <2> QED
    BY <1>1, <2>1, <2>4, <2>5
<1> QED
  BY <1>3, <1>4

LEMMA BeginStep ==
  ASSUME Inductive, NEW w \in Workers, NEW id \in Orders \cup Nat, NEW to, NEW todo, NEW count,
         Begin(w, id, to, todo, count),
         to \in {"issued", "cancelled", "received", "approved", None} \cup Locations,
         \A m \in todo : Sound(m),
         count \in [item : Items, qty : Nat] \cup {None},
         id \in Orders => to \in {"issued", "cancelled", "received"},
         id = 0 => to \in Locations,
         id \in Nat \ {0} /\ count = None => to \in {"approved", "cancelled"}
  PROVE  Inductive'
<1>1. PICK u : u = [Idle EXCEPT !.job = [on |-> id, to |-> to], !.todo = todo, !.count = count]
  OBVIOUS
<1>2. /\ u.job = [on |-> id, to |-> to] /\ u.todo = todo /\ u.count = count /\ u.seen = None
      /\ u.held = {} /\ u.sums = [i \in Items |-> NoSums]
  BY <1>1 DEF Idle
<1>3. u \in Worker
  BY <1>1, IdleType DEF Worker, Sound
<1>4. Request(u, stock, overtaken)
  BY <1>2 DEF Request
<1>5. Step(w, u) /\ UNCHANGED <<stock, ledger, active, orders, takes, overtaken>>
  BY <1>1 DEF Begin
<1>6. asked' \in 0 .. MaxRequests /\ crossed' \subseteq Orders \cup Nat
  BY StockAssumption DEF Begin, Start, Inductive, TypeOK
<1>7. overtaken' = overtaken /\ overtaken \subseteq Items
  BY <1>5 DEF Inductive, TypeOK
<1> QED
  BY <1>2, <1>3, <1>4, <1>5, <1>6, <1>7, OwnStep

LEMMA FailStep == ASSUME Inductive, NEW w \in Workers, Fail(w) PROVE Inductive'
<1>1. /\ Step(w, Idle)
      /\ UNCHANGED <<stock, ledger, active, orders, takes, asked, overtaken, crossed>>
  BY DEF Fail
<1>2. asked' \in 0 .. MaxRequests /\ crossed' \subseteq Orders \cup Nat /\ overtaken' \subseteq Items
  BY <1>1 DEF Inductive, TypeOK
<1> QED
  BY <1>1, <1>2, IdleType, OwnStep

LEMMA LoadStep ==
  ASSUME Inductive, NEW w \in Workers, NEW i \in Items, Load(w, i) PROVE Inductive'
<1>1. PICK s : s = [item |-> i, qoh |-> View(w, i).qoh, cost |-> View(w, i).cost]
  OBVIOUS
<1>2. PICK u : u = [worker[w] EXCEPT !.seen = s]
  OBVIOUS
<1>3. s \in Seen /\ s.cost \in Nat
  <2>1. View(w, i) \in Row /\ View(w, i).cost \in Nat
    BY ViewFits
  <2> QED
    BY <1>1, <2>1 DEF Seen, Row
<1>4. worker[w] \in Worker /\ Request(worker[w], stock, overtaken)
  BY DEF Inductive, TypeOK
<1>5. /\ u.job = worker[w].job /\ u.todo = worker[w].todo /\ u.count = worker[w].count
      /\ u.held = worker[w].held /\ u.own = worker[w].own /\ u.sums = worker[w].sums /\ u.seen = s
  BY <1>2, <1>4 DEF Worker
<1>6. u \in Worker
  BY <1>2, <1>3, <1>4 DEF Worker
<1>7. Request(u, stock, overtaken)
  BY <1>3, <1>4, <1>5 DEF Request
<1>8. Step(w, u) /\ UNCHANGED <<stock, ledger, active, orders, takes, asked, overtaken, crossed>>
  BY <1>1, <1>2 DEF Load
<1>9. /\ asked' \in 0 .. MaxRequests /\ crossed' \subseteq Orders \cup Nat /\ overtaken' \subseteq Items
      /\ overtaken' = overtaken
  BY <1>8 DEF Inductive, TypeOK
<1>10. \A v \in Workers \ {w} : worker[v].held \cap u.held = {}
  BY <1>5 DEF Inductive, Mutex
<1> QED
  BY <1>6, <1>7, <1>8, <1>9, <1>10, OwnStep

\* What a movement adds to what the request has in hand.
LEMMA FitsOn ==
  ASSUME NEW i \in Items, NEW base \in Row, NEW fresh \in Row, NEW row \in Row, NEW sums \in Sums,
         NEW new \in Row, NEW more \in Sums, NEW over, NEW then, over \subseteq then,
         Fits(i, fresh, base, sums, over), Told(row, new, more),
         row.level = fresh.level, row.lots = fresh.lots, row.qoh = fresh.qoh \/ i \in then,
         NotBelowZero(new), new.cost \in Nat
  PROVE  Fits(i, new, base, Plus(sums, more), then)
<1>1. /\ base.qoh \in Int /\ \A l \in Locations : base.level[l] \in Int
      /\ \A l \in Locations, b \in Lots : base.lots[l][b] \in Int
  BY DEF Row
<1>2. /\ sums.all \in Int /\ \A l \in Locations : sums.at[l] \in Int
      /\ \A l \in Locations, b \in Lots : sums.lot[l][b] \in Int
      /\ more.all \in Int /\ \A l \in Locations : more.at[l] \in Int
      /\ \A l \in Locations, b \in Lots : more.lot[l][b] \in Int
  BY DEF Sums
<1>3. /\ Plus(sums, more).all = sums.all + more.all
      /\ \A l \in Locations : Plus(sums, more).at[l] = sums.at[l] + more.at[l]
      /\ \A l \in Locations, b \in Lots : Plus(sums, more).lot[l][b] = sums.lot[l][b] + more.lot[l][b]
  BY PlusType
<1> DEFINE p == Plus(sums, more)
<1> HIDE DEF p
<1>4. \A l \in Locations : new.level[l] = base.level[l] + p.at[l]
  BY <1>1, <1>2, <1>3 DEF Fits, Told, p
<1>5. \A l \in Locations, b \in Lots : new.lots[l][b] = base.lots[l][b] + p.lot[l][b]
  BY <1>1, <1>2, <1>3 DEF Fits, Told, p
<1>6. i \notin then => new.qoh = base.qoh + p.all
  BY <1>1, <1>2, <1>3 DEF Fits, Told, p
<1> QED
  BY <1>4, <1>5, <1>6 DEF Fits, p

LEMMA DoStep ==
  ASSUME Inductive, NEW w \in Workers, NEW m, Sound(m), NEW todo, \A n \in todo : Sound(n),
         Do(w, m, todo), asked' \in 0 .. MaxRequests
  PROVE  Inductive'
<1> DEFINE u == worker[w]
           i == m.item
           fresh == View(w, i)
           row == IF u.seen = None THEN fresh ELSE [fresh EXCEPT !.qoh = u.seen.qoh, !.cost = u.seen.cost]
<1>1. i \in Items
  BY DEF Sound, Move
<1>2. /\ fresh \in Row /\ NotBelowZero(fresh) /\ fresh.cost \in Nat
      /\ Fits(i, fresh, stock[i], u.sums[i], overtaken)
  BY <1>1, ViewFits
<1>3. u \in Worker /\ Request(u, stock, overtaken) /\ stock[i] \in Row /\ u.sums[i] \in Sums
  BY <1>1 DEF Inductive, TypeOK, Worker
<1>4. /\ Free(w, i) /\ (u.seen # None => u.seen.item = i)
      /\ \E out \in Outcomes(m, row) :
           Step(w, [u EXCEPT !.todo = todo, !.seen = None, !.held = @ \cup {i},
                             !.own = [@ EXCEPT ![i] = out.row],
                             !.sums = [@ EXCEPT ![i] = Plus(u.sums[i], out.sums)]])
      /\ overtaken' = IF row = fresh THEN overtaken ELSE overtaken \cup {i}
      /\ UNCHANGED <<stock, ledger, active, orders, takes, crossed>>
  BY DEF Do
<1> HIDE DEF u, fresh
<1>5. /\ row \in Row /\ NotBelowZero(row) /\ row.cost \in Nat
      /\ row.level = fresh.level /\ row.lots = fresh.lots
  <2>1. CASE u.seen = None
    BY <1>2, <2>1
  <2>2. CASE u.seen # None
    <3>1. u.seen \in Seen /\ u.seen.cost \in Nat
      BY <1>3, <1>4, <2>2 DEF Worker, Request
    <3>2. u.seen.qoh \in Int /\ u.seen.cost \in Int
      BY <3>1 DEF Seen
    <3>3. row = [fresh EXCEPT !.qoh = u.seen.qoh, !.cost = u.seen.cost]
      BY <2>2
    <3> HIDE DEF row
    <3>4. /\ row \in Row /\ row.cost = u.seen.cost
          /\ row.level = fresh.level /\ row.lots = fresh.lots
      BY <1>2, <3>2, <3>3 DEF Row
    <3> QED
      BY <1>2, <3>1, <3>4 DEF NotBelowZero
  <2> QED
    BY <2>1, <2>2
<1> HIDE DEF row
<1>6. PICK out \in Outcomes(m, row) :
        Step(w, [u EXCEPT !.todo = todo, !.seen = None, !.held = @ \cup {i},
                          !.own = [@ EXCEPT ![i] = out.row],
                          !.sums = [@ EXCEPT ![i] = Plus(u.sums[i], out.sums)]])
  BY <1>4
<1>7. /\ out.row \in Row /\ out.sums \in Sums /\ Told(row, out.row, out.sums)
      /\ NotBelowZero(out.row) /\ out.row.cost \in Nat
  BY <1>5, OutcomeTold
<1> DEFINE own  == [u.own EXCEPT ![i] = out.row]
           sums == [u.sums EXCEPT ![i] = Plus(u.sums[i], out.sums)]
           new  == [u EXCEPT !.todo = todo, !.seen = None, !.held = @ \cup {i}, !.own = own, !.sums = sums]
<1>8. Plus(u.sums[i], out.sums) \in Sums
  BY <1>3, <1>7, PlusType
<1>9. /\ new.job = u.job /\ new.todo = todo /\ new.seen = None /\ new.held = u.held \cup {i}
      /\ new.count = u.count
      /\ new.own = [u.own EXCEPT ![i] = out.row]
      /\ new.sums = [u.sums EXCEPT ![i] = Plus(u.sums[i], out.sums)]
  BY <1>3 DEF Worker
<1>10. new \in Worker
  <2>1. /\ own \in [Items -> Row] /\ sums \in [Items -> Sums]
        /\ i \in Items /\ todo \subseteq Move
    BY <1>1, <1>3, <1>7, <1>8 DEF Worker, Sound
  <2> HIDE DEF own, sums, i
  <2> QED
    BY <1>3, <2>1 DEF Worker
<1> HIDE DEF new
<1>11. overtaken \subseteq overtaken' /\ overtaken' \subseteq Items
       /\ (row.qoh = fresh.qoh \/ i \in overtaken')
  BY <1>1, <1>4 DEF Inductive, TypeOK
<1>12. Request(new, stock, overtaken')
  <2>1. Fits(i, out.row, stock[i], Plus(u.sums[i], out.sums), overtaken')
    BY <1>1, <1>2, <1>3, <1>5, <1>7, <1>11, FitsOn
  <2>2. Request(u, stock, overtaken')
    BY <1>3, <1>11, OverGrows
  <2>3. new.own[i] = out.row /\ new.sums[i] = Plus(u.sums[i], out.sums)
    BY <1>1, <1>3, <1>9 DEF Worker
  <2>4. \A j \in Items \ {i} : new.own[j] = u.own[j] /\ new.sums[j] = u.sums[j]
    BY <1>3, <1>9 DEF Worker
  <2>5. \A j \in new.held : Fits(j, new.own[j], stock[j], new.sums[j], overtaken')
    BY <1>3, <1>9, <2>1, <2>2, <2>3, <2>4 DEF Request, Worker
  <2>6. \A j \in Items \ new.held : new.sums[j] = NoSums
    BY <1>9, <2>2, <2>4 DEF Request
  <2> QED
    BY <1>9, <2>2, <2>5, <2>6 DEF Request
<1>13. \A v \in Workers \ {w} : worker[v].held \cap new.held = {}
  BY <1>4, <1>9 DEF Inductive, Mutex, Free, u
<1>14. crossed' \subseteq Orders \cup Nat
  BY <1>4 DEF Inductive, TypeOK
<1>15. Step(w, new)
  BY <1>6 DEF new, own, sums
<1> QED
  BY <1>4, <1>10, <1>11, <1>12, <1>13, <1>14, <1>15, OwnStep

OrdersType == orders \in [Orders -> [status : {"draft", "issued", "received", "cancelled"}, landed : Nat]]
Take == [status : {"counting", "approved", "cancelled"}, at : Locations, lines : [Items -> Line]]

LEMMA StoreStep ==
  ASSUME Inductive, NEW w \in Workers, Store(w), OrdersType', takes' \in Seq(Take)
  PROVE  Inductive'
<1> DEFINE u == worker[w]
<1>1. /\ stock' = [i \in Items |-> View(w, i)]
      /\ ledger' = [i \in Items |-> Plus(ledger[i], u.sums[i])]
      /\ Step(w, Idle) /\ UNCHANGED <<active, asked, overtaken, crossed>>
  BY DEF Store
<1>2. /\ worker \in [Workers -> Worker] /\ ledger \in [Items -> Sums] /\ stock \in [Items -> Row]
      /\ u.sums \in [Items -> Sums] /\ u.held \subseteq Items
  BY DEF Inductive, TypeOK, Worker
<1>3. worker' \in [Workers -> Worker] /\ worker'[w] = Idle /\ \A v \in Workers \ {w} : worker'[v] = worker[v]
  BY <1>1, <1>2, IdleType DEF Step
<1>4. stock' \in [Items -> Row] /\ ledger' \in [Items -> Sums]
  BY <1>1, <1>2, ViewFits, PlusType
<1>5. TypeOK'
  BY <1>1, <1>3, <1>4 DEF Inductive, TypeOK, OrdersType, Take
<1>6. Mutex'
  BY <1>3, IdleType DEF Inductive, Mutex
<1>7. ASSUME NEW i \in Items PROVE Committed(i, stock'[i], ledger'[i], overtaken')
  <2>1. /\ Committed(i, stock[i], ledger[i], overtaken)
        /\ Fits(i, View(w, i), stock[i], u.sums[i], overtaken)
    BY ViewFits DEF Inductive
  <2>2. /\ ledger[i] \in Sums /\ u.sums[i] \in Sums
        /\ stock'[i] = View(w, i) /\ ledger'[i] = Plus(ledger[i], u.sums[i])
    BY <1>1, <1>2
  <2>3. /\ ledger'[i].all = ledger[i].all + u.sums[i].all
        /\ \A l \in Locations : ledger'[i].at[l] = ledger[i].at[l] + u.sums[i].at[l]
        /\ \A l \in Locations, b \in Lots : ledger'[i].lot[l][b] = ledger[i].lot[l][b] + u.sums[i].lot[l][b]
    BY <2>2, PlusType
  <2> HIDE DEF u
  <2> QED
    BY <1>1, <2>1, <2>2, <2>3 DEF Committed, Fits
<1>8. ASSUME NEW v \in Workers PROVE Request(worker'[v], stock', overtaken')
  <2>1. CASE v = w
    BY <1>3, <2>1, IdleType
  <2>2. CASE v # w
    <3>1. \A i \in worker[v].held : i \in Items /\ i \notin u.held
      BY <1>2, <2>2 DEF Inductive, Mutex, Worker
    <3>2. \A i \in worker[v].held : stock'[i] = stock[i]
      BY <1>1, <3>1 DEF View
    <3>3. worker'[v] = worker[v] /\ Request(worker[v], stock, overtaken) /\ overtaken' = overtaken
      BY <1>1, <1>3, <2>2 DEF Inductive
    <3> QED
      BY <3>2, <3>3 DEF Request
  <2> QED
    BY <2>1, <2>2
<1> QED
  BY <1>5, <1>6, <1>7, <1>8 DEF Inductive

LEMMA SoundMoves ==
  /\ \A m \in Moves : Sound(m)
  /\ \A o \in Orders : \A m \in OrderLines[o] : m.kind = "goods_in" /\ Sound(m)
<1>1. ASSUME NEW m \in Moves PROVE Sound(m)
  BY StockAssumption DEF Sound
<1>2. ASSUME NEW o \in Orders, NEW m \in OrderLines[o] PROVE m.kind = "goods_in" /\ Sound(m)
  <2>1. m \in Move /\ m.kind = "goods_in" /\ m.qty > 0
    BY StockAssumption
  <2> QED
    BY <2>1 DEF Sound
<1> QED
  BY <1>1, <1>2

\* A line of an order, at the location it is received into.
LEMMA SoundLine ==
  ASSUME NEW o \in Orders, NEW m \in OrderLines[o], NEW l \in Locations
  PROVE  Sound([m EXCEPT !.at = l])
<1> DEFINE n == [m EXCEPT !.at = l]
<1>1. Sound(m) /\ m \in Move
  BY SoundMoves DEF Sound
<1>2. /\ n \in Move /\ n.kind = m.kind /\ n.item = m.item /\ n.qty = m.qty /\ n.price = m.price
  BY <1>1 DEF Move
<1> HIDE DEF n
<1> QED
  BY <1>1, <1>2 DEF Sound, n

LEMMA TakesType ==
  ASSUME Inductive, NEW s \in DOMAIN takes
  PROVE  /\ takes \in Seq(Take) /\ s \in Nat \ {0} /\ takes[s] \in Take /\ takes[s].at \in Locations
         /\ \A i \in Items : takes[s].lines[i] \in Line
<1>1. takes \in Seq(Take)
  BY DEF Inductive, TypeOK, Take
<1>2. s \in Nat \ {0} /\ takes[s] \in Take
  BY <1>1
<1> QED
  BY <1>1, <1>2 DEF Take

LEMMA OrderlyStep ==
  ASSUME Inductive, NEW w \in Workers, Orderly(w)
  PROVE  Inductive'
<1>1. PICK o \in Orders : IssueOrder(w, o) \/ CancelOrder(w, o) \/ ReceiveOrder(w, o) \/ CommitOrder(w, o)
  BY DEF Orderly
<1>2. o # 0 /\ o \notin Nat /\ o # None
  BY StockAssumption
<1>3. CASE IssueOrder(w, o)
  BY <1>2, <1>3, BeginStep DEF IssueOrder
<1>4. CASE CancelOrder(w, o)
  BY <1>2, <1>4, BeginStep DEF CancelOrder
<1>5. CASE ReceiveOrder(w, o)
  <2>1. CASE Begin(w, o, "received", {}, None)
    BY <1>2, <2>1, BeginStep
  <2>2. ASSUME NEW l \in Locations,
               Begin(w, o, "received", {[m EXCEPT !.at = l] : m \in OrderLines[o]}, None)
        PROVE  Inductive'
    <3>1. \A n \in {[m EXCEPT !.at = l] : m \in OrderLines[o]} : Sound(n)
      BY SoundLine
    <3> QED
      BY <1>2, <2>2, <3>1, BeginStep
  <2> QED
    BY <1>5, <2>1, <2>2 DEF ReceiveOrder
<1>6. CASE CommitOrder(w, o)
  <2>1. /\ worker[w].job.on = o /\ Store(w) /\ takes' = takes
        /\ orders' = [orders EXCEPT ![o] = [status |-> worker[w].job.to,
             landed |-> @.landed + IF worker[w].job.to = "received" THEN 1 ELSE 0]]
    BY <1>6 DEF CommitOrder
  <2>2. worker[w].job.to \in {"issued", "cancelled", "received"}
    BY <2>1 DEF Inductive, Request
  <2>3. OrdersType
    BY DEF Inductive, TypeOK, OrdersType
  <2>4. orders[o].landed \in Nat
    BY <2>3 DEF OrdersType
  <2>5. OrdersType'
    BY <2>1, <2>2, <2>3, <2>4 DEF OrdersType
  <2>6. takes' \in Seq(Take)
    BY <2>1 DEF Inductive, TypeOK, Take
  <2> QED
    BY <2>1, <2>5, <2>6, StoreStep
<1> QED
  BY <1>1, <1>3, <1>4, <1>5, <1>6

LEMMA MovementStep ==
  ASSUME Inductive, NEW w \in Workers, Movement(w)
  PROVE  Inductive'
<1>1. ASSUME NEW m \in Moves, Ask(w, m) PROVE Inductive'
  <2>1. Do(w, m, {}) /\ asked' \in 0 .. MaxRequests
    BY <1>1, StockAssumption DEF Ask, Start, Inductive, TypeOK
  <2> QED
    BY <2>1, SoundMoves, DoStep
<1>2. ASSUME NEW i \in Items, Load(w, i) PROVE Inductive'
  BY <1>2, LoadStep
<1>3. ASSUME NEW m \in worker[w].todo, Proceed(w, m) PROVE Inductive'
  <2>1. \A n \in worker[w].todo : Sound(n)
    BY DEF Inductive, Request
  <2>2. Do(w, m, worker[w].todo \ {m}) /\ asked' \in 0 .. MaxRequests
    BY <1>3 DEF Proceed, Inductive, TypeOK
  <2> QED
    BY <2>1, <2>2, DoStep
<1>4. CASE CommitMove(w)
  <2>1. Store(w) /\ orders' = orders /\ takes' = takes
    BY <1>4 DEF CommitMove
  <2>2. OrdersType' /\ takes' \in Seq(Take)
    BY <2>1 DEF Inductive, TypeOK, OrdersType, Take
  <2> QED
    BY <2>1, <2>2, StoreStep
<1>5. CASE Fail(w)
  BY <1>5, FailStep
<1> QED
  BY <1>1, <1>2, <1>3, <1>4, <1>5 DEF Movement

LEMMA PlacesStep ==
  ASSUME Inductive, NEW l \in Locations, Deactivate(l) \/ Activate(l)
  PROVE  Inductive'
<1>1. active' \subseteq Locations /\ UNCHANGED <<stock, ledger, orders, takes, worker, asked, overtaken, crossed>>
  BY DEF Deactivate, Activate, Inductive, TypeOK
<1>2. TypeOK'
  BY <1>1 DEF Inductive, TypeOK
<1> QED
  BY <1>1, <1>2 DEF Inductive, Mutex

LEMMA TakenType ==
  ASSUME Inductive, NEW s \in DOMAIN takes, NEW status \in {"counting", "approved", "cancelled"},
         NEW lines \in [Items -> Line], Taken(s, status, lines)
  PROVE  takes' \in Seq(Take)
<1>1. takes \in Seq(Take) /\ takes[s].at \in Locations
  BY TakesType
<1>2. [status |-> status, at |-> takes[s].at, lines |-> lines] \in Take
  BY <1>1 DEF Take
<1> QED
  BY <1>1, <1>2 DEF Taken

LEMMA StocktakeStep ==
  ASSUME Inductive, NEW w \in Workers, Stocktake(w)
  PROVE  Inductive'
<1>1. worker[w] \in Worker /\ Request(worker[w], stock, overtaken) /\ stock \in [Items -> Row]
  BY DEF Inductive, TypeOK
<1>2. None \notin Nat /\ Counts \subseteq Nat
  BY StockAssumption
<1>3. ASSUME orders' = orders PROVE OrdersType'
  BY <1>3 DEF Inductive, TypeOK, OrdersType
<1>4. ASSUME NEW l \in Locations, OpenTake(w, l) PROVE Inductive'
  BY <1>4, StockAssumption, BeginStep DEF OpenTake
<1>5. CASE CommitOpen(w)
  <2>1. Store(w) /\ orders' = orders /\ worker[w].job.to \in Locations
    BY <1>1, <1>5 DEF CommitOpen, Request
  <2> DEFINE line(i) == [expected |-> stock[i].level[worker[w].job.to], counted |-> None, book |-> 0, posted |-> 0]
             take == [status |-> "counting", at |-> worker[w].job.to, lines |-> [i \in Items |-> line(i)]]
  <2>2. takes' = Append(takes, take)
    BY <1>5 DEF CommitOpen
  <2>3. ASSUME NEW i \in Items PROVE line(i) \in Line
    <3>1. stock[i].level[worker[w].job.to] \in Int
      BY <1>1, <2>1 DEF Row
    <3> QED
      BY <3>1 DEF Line
  <2> HIDE DEF line
  <2>4. take \in Take
    BY <2>1, <2>3 DEF Take
  <2> HIDE DEF take
  <2>5. takes' \in Seq(Take)
    BY <2>2, <2>4 DEF Inductive, TypeOK, Take
  <2> QED
    BY <1>3, <2>1, <2>5, StoreStep
<1>6. ASSUME NEW s \in DOMAIN takes, CancelTake(w, s) PROVE Inductive'
  BY <1>6, StockAssumption, TakesType, BeginStep DEF CancelTake
<1>7. ASSUME NEW s \in DOMAIN takes, NEW i \in Items, NEW qty \in Counts, CountTake(w, s, i, qty)
      PROVE  Inductive'
  <2>1. [item |-> i, qty |-> qty] \in [item : Items, qty : Nat] /\ s \in Nat \ {0}
    BY <1>2, TakesType
  <2>2. [item |-> i, qty |-> qty] # None
    BY <2>1, StockAssumption
  <2> QED
    BY <1>7, <2>1, <2>2, StockAssumption, BeginStep DEF CountTake
<1>8. ASSUME NEW s \in DOMAIN takes, ApproveTake(w, s) PROVE Inductive'
  <2> DEFINE adjust(i) == [kind |-> "adjust", item |-> i, at |-> takes[s].at, to |-> takes[s].at,
                           qty |-> Variance(s, i), price |-> 0, lot |-> None, line |-> 0]
             todo == {adjust(i) : i \in {j \in Counted(s) : Variance(s, j) # 0}}
  <2>1. Begin(w, s, "approved", todo, None)
    BY <1>8 DEF ApproveTake
  <2>2. ASSUME NEW i \in Counted(s) PROVE Sound(adjust(i))
    <3>1. i \in Items /\ Variance(s, i) \in Int /\ takes[s].at \in Locations
      BY TakesType DEF Counted, Variance, Line
    <3> QED
      BY <3>1 DEF Sound, Move, Kinds
  <2> HIDE DEF adjust
  <2>3. \A m \in todo : Sound(m)
    BY <2>2
  <2> HIDE DEF todo
  <2> QED
    BY <2>1, <2>3, StockAssumption, TakesType, BeginStep
<1>9. ASSUME NEW s \in DOMAIN takes, CommitTake(w, s) PROVE Inductive'
  <2>1. /\ worker[w].job.on = s /\ worker[w].count = None /\ Store(w) /\ orders' = orders
        /\ Taken(s, worker[w].job.to, [i \in Items |->
             [takes[s].lines[i] EXCEPT !.posted = @ + worker[w].sums[i].all]])
    BY <1>9 DEF CommitTake
  <2>2. worker[w].job.to \in {"approved", "cancelled"}
    BY <1>1, <2>1, TakesType DEF Request
  <2>3. ASSUME NEW i \in Items
        PROVE  [takes[s].lines[i] EXCEPT !.posted = @ + worker[w].sums[i].all] \in Line
    <3>1. worker[w].sums[i].all \in Int /\ takes[s].lines[i] \in Line
      BY <1>1, TakesType DEF Worker, Sums
    <3>2. takes[s].lines[i].posted \in Int
      BY <3>1 DEF Line
    <3> QED
      BY <3>1, <3>2 DEF Line
  <2>4. takes' \in Seq(Take)
    BY <2>1, <2>2, <2>3, TakenType
  <2> QED
    BY <1>3, <2>1, <2>4, StoreStep
<1>10. ASSUME NEW s \in DOMAIN takes, CommitCount(w, s) PROVE Inductive'
  <2> DEFINE count == worker[w].count
             line == [expected |-> takes[s].lines[count.item].expected, counted |-> count.qty,
                      book |-> stock[count.item].level[takes[s].at],
                      posted |-> takes[s].lines[count.item].posted]
  <2>1. /\ count # None /\ Store(w) /\ orders' = orders
        /\ Taken(s, takes[s].status, [takes[s].lines EXCEPT ![count.item] = line])
    BY <1>10 DEF CommitCount
  <2>2. count.item \in Items /\ count.qty \in Nat
    BY <1>1, <2>1 DEF Worker
  <2>3. takes[s] \in Take /\ takes[s].at \in Locations /\ takes[s].lines[count.item] \in Line
    BY <2>2, TakesType
  <2>4. stock[count.item].level[takes[s].at] \in Int
    BY <1>1, <2>2, <2>3 DEF Row
  <2>5. line \in Line
    BY <2>2, <2>3, <2>4 DEF Line
  <2>6. takes[s].status \in {"counting", "approved", "cancelled"} /\ takes[s].lines \in [Items -> Line]
    BY <2>3 DEF Take
  <2> HIDE DEF count, line
  <2>7. [takes[s].lines EXCEPT ![count.item] = line] \in [Items -> Line]
    BY <2>2, <2>5, <2>6
  <2>8. takes' \in Seq(Take)
    BY <2>1, <2>6, <2>7, TakenType
  <2> QED
    BY <1>3, <2>1, <2>8, StoreStep
<1> QED
  BY <1>4, <1>5, <1>6, <1>7, <1>8, <1>9, <1>10 DEF Stocktake

-----------------------------------------------------------------------------
(* What stock came in at: the cost of an item stays between two of its       *)
(* incoming unit costs, in the rows requests have in hand and in what a      *)
(* receipt read before it got the lock.                                      *)

Came(w, i) == ledger[i].came \cup worker[w].sums[i].came
CostFits(row, came) == Within(row.cost, came) \/ (came = {} /\ row.cost = 0 /\ row.qoh <= 0)

\* A receipt brings in all of its lines, and what it has read of the next is
\* a cost within those stock had come in at, or of an item that had run out.
Origin(w) ==
  LET u == worker[w] IN
  /\ \A i \in Items : CostFits(View(w, i), Came(w, i))
  /\ u.seen # None => /\ u.job.to = "received"
                      /\ u.seen.qoh <= 0 \/ Within(u.seen.cost, Came(w, u.seen.item))
  /\ u.job.to = "received" => \A m \in u.todo : m.kind = "goods_in"

Origins ==
  /\ \A i \in Items : CostFits(stock[i], ledger[i].came)
  /\ \A w \in Workers : Origin(w)

LEMMA OutcomeCost ==
  ASSUME NEW m, Sound(m), NEW row \in Row, NotBelowZero(row), row.cost \in Nat,
         NEW out \in Outcomes(m, row), NEW came \in SUBSET Nat,
         \/ m.kind = "goods_in" /\ (row.qoh <= 0 \/ Within(row.cost, came))
         \/ CostFits(row, came)
  PROVE  CostFits(out.row, came \cup out.sums.came)
<1>1. m.qty \in Int /\ m.price \in Nat /\ row.qoh \in Int /\ m.kind \in Kinds /\ m.at \in Locations
  BY DEF Sound, Move, Row
<1>2. ASSUME NEW l, NEW qty, NEW cost, NEW lots, NEW lot, NEW more
      PROVE  /\ Shifted(row, l, qty, cost, lots).cost = cost
             /\ Shifted(row, l, qty, cost, lots).qoh = row.qoh + qty
             /\ Written(l, qty, lot, more).came = more
  BY DEF Shifted, Written
<1>3. CASE m.kind = "goods_in"
  <2>1. m.qty > 0 /\ out \in GoodsIn(m, row)
    BY <1>3 DEF Outcomes, Sound
  <2>2. out.row.cost = Average(row, m.qty, m.price) /\ out.sums.came = {m.price}
    <3> DEFINE cost == Average(row, m.qty, m.price)
               lots == IF m.item \in Tracked THEN [row.lots EXCEPT ![m.at][m.lot] = @ + m.qty] ELSE row.lots
               lot  == IF m.item \in Tracked THEN [NoSums.lot EXCEPT ![m.at][m.lot] = m.qty] ELSE NoSums.lot
    <3>1. out = [row |-> Shifted(row, m.at, m.qty, cost, lots), sums |-> Written(m.at, m.qty, lot, {m.price})]
      <4>1. CASE m.item \in Tracked
        BY <2>1, <4>1 DEF GoodsIn
      <4>2. CASE m.item \notin Tracked
        BY <2>1, <4>2 DEF GoodsIn
      <4> QED
        BY <4>1, <4>2
    <3> HIDE DEF cost, lots, lot
    <3>2. out.row.cost = cost /\ out.sums.came = {m.price}
      BY <1>2, <3>1
    <3> QED
      BY <3>2 DEF cost
  <2>3. row.qoh <= 0 \/ Within(row.cost, came)
    BY <1>3 DEF CostFits
  <2> QED
    BY <1>1, <2>1, <2>2, <2>3, AverageCost DEF CostFits
<1>4. CASE m.kind # "goods_in"
  <2>1. CostFits(row, came)
    BY <1>4
  <2>2. ASSUME out.sums.came = {}, out.row.cost = row.cost, out.row.qoh <= row.qoh, out.row.qoh \in Int
        PROVE  CostFits(out.row, came \cup out.sums.came)
    <3>1. came \cup out.sums.came = came
      BY <2>2
    <3>2. row.qoh <= 0 => out.row.qoh <= 0
      BY <1>1, <2>2
    <3> QED
      BY <2>1, <2>2, <3>1, <3>2 DEF CostFits
  <2>3. CASE m.kind = "issue"
    <3>1. out \in Issue(m, row) /\ m.qty > 0
      BY <2>3 DEF Outcomes, Sound
    <3>2. out.sums.came = {} /\ out.row.cost = row.cost /\ out.row.qoh = row.qoh + (-m.qty)
      <4>1. CASE m.item \notin Tracked
        <5>1. out = [row |-> Shifted(row, m.at, -m.qty, row.cost, row.lots),
                     sums |-> Written(m.at, -m.qty, NoSums.lot, {})]
          BY <3>1, <4>1 DEF Issue
        <5> QED
          BY <1>2, <5>1
      <4>2. CASE m.item \in Tracked
        <5> DEFINE lots(taken) == [row.lots EXCEPT ![m.at] = [b \in Lots |-> row.lots[m.at][b] - taken[b]]]
                   lot(taken)  == [NoSums.lot EXCEPT ![m.at] = [b \in Lots |-> -taken[b]]]
        <5>1. PICK taken \in Draws(row.lots[m.at], m.qty, m.lot) :
                out = [row |-> Shifted(row, m.at, -m.qty, row.cost, lots(taken)),
                       sums |-> Written(m.at, -Total(taken), lot(taken), {})]
          BY <3>1, <4>2 DEF Issue
        <5> HIDE DEF lots, lot
        <5> QED
          BY <1>2, <5>1
      <4> QED
        BY <4>1, <4>2
    <3> QED
      BY <1>1, <2>2, <3>1, <3>2
  <2>4. CASE m.kind = "adjust"
    <3>1. out \in Adjust(m, row)
      BY <2>4 DEF Outcomes
    <3>2. /\ out.sums.came = IF m.qty > 0 THEN {row.cost} ELSE {}
          /\ out.row.cost = row.cost /\ out.row.qoh = row.qoh + m.qty
      BY <1>2, <3>1 DEF Adjust
    <3>3. CASE m.qty > 0
      <4>1. row.cost \in came \cup out.sums.came /\ row.cost <= row.cost
        BY <3>2, <3>3
      <4>2. Within(row.cost, came \cup out.sums.came)
        BY <4>1 DEF Within
      <4> QED
        BY <3>2, <4>2 DEF CostFits
    <3>4. CASE ~(m.qty > 0)
      BY <1>1, <2>2, <3>2, <3>4
    <3> QED
      BY <3>3, <3>4
  <2>5. CASE m.kind = "transfer"
    <3>1. out \in Transfer(m, row)
      BY <2>5 DEF Outcomes
    <3>2. out.sums.came = {} /\ out.row.cost = row.cost /\ out.row.qoh = row.qoh
      BY <3>1 DEF Transfer
    <3> QED
      BY <1>1, <2>2, <3>2
  <2> QED
    BY <1>1, <1>4, <2>3, <2>4, <2>5 DEF Kinds
<1> QED
  BY <1>3, <1>4

LEMMA CameType ==
  ASSUME Inductive, NEW w \in Workers, NEW i \in Items
  PROVE  /\ ledger[i].came \in SUBSET Nat /\ worker[w].sums[i].came \in SUBSET Nat
         /\ Came(w, i) \in SUBSET Nat
         /\ i \notin worker[w].held => Came(w, i) = ledger[i].came /\ View(w, i) = stock[i]
<1>1. ledger[i] \in Sums /\ worker[w].sums[i] \in Sums
  BY DEF Inductive, TypeOK, Worker
<1>2. i \notin worker[w].held => worker[w].sums[i] = NoSums
  BY DEF Inductive, Request
<1>3. NoSums.came = {}
  BY DEF NoSums
<1> QED
  BY <1>1, <1>2, <1>3 DEF Sums, Came, View

LEMMA InitOrigins == Init => Origins
<1> SUFFICES ASSUME Init PROVE Origins
  OBVIOUS
<1>1. \A i \in Items : CostFits(NoRow, {}) /\ stock[i] = NoRow /\ ledger[i].came = {}
  BY DEF Init, CostFits, NoRow, NoSums
<1>2. ASSUME NEW w \in Workers PROVE Origin(w)
  <2>1. worker[w] = Idle /\ Idle.held = {} /\ Idle.seen = None /\ Idle.todo = {}
    BY DEF Init, Idle
  <2>2. \A i \in Items : View(w, i) = stock[i] /\ Came(w, i) = {}
    BY <1>1, <2>1 DEF View, Came, Idle, NoSums
  <2> QED
    BY <1>1, <2>1, <2>2 DEF Origin
<1> QED
  BY <1>1, <1>2 DEF Origins

\* A step of one request that leaves what is committed alone.
LEMMA OwnOrigin ==
  ASSUME Inductive, Origins, NEW w \in Workers, NEW u, Step(w, u), stock' = stock, ledger' = ledger,
         Origin(w)'
  PROVE  Origins'
<1>1. \A v \in Workers \ {w} : worker'[v] = worker[v]
  BY DEF Inductive, TypeOK, Step
<1>2. ASSUME NEW v \in Workers \ {w} PROVE Origin(v)'
  <2>1. Origin(v) /\ worker'[v] = worker[v]
    BY <1>1 DEF Origins
  <2>2. \A i : View(v, i)' = View(v, i) /\ Came(v, i)' = Came(v, i)
    BY <2>1 DEF View, Came
  <2> QED
    BY <2>1, <2>2 DEF Origin
<1>3. \A i \in Items : CostFits(stock'[i], ledger'[i].came)
  BY DEF Origins
<1> QED
  BY <1>2, <1>3 DEF Origins

\* A request that has nothing in hand yet, or nothing any more.
LEMMA FreshOrigin ==
  ASSUME Inductive, Origins, NEW w \in Workers, NEW u, Step(w, u), stock' = stock, ledger' = ledger,
         u.held = {}, u.sums = [i \in Items |-> NoSums], u.seen = None,
         u.job.to = "received" => \A m \in u.todo : m.kind = "goods_in"
  PROVE  Origins'
<1>1. worker'[w] = u
  BY DEF Inductive, TypeOK, Step
<1>2. \A i \in Items : View(w, i)' = stock[i] /\ Came(w, i)' = ledger[i].came
  BY <1>1 DEF View, Came, NoSums
<1>3. Origin(w)'
  BY <1>1, <1>2 DEF Origin, Origins
<1> QED
  BY <1>3, OwnOrigin

LEMMA BeginOrigin ==
  ASSUME Inductive, Origins, NEW w \in Workers, NEW id, NEW to, NEW todo, NEW count,
         Begin(w, id, to, todo, count),
         to = "received" => \A m \in todo : m.kind = "goods_in"
  PROVE  Origins'
<1> DEFINE u == [Idle EXCEPT !.job = [on |-> id, to |-> to], !.todo = todo, !.count = count]
<1>1. /\ u.held = {} /\ u.sums = [i \in Items |-> NoSums] /\ u.seen = None
      /\ u.job.to = to /\ u.todo = todo
  BY DEF Idle
<1>2. Step(w, u) /\ stock' = stock /\ ledger' = ledger
  BY DEF Begin
<1> HIDE DEF u
<1> QED
  BY <1>1, <1>2, FreshOrigin

LEMMA LoadOrigin ==
  ASSUME Inductive, Origins, NEW w \in Workers, NEW i \in Items, Load(w, i) PROVE Origins'
<1> DEFINE s == [item |-> i, qoh |-> View(w, i).qoh, cost |-> View(w, i).cost]
           u == [worker[w] EXCEPT !.seen = s]
<1>1. worker[w] \in Worker /\ Origin(w)
  BY DEF Inductive, TypeOK, Origins
<1>2. /\ u.job = worker[w].job /\ u.todo = worker[w].todo /\ u.held = worker[w].held
      /\ u.own = worker[w].own /\ u.sums = worker[w].sums /\ u.seen = s
  BY <1>1 DEF Worker
<1>3. Step(w, u) /\ stock' = stock /\ ledger' = ledger /\ worker[w].job.to = "received"
  BY DEF Load
<1>4. s.item = i /\ s.qoh = View(w, i).qoh /\ s.cost = View(w, i).cost
  OBVIOUS
<1> HIDE DEF u, s
<1>5. worker'[w] = u
  BY <1>3 DEF Inductive, TypeOK, Step
<1>6. \A j : View(w, j)' = View(w, j) /\ Came(w, j)' = Came(w, j)
  BY <1>2, <1>3, <1>5 DEF View, Came
<1>7. s.qoh <= 0 \/ Within(s.cost, Came(w, s.item))
  BY <1>1, <1>4 DEF Origin, CostFits
<1>8. Origin(w)'
  BY <1>1, <1>2, <1>3, <1>5, <1>6, <1>7 DEF Origin
<1> QED
  BY <1>3, <1>8, OwnOrigin

LEMMA DoOrigin ==
  ASSUME Inductive, Origins, NEW w \in Workers, NEW m, Sound(m), NEW todo \in SUBSET worker[w].todo,
         Do(w, m, todo), worker[w].seen # None => m.kind = "goods_in"
  PROVE  Origins'
<1> DEFINE u == worker[w]
           i == m.item
           fresh == View(w, i)
           row == IF u.seen = None THEN fresh ELSE [fresh EXCEPT !.qoh = u.seen.qoh, !.cost = u.seen.cost]
<1>1. i \in Items
  BY DEF Sound, Move
<1>2. fresh \in Row /\ NotBelowZero(fresh) /\ fresh.cost \in Nat
  BY <1>1, ViewFits
<1>3. u \in Worker /\ Request(u, stock, overtaken) /\ u.sums[i] \in Sums /\ Origin(w)
  BY <1>1 DEF Inductive, TypeOK, Worker, Origins
<1>4. /\ u.seen # None => u.seen.item = i
      /\ stock' = stock /\ ledger' = ledger
  BY DEF Do
<1>5. PICK out \in Outcomes(m, row) :
        Step(w, [u EXCEPT !.todo = todo, !.seen = None, !.held = @ \cup {i},
                          !.own = [@ EXCEPT ![i] = out.row],
                          !.sums = [@ EXCEPT ![i] = Plus(u.sums[i], out.sums)]])
  BY DEF Do
<1> HIDE DEF u, fresh
<1>6. Came(w, i) \in SUBSET Nat
  BY <1>1, CameType
<1>7. /\ row \in Row /\ NotBelowZero(row) /\ row.cost \in Nat
      /\ \/ m.kind = "goods_in" /\ (row.qoh <= 0 \/ Within(row.cost, Came(w, i)))
         \/ CostFits(row, Came(w, i))
  <2>1. CASE u.seen = None
    <3>1. row = fresh
      BY <2>1
    <3>2. CostFits(fresh, Came(w, i))
      BY <1>1, <1>3 DEF Origin, fresh
    <3> QED
      BY <1>2, <3>1, <3>2
  <2>2. CASE u.seen # None
    <3>1. /\ u.seen \in Seen /\ u.seen.cost \in Nat
          /\ u.seen.qoh <= 0 \/ Within(u.seen.cost, Came(w, i))
      BY <1>3, <1>4, <2>2 DEF Worker, Request, Origin, u
    <3>2. u.seen.qoh \in Int /\ u.seen.cost \in Int
      BY <3>1 DEF Seen
    <3>3. row = [fresh EXCEPT !.qoh = u.seen.qoh, !.cost = u.seen.cost]
      BY <2>2
    <3> HIDE DEF row
    <3>4. /\ row \in Row /\ row.cost = u.seen.cost /\ row.qoh = u.seen.qoh
          /\ row.level = fresh.level /\ row.lots = fresh.lots
      BY <1>2, <3>2, <3>3 DEF Row
    <3>5. m.kind = "goods_in"
      BY <2>2 DEF u
    <3> QED
      BY <1>2, <3>1, <3>4, <3>5 DEF NotBelowZero
  <2> QED
    BY <2>1, <2>2
<1> HIDE DEF row
<1>8. CostFits(out.row, Came(w, i) \cup out.sums.came) /\ out.sums \in Sums /\ out.row \in Row
  BY <1>5, <1>6, <1>7, OutcomeCost, OutcomeTold
<1> DEFINE new == [u EXCEPT !.todo = todo, !.seen = None, !.held = @ \cup {i},
                            !.own = [@ EXCEPT ![i] = out.row],
                            !.sums = [@ EXCEPT ![i] = Plus(u.sums[i], out.sums)]]
<1>9. /\ new.job = u.job /\ new.todo = todo /\ new.seen = None /\ new.held = u.held \cup {i}
      /\ new.own = [u.own EXCEPT ![i] = out.row]
      /\ new.sums = [u.sums EXCEPT ![i] = Plus(u.sums[i], out.sums)]
  BY <1>3 DEF Worker
<1>10. Step(w, new)
  BY <1>5
<1> HIDE DEF new
<1>11. worker'[w] = new
  BY <1>10 DEF Inductive, TypeOK, Step
<1>12. Plus(u.sums[i], out.sums).came = u.sums[i].came \cup out.sums.came
  BY DEF Plus
<1>13. View(w, i)' = out.row /\ Came(w, i)' = Came(w, i) \cup out.sums.came
  BY <1>1, <1>3, <1>4, <1>9, <1>11, <1>12 DEF View, Came, Worker, u
<1>14. \A j \in Items \ {i} : View(w, j)' = View(w, j) /\ Came(w, j)' = Came(w, j)
  BY <1>1, <1>3, <1>4, <1>9, <1>11 DEF View, Came, Worker, u
<1>15. \A j \in Items : CostFits(View(w, j)', Came(w, j)')
  BY <1>3, <1>8, <1>13, <1>14 DEF Origin
<1>16. u.job.to = "received" => \A n \in todo : n.kind = "goods_in"
  BY <1>3 DEF Origin, u
<1>17. Origin(w)'
  BY <1>9, <1>11, <1>15, <1>16 DEF Origin
<1> QED
  BY <1>4, <1>10, <1>17, OwnOrigin

LEMMA StoreOrigin ==
  ASSUME Inductive, Origins, NEW w \in Workers, Store(w)
  PROVE  Origins'
<1>1. /\ stock' = [i \in Items |-> View(w, i)]
      /\ ledger' = [i \in Items |-> Plus(ledger[i], worker[w].sums[i])]
      /\ Step(w, Idle)
  BY DEF Store
<1>2. ASSUME NEW i \in Items PROVE stock'[i] = View(w, i) /\ ledger'[i].came = Came(w, i)
  BY <1>1 DEF Plus, Came
<1>3. \A i \in Items : CostFits(stock'[i], ledger'[i].came)
  BY <1>2 DEF Origins, Origin
<1>4. worker'[w] = Idle /\ \A v \in Workers \ {w} : worker'[v] = worker[v]
  BY <1>1 DEF Inductive, TypeOK, Step
<1>5. Origin(w)'
  <2>1. /\ Idle.held = {} /\ Idle.seen = None /\ Idle.todo = {}
        /\ \A i \in Items : Idle.sums[i].came = {}
    BY DEF Idle, NoSums
  <2>2. \A i \in Items : View(w, i)' = stock'[i] /\ Came(w, i)' = ledger'[i].came
    BY <1>4, <2>1 DEF View, Came
  <2> QED
    BY <1>3, <1>4, <2>1, <2>2 DEF Origin
<1>6. ASSUME NEW v \in Workers \ {w} PROVE Origin(v)'
  <2>1. Origin(v) /\ worker'[v] = worker[v] /\ worker[v] \in Worker
    BY <1>4 DEF Origins, Inductive, TypeOK
  <2>2. ASSUME NEW i \in Items PROVE CostFits(View(v, i)', Came(v, i)') /\ Came(v, i) \subseteq Came(v, i)'
    <3>1. Came(v, i)' = ledger'[i].came \cup worker[v].sums[i].came /\ ledger[i].came \subseteq ledger'[i].came
      BY <1>2, <2>1 DEF Came
    <3>2. CASE i \in worker[v].held
      <4>1. i \notin worker[w].held
        BY <3>2 DEF Inductive, Mutex
      <4>2. ledger'[i].came = ledger[i].came
        BY <1>2, <4>1, CameType
      <4>3. View(v, i)' = View(v, i)
        BY <2>1, <3>2 DEF View
      <4> QED
        BY <2>1, <3>1, <4>2, <4>3 DEF Origin, Came
    <3>3. CASE i \notin worker[v].held
      <4>1. worker[v].sums[i].came = {}
        BY <3>3 DEF Inductive, Request, NoSums
      <4>2. View(v, i)' = stock'[i] /\ Came(v, i)' = ledger'[i].came
        BY <2>1, <3>1, <3>3, <4>1 DEF View
      <4> QED
        BY <1>3, <3>1, <4>1, <4>2 DEF Came
    <3> QED
      BY <3>2, <3>3
  <2>3. ASSUME worker[v].seen # None
        PROVE  worker[v].seen.qoh <= 0 \/ Within(worker[v].seen.cost, Came(v, worker[v].seen.item)')
    <3>1. worker[v].seen.item \in Items
      BY <2>1, <2>3 DEF Worker, Seen
    <3> QED
      BY <2>1, <2>2, <2>3, <3>1 DEF Origin, Within
  <2> QED
    BY <2>1, <2>2, <2>3 DEF Origin
<1> QED
  BY <1>3, <1>5, <1>6 DEF Origins

LEMMA NextOrigins == ASSUME Inductive, Origins, [Next]_vars PROVE Origins'
<1>1. ASSUME NEW w \in Workers, Orderly(w) PROVE Origins'
  <2>1. PICK o \in Orders : IssueOrder(w, o) \/ CancelOrder(w, o) \/ ReceiveOrder(w, o) \/ CommitOrder(w, o)
    BY <1>1 DEF Orderly
  <2>2. CASE IssueOrder(w, o) \/ CancelOrder(w, o)
    BY <2>2, BeginOrigin DEF IssueOrder, CancelOrder
  <2>3. CASE ReceiveOrder(w, o)
    <3>1. ASSUME NEW l \in Locations, NEW n \in {[m EXCEPT !.at = l] : m \in OrderLines[o]}
          PROVE  n.kind = "goods_in"
      <4>1. PICK m \in OrderLines[o] : n = [m EXCEPT !.at = l]
        OBVIOUS
      <4>2. m \in Move /\ m.kind = "goods_in"
        BY StockAssumption
      <4> QED
        BY <4>1, <4>2 DEF Move
    <3> QED
      BY <2>3, <3>1, BeginOrigin DEF ReceiveOrder
  <2>4. CASE CommitOrder(w, o)
    BY <2>4, StoreOrigin DEF CommitOrder
  <2> QED
    BY <2>1, <2>2, <2>3, <2>4
<1>2. ASSUME NEW w \in Workers, Stocktake(w) PROVE Origins'
  <2>1. ASSUME NEW l \in Locations, OpenTake(w, l) PROVE Origins'
    BY <2>1, BeginOrigin DEF OpenTake
  <2>2. ASSUME NEW s \in DOMAIN takes, ApproveTake(w, s) PROVE Origins'
    BY <2>2, BeginOrigin DEF ApproveTake
  <2>3. ASSUME NEW s \in DOMAIN takes, CancelTake(w, s) PROVE Origins'
    BY <2>3, BeginOrigin DEF CancelTake
  <2>4. ASSUME NEW s \in DOMAIN takes, NEW i \in Items, NEW qty \in Counts, CountTake(w, s, i, qty)
        PROVE  Origins'
    BY <2>4, BeginOrigin DEF CountTake
  <2>5. ASSUME Store(w) PROVE Origins'
    BY <2>5, StoreOrigin
  <2> QED
    BY <1>2, <2>1, <2>2, <2>3, <2>4, <2>5 DEF Stocktake, CommitOpen, CommitTake, CommitCount
<1>3. ASSUME NEW w \in Workers, Movement(w) PROVE Origins'
  <2>1. ASSUME NEW m \in Moves, Ask(w, m) PROVE Origins'
    <3>1. Do(w, m, {}) /\ worker[w].seen = None
      BY <2>1 DEF Ask, Start, Busy, Idle
    <3>2. {} \in SUBSET worker[w].todo
      OBVIOUS
    <3> QED
      BY <3>1, <3>2, SoundMoves, DoOrigin
  <2>2. ASSUME NEW i \in Items, Load(w, i) PROVE Origins'
    BY <2>2, LoadOrigin
  <2>3. ASSUME NEW m \in worker[w].todo, Proceed(w, m) PROVE Origins'
    <3>1. Sound(m) /\ (worker[w].seen # None => m.kind = "goods_in")
      BY DEF Inductive, Request, Origins, Origin
    <3>2. Do(w, m, worker[w].todo \ {m}) /\ worker[w].todo \ {m} \in SUBSET worker[w].todo
      BY <2>3 DEF Proceed
    <3> QED
      BY <3>1, <3>2, DoOrigin
  <2>4. CASE CommitMove(w)
    BY <2>4, StoreOrigin DEF CommitMove
  <2>5. CASE Fail(w)
    <3>1. Step(w, Idle) /\ stock' = stock /\ ledger' = ledger
      BY <2>5 DEF Fail
    <3>2. Idle.held = {} /\ Idle.sums = [i \in Items |-> NoSums] /\ Idle.seen = None /\ Idle.todo = {}
      BY DEF Idle
    <3> QED
      BY <3>1, <3>2, FreshOrigin
  <2> QED
    BY <1>3, <2>1, <2>2, <2>3, <2>4, <2>5 DEF Movement
<1>4. ASSUME stock' = stock, ledger' = ledger, worker' = worker PROVE Origins'
  <2>1. \A w, i : View(w, i)' = View(w, i) /\ Came(w, i)' = Came(w, i)
    BY <1>4 DEF View, Came
  <2> QED
    BY <1>4, <2>1 DEF Origins, Origin
<1>5. ASSUME NEW l \in Locations, Deactivate(l) \/ Activate(l) PROVE Origins'
  BY <1>4, <1>5 DEF Deactivate, Activate
<1>6. CASE UNCHANGED vars
  BY <1>4, <1>6 DEF vars
<1> QED
  BY <1>1, <1>2, <1>3, <1>5, <1>6 DEF Next

-----------------------------------------------------------------------------
(* Orders and stocktakes: what a request has read of the one it has in hand *)
(* is so until it commits, unless another has it in hand too.               *)

\* What the request is to post of an item.
Due(u, t, i) ==
  IF u.count = None /\ u.job.to = "approved" /\ t.lines[i].counted # None
  THEN t.lines[i].counted - t.lines[i].expected ELSE 0

\* All of it is still to do, or all of it is done.
Posting(u, t, i) ==
  \/ u.sums[i].all = Due(u, t, i) /\ \A m \in u.todo : m.item # i
  \/ u.sums[i].all = 0 /\ \E m \in u.todo : /\ m.item = i /\ m.qty = Due(u, t, i)
                                            /\ \A n \in u.todo : n.item = i => n = m

Counting(u, t) ==
  /\ t.status = "counting"
  /\ \A m \in u.todo : m.kind = "adjust"
  /\ \A i \in Items : Posting(u, t, i)

HasOrder(w) ==
  LET o == worker[w].job.on IN o \in Orders \ crossed => orders[o].status # "received"
HasTake(w) ==
  LET s == worker[w].job.on IN
  s \in Nat \ {0} => s \in DOMAIN takes /\ (s \notin crossed => Counting(worker[w], takes[s]))
Apart ==
  \A v, w \in Workers :
    v # w /\ worker[v].job.on = worker[w].job.on => worker[v].job.on \in crossed \cup {None}

Decided ==
  /\ OrdersLandOnce /\ VariancesPostedOnce /\ Apart
  /\ \A w \in Workers : HasOrder(w) /\ HasTake(w)

LEMMA InitDecided == Init => Decided
<1> SUFFICES ASSUME Init PROVE Decided
  OBVIOUS
<1>1. \A w \in Workers : worker[w] = Idle
  BY DEF Init
<1>2. Idle.job.on = None
  BY DEF Idle, NoJob
<1>3. Apart /\ \A w \in Workers : HasOrder(w) /\ HasTake(w)
  BY <1>1, <1>2, StockAssumption DEF Apart, HasOrder, HasTake
<1>4. OrdersLandOnce /\ VariancesPostedOnce
  BY DEF Init, OrdersLandOnce, VariancesPostedOnce
<1> QED
  BY <1>3, <1>4 DEF Decided

\* A step of one request that leaves orders and stocktakes alone.
LEMMA InHandStep ==
  ASSUME TypeOK, Decided, NEW w \in Workers, NEW u, Step(w, u),
         orders' = orders, takes' = takes, crossed \subseteq crossed',
         \A v \in Workers \ {w} : worker[v].job.on = u.job.on => u.job.on \in crossed' \cup {None},
         HasOrder(w)', HasTake(w)'
  PROVE  Decided'
<1>1. worker'[w] = u /\ \A v \in Workers \ {w} : worker'[v] = worker[v]
  BY DEF TypeOK, Step
<1>2. OrdersLandOnce' /\ VariancesPostedOnce'
  BY DEF Decided, OrdersLandOnce, VariancesPostedOnce
<1>3. Apart'
  BY <1>1 DEF Decided, Apart
<1>4. \A v \in Workers \ {w} : HasOrder(v)' /\ HasTake(v)'
  BY <1>1 DEF Decided, HasOrder, HasTake
<1> QED
  BY <1>2, <1>3, <1>4 DEF Decided

LEMMA FailDecides ==
  ASSUME TypeOK, Decided, NEW w \in Workers, Step(w, Idle), orders' = orders, takes' = takes, crossed' = crossed
  PROVE  Decided'
<1>1. worker'[w] = Idle /\ Idle.job.on = None
  BY DEF TypeOK, Step, Idle, NoJob
<1>2. HasOrder(w)' /\ HasTake(w)'
  BY <1>1, StockAssumption DEF HasOrder, HasTake
<1> QED
  BY <1>1, <1>2, InHandStep

LEMMA BeginDecides ==
  ASSUME TypeOK, Decided, NEW w \in Workers, NEW id \in Orders \cup Nat, NEW to, NEW todo, NEW count,
         Begin(w, id, to, todo, count),
         id \in Orders => orders[id].status # "received",
         id \in Nat \ {0} => /\ id \in DOMAIN takes
                             /\ \A u : /\ u.job = [on |-> id, to |-> to] /\ u.todo = todo /\ u.count = count
                                       /\ \A i \in Items : u.sums[i].all = 0
                                       => Counting(u, takes[id])
  PROVE  Decided'
<1> DEFINE u == [Idle EXCEPT !.job = [on |-> id, to |-> to], !.todo = todo, !.count = count]
<1>1. /\ u.job = [on |-> id, to |-> to] /\ u.job.on = id /\ u.todo = todo /\ u.count = count
      /\ \A i \in Items : u.sums[i].all = 0
  BY DEF Idle, NoSums
<1>2. /\ Step(w, u) /\ orders' = orders /\ takes' = takes
      /\ crossed' = IF \E v \in Workers : worker[v].job.on = id THEN crossed \cup {id} ELSE crossed
  BY DEF Begin
<1> HIDE DEF u
<1>3. worker'[w] = u
  BY <1>2 DEF TypeOK, Step
<1>4. HasOrder(w)'
  BY <1>1, <1>2, <1>3 DEF HasOrder
<1>5. HasTake(w)'
  BY <1>1, <1>2, <1>3 DEF HasTake
<1> QED
  BY <1>1, <1>2, <1>4, <1>5, InHandStep

LEMMA LoadDecides ==
  ASSUME TypeOK, Decided, NEW w \in Workers, NEW i \in Items, Load(w, i) PROVE Decided'
<1> DEFINE s == [item |-> i, qoh |-> View(w, i).qoh, cost |-> View(w, i).cost]
           u == [worker[w] EXCEPT !.seen = s]
<1> HIDE DEF s
<1>1. worker[w] \in Worker
  BY DEF TypeOK
<1>2. u.job = worker[w].job /\ u.todo = worker[w].todo /\ u.sums = worker[w].sums /\ u.count = worker[w].count
  BY <1>1 DEF Worker
<1>3. Step(w, u) /\ orders' = orders /\ takes' = takes /\ crossed' = crossed
  BY DEF Load, s
<1> HIDE DEF u
<1>4. worker'[w] = u
  BY <1>3 DEF TypeOK, Step
<1>5. HasOrder(w) /\ HasTake(w) /\ Apart
  BY DEF Decided
<1>6. HasOrder(w)' /\ HasTake(w)'
  <2>1. HasOrder(w)'
    BY <1>2, <1>3, <1>4, <1>5 DEF HasOrder
  <2>2. ASSUME NEW t, Counting(worker[w], t) PROVE Counting(u, t)
    BY <1>2, <2>2 DEF Counting, Posting, Due
  <2>3. HasTake(w)'
    BY <1>2, <1>3, <1>4, <1>5, <2>2 DEF HasTake
  <2> QED
    BY <2>1, <2>3
<1>7. \A v \in Workers \ {w} : worker[v].job.on = u.job.on => u.job.on \in crossed' \cup {None}
  BY <1>2, <1>3, <1>5 DEF Apart
<1> QED
  BY <1>3, <1>6, <1>7, InHandStep

\* An adjustment that is made is one less to do and as much more posted.
LEMMA DoDecides ==
  ASSUME TypeOK, Decided, NEW w \in Workers, NEW m, Sound(m), NEW todo, Do(w, m, todo), crossed' = crossed,
         worker[w].job.on \in Nat \ {0} => m \in worker[w].todo /\ todo = worker[w].todo \ {m}
  PROVE  Decided'
<1> DEFINE u == worker[w]
           i == m.item
           row == IF u.seen = None THEN View(w, i)
                  ELSE [View(w, i) EXCEPT !.qoh = u.seen.qoh, !.cost = u.seen.cost]
<1>1. u \in Worker /\ i \in Items /\ m.qty \in Int
  BY DEF TypeOK, Sound, Move
<1>2. \E out \in Outcomes(m, row) :
        Step(w, [u EXCEPT !.todo = todo, !.seen = None, !.held = @ \cup {i},
                          !.own = [@ EXCEPT ![i] = out.row],
                          !.sums = [@ EXCEPT ![i] = Plus(u.sums[i], out.sums)]])
  BY DEF Do
<1>3. orders' = orders /\ takes' = takes
  BY DEF Do
<1> HIDE DEF u, row
<1>4. PICK out \in Outcomes(m, row) :
        Step(w, [u EXCEPT !.todo = todo, !.seen = None, !.held = @ \cup {i},
                          !.own = [@ EXCEPT ![i] = out.row],
                          !.sums = [@ EXCEPT ![i] = Plus(u.sums[i], out.sums)]])
  BY <1>2
<1> DEFINE new == [u EXCEPT !.todo = todo, !.seen = None, !.held = @ \cup {i},
                            !.own = [@ EXCEPT ![i] = out.row],
                            !.sums = [@ EXCEPT ![i] = Plus(u.sums[i], out.sums)]]
<1>5. /\ new.job = u.job /\ new.todo = todo /\ new.count = u.count
      /\ new.sums = [u.sums EXCEPT ![i] = Plus(u.sums[i], out.sums)]
  BY <1>1 DEF Worker
<1>6. Step(w, new)
  BY <1>4
<1> HIDE DEF new
<1>7. worker'[w] = new
  BY <1>6 DEF TypeOK, Step
<1>8. u.sums \in [Items -> Sums] /\ \A j \in Items : u.sums[j].all \in Int
  BY <1>1 DEF Worker, Sums
<1>9. /\ \A j \in Items \ {i} : new.sums[j] = u.sums[j]
      /\ new.sums[i].all = u.sums[i].all + out.sums.all
  <2>1. Plus(u.sums[i], out.sums).all = u.sums[i].all + out.sums.all
    BY DEF Plus
  <2> QED
    BY <1>1, <1>5, <1>8, <2>1
<1>10. m.kind = "adjust" => out.sums.all = m.qty
  <2>1. ASSUME m.kind = "adjust" PROVE out \in Adjust(m, row)
    BY <1>4, <2>1 DEF Outcomes
  <2> QED
    BY <2>1 DEF Adjust, Written
<1>11. HasOrder(w) /\ HasTake(w) /\ Apart
  BY DEF Decided
<1>12. HasOrder(w)'
  BY <1>3, <1>5, <1>7, <1>11 DEF HasOrder, u
<1>13. ASSUME u.job.on \in Nat \ {0}, u.job.on \notin crossed PROVE Counting(new, takes[u.job.on])
  <2> DEFINE t == takes[u.job.on]
  <2>1. m \in u.todo /\ todo = u.todo \ {m} /\ Counting(u, t)
    BY <1>11, <1>13 DEF HasTake, u
  <2>2. m.kind = "adjust" /\ out.sums.all = m.qty
    BY <1>10, <2>1 DEF Counting
  <2>3. \A j \in Items : Due(new, t, j) = Due(u, t, j)
    BY <1>5 DEF Due
  <2> HIDE DEF t
  <2>4. u.sums[i].all = 0 /\ m.qty = Due(u, t, i) /\ \A n \in u.todo : n.item = i => n = m
    BY <1>1, <2>1 DEF Counting, Posting
  <2>5. Posting(new, t, i)
    BY <1>1, <1>5, <1>9, <2>1, <2>2, <2>3, <2>4 DEF Posting
  <2>6. ASSUME NEW j \in Items \ {i} PROVE Posting(new, t, j)
    <3>1. Posting(u, t, j)
      BY <2>1 DEF Counting
    <3> QED
      BY <1>5, <1>9, <2>1, <2>3, <3>1 DEF Posting
  <2> QED
    BY <1>5, <2>1, <2>5, <2>6 DEF Counting, t
<1>14. HasTake(w)'
  BY <1>3, <1>5, <1>7, <1>11, <1>13 DEF HasTake, u
<1>15. \A v \in Workers \ {w} : worker[v].job.on = new.job.on => new.job.on \in crossed' \cup {None}
  BY <1>5, <1>11 DEF Apart, u
<1> QED
  BY <1>3, <1>6, <1>12, <1>14, <1>15, InHandStep

\* A commit disturbs nothing another request has in hand and nobody else had.
LEMMA StoreDecides ==
  ASSUME TypeOK, Decided, NEW w \in Workers, Store(w),
         \A o \in Orders : o # worker[w].job.on => orders'[o] = orders[o],
         \A s \in DOMAIN takes : s \in DOMAIN takes' /\ (s # worker[w].job.on => takes'[s] = takes[s]),
         OrdersLandOnce', VariancesPostedOnce'
  PROVE  Decided'
<1>1. Step(w, Idle) /\ crossed' = crossed
  BY DEF Store
<1>2. /\ worker'[w] = Idle /\ Idle.job.on = None
      /\ \A v \in Workers \ {w} : worker'[v] = worker[v]
  BY <1>1 DEF TypeOK, Step, Idle, NoJob
<1>3. Apart'
  BY <1>1, <1>2 DEF Decided, Apart
<1>4. HasOrder(w)' /\ HasTake(w)'
  BY <1>2, StockAssumption DEF HasOrder, HasTake
<1>5. ASSUME NEW v \in Workers \ {w} PROVE HasOrder(v)' /\ HasTake(v)'
  <2>1. HasOrder(v) /\ HasTake(v) /\ worker'[v] = worker[v]
    BY <1>2 DEF Decided
  <2>2. worker[v].job.on = worker[w].job.on => worker[v].job.on \in crossed \cup {None}
    BY DEF Decided, Apart
  <2>3. HasOrder(v)'
    BY <1>1, <2>1, <2>2, StockAssumption DEF HasOrder
  <2>4. HasTake(v)'
    BY <1>1, <2>1, <2>2, StockAssumption DEF HasTake
  <2> QED
    BY <2>3, <2>4
<1> QED
  BY <1>3, <1>4, <1>5 DEF Decided

\* An order or a stocktake that a request decides on is given to it undecided.
LEMMA OrderlyDecides ==
  ASSUME Inductive, Decided, NEW w \in Workers, Orderly(w) PROVE Decided'
<1>1. TypeOK
  BY DEF Inductive
<1>2. ASSUME NEW o \in Orders, NEW to, NEW todo, Begin(w, o, to, todo, None), orders[o].status # "received"
      PROVE  Decided'
  BY <1>1, <1>2, StockAssumption, BeginDecides
<1>3. ASSUME NEW o \in Orders, IssueOrder(w, o) \/ CancelOrder(w, o) PROVE Decided'
  BY <1>2, <1>3 DEF IssueOrder, CancelOrder
<1>4. ASSUME NEW o \in Orders, ReceiveOrder(w, o) PROVE Decided'
  BY <1>2, <1>4 DEF ReceiveOrder
<1>5. ASSUME NEW o \in Orders, CommitOrder(w, o) PROVE Decided'
  <2>1. /\ worker[w].job.on = o /\ Store(w) /\ takes' = takes /\ crossed' = crossed
        /\ orders' = [orders EXCEPT ![o] = [status |-> worker[w].job.to,
             landed |-> @.landed + IF worker[w].job.to = "received" THEN 1 ELSE 0]]
    BY <1>5 DEF CommitOrder, Store
  <2>2. /\ orders \in [Orders -> [status : {"draft", "issued", "received", "cancelled"}, landed : Nat]]
        /\ OrdersLandOnce /\ VariancesPostedOnce /\ HasOrder(w)
    BY <1>1 DEF TypeOK, Decided
  <2>3. o \notin crossed => orders[o].landed = 0
    BY <2>1, <2>2 DEF OrdersLandOnce, HasOrder
  <2>4. /\ orders'[o].status = worker[w].job.to
        /\ orders'[o].landed = orders[o].landed + IF worker[w].job.to = "received" THEN 1 ELSE 0
        /\ \A p \in Orders \ {o} : orders'[p] = orders[p]
    BY <2>1, <2>2
  <2>5. OrdersLandOnce'
    BY <2>1, <2>2, <2>3, <2>4 DEF OrdersLandOnce
  <2>6. VariancesPostedOnce'
    BY <2>1, <2>2 DEF VariancesPostedOnce
  <2> QED
    BY <1>1, <2>1, <2>4, <2>5, <2>6, StoreDecides
<1> QED
  BY <1>3, <1>4, <1>5 DEF Orderly

\* What a request on a stocktake starts with: nothing posted and, of every item,
\* its variance to post.
LEMMA StocktakeDecides ==
  ASSUME Inductive, Decided, NEW w \in Workers, Stocktake(w) PROVE Decided'
<1>1. TypeOK /\ OrdersLandOnce /\ VariancesPostedOnce /\ HasTake(w)
  BY DEF Inductive, Decided
<1>2. worker[w] \in Worker
  BY DEF Inductive, TypeOK
<1>3. ASSUME NEW l \in Locations, OpenTake(w, l) PROVE Decided'
  <2>1. Begin(w, 0, l, {}, None) /\ 0 \notin Orders
    BY <1>3, StockAssumption DEF OpenTake
  <2> QED
    BY <1>1, <2>1, BeginDecides
<1>4. ASSUME CommitOpen(w) PROVE Decided'
  <2> DEFINE lines == [i \in Items |-> [expected |-> stock[i].level[worker[w].job.to],
                                        counted |-> None, book |-> 0, posted |-> 0]]
             t == [status |-> "counting", at |-> worker[w].job.to, lines |-> lines]
  <2>1. /\ worker[w].job.on = 0 /\ Store(w) /\ orders' = orders /\ crossed' = crossed
        /\ takes' = Append(takes, t)
    BY <1>4 DEF CommitOpen, Store
  <2>2. t.status = "counting" /\ \A i \in Items : t.lines[i].posted = 0
    OBVIOUS
  <2> HIDE DEF t
  <2>3. takes \in Seq(Take)
    BY <1>1 DEF TypeOK, Take
  <2>4. /\ DOMAIN takes' = DOMAIN takes \cup {Len(takes) + 1}
        /\ \A s \in DOMAIN takes : takes'[s] = takes[s]
        /\ takes'[Len(takes) + 1] = t
    BY <2>1, <2>3
  <2>5. VariancesPostedOnce'
    BY <1>1, <2>1, <2>2, <2>4 DEF VariancesPostedOnce
  <2>6. OrdersLandOnce'
    BY <1>1, <2>1 DEF OrdersLandOnce
  <2> QED
    BY <1>1, <2>1, <2>4, <2>5, <2>6, StoreDecides
<1> DEFINE Fresh(u, s, to, todo, count) ==
      /\ u.job = [on |-> s, to |-> to] /\ u.todo = todo /\ u.count = count
      /\ \A i \in Items : u.sums[i].all = 0
<1>5. ASSUME NEW s \in DOMAIN takes, CancelTake(w, s) PROVE Decided'
  <2>1. Begin(w, s, "cancelled", {}, None) /\ takes[s].status = "counting" /\ s \in Nat \ {0}
    BY <1>1, <1>5, TakesType DEF CancelTake
  <2>2. ASSUME NEW u, Fresh(u, s, "cancelled", {}, None) PROVE Counting(u, takes[s])
    BY <2>1, <2>2 DEF Counting, Posting, Due
  <2> QED
    BY <1>1, <2>1, <2>2, StockAssumption, BeginDecides
<1>6. ASSUME NEW s \in DOMAIN takes, NEW i \in Items, NEW qty \in Counts, CountTake(w, s, i, qty)
      PROVE  Decided'
  <2> DEFINE count == [item |-> i, qty |-> qty]
  <2>1. Begin(w, s, None, {}, count) /\ takes[s].status = "counting" /\ s \in Nat \ {0} /\ count # None
    BY <1>1, <1>6, StockAssumption, TakesType DEF CountTake
  <2> HIDE DEF count
  <2>2. ASSUME NEW u, Fresh(u, s, None, {}, count) PROVE Counting(u, takes[s])
    BY <2>1, <2>2 DEF Counting, Posting, Due
  <2> QED
    BY <1>1, <2>1, <2>2, StockAssumption, BeginDecides
<1>7. ASSUME NEW s \in DOMAIN takes, ApproveTake(w, s) PROVE Decided'
  <2> DEFINE adjust(i) == [kind |-> "adjust", item |-> i, at |-> takes[s].at, to |-> takes[s].at,
                           qty |-> Variance(s, i), price |-> 0, lot |-> None, line |-> 0]
             due == {j \in Counted(s) : Variance(s, j) # 0}
             todo == {adjust(i) : i \in due}
  <2>1. Begin(w, s, "approved", todo, None) /\ takes[s].status = "counting" /\ s \in Nat \ {0}
    BY <1>1, <1>7, TakesType DEF ApproveTake
  <2>2. \A i \in Items : adjust(i).kind = "adjust" /\ adjust(i).item = i /\ adjust(i).qty = Variance(s, i)
    OBVIOUS
  <2>3. due \subseteq Items
    BY DEF Counted
  <2> HIDE DEF adjust
  <2>4. ASSUME NEW u, Fresh(u, s, "approved", todo, None) PROVE Counting(u, takes[s])
    <3>1. \A i \in Items : Due(u, takes[s], i) = IF i \in Counted(s) THEN Variance(s, i) ELSE 0
      BY <2>4 DEF Due, Counted, Variance
    <3>2. u.todo = todo /\ \A i \in Items : u.sums[i].all = 0
      BY <2>4
    <3>3. ASSUME NEW i \in Items, i \in due PROVE Posting(u, takes[s], i)
      BY <2>2, <2>3, <3>1, <3>2, <3>3 DEF Posting
    <3>4. ASSUME NEW i \in Items, i \notin due PROVE Posting(u, takes[s], i)
      BY <2>2, <2>3, <3>1, <3>2, <3>4 DEF Posting
    <3>5. \A m \in u.todo : m.kind = "adjust"
      BY <2>2, <2>3, <3>2
    <3> QED
      BY <2>1, <3>3, <3>4, <3>5 DEF Counting
  <2> HIDE DEF todo
  <2> QED
    BY <1>1, <2>1, <2>4, StockAssumption, BeginDecides
<1>8. ASSUME NEW s \in DOMAIN takes, worker[w].job.on = s, Store(w), orders' = orders,
             NEW status, NEW lines, Taken(s, status, lines),
             s \notin crossed => \A i \in Items : lines[i].posted =
               IF status = "approved" /\ lines[i].counted # None
               THEN lines[i].counted - lines[i].expected ELSE 0
      PROVE  Decided'
  <2> DEFINE t == [status |-> status, at |-> takes[s].at, lines |-> lines]
  <2>1. t.status = status /\ t.lines = lines
    OBVIOUS
  <2>2. /\ DOMAIN takes' = DOMAIN takes /\ takes'[s] = t
        /\ \A r \in DOMAIN takes \ {s} : takes'[r] = takes[r]
    BY <1>1, <1>8, TakesType DEF Taken
  <2>3. crossed' = crossed
    BY <1>8 DEF Store
  <2> HIDE DEF t
  <2>4. VariancesPostedOnce'
    BY <1>1, <1>8, <2>1, <2>2, <2>3 DEF VariancesPostedOnce
  <2>5. OrdersLandOnce'
    BY <1>1, <1>8, <2>3 DEF OrdersLandOnce
  <2> QED
    BY <1>1, <1>8, <2>2, <2>4, <2>5, StoreDecides
<1>9. ASSUME NEW s \in DOMAIN takes, worker[w].job.on = s, s \notin crossed
      PROVE  /\ Counting(worker[w], takes[s])
             /\ \A i \in Items : takes[s].lines[i].posted = 0
  BY <1>1, <1>9, TakesType DEF HasTake, VariancesPostedOnce, Counting
<1>10. ASSUME NEW s \in DOMAIN takes, CommitTake(w, s) PROVE Decided'
  <2> DEFINE lines == [i \in Items |-> [takes[s].lines[i] EXCEPT !.posted = @ + worker[w].sums[i].all]]
  <2>1. /\ worker[w].job.on = s /\ worker[w].count = None /\ worker[w].todo = {} /\ Store(w)
        /\ orders' = orders /\ Taken(s, worker[w].job.to, lines)
    BY <1>10 DEF CommitTake, Store
  <2>2. \A i \in Items : /\ takes[s].lines[i] \in Line
                         /\ worker[w].sums[i].all \in Int
    BY <1>1, <1>2, TakesType DEF Worker, Sums
  <2>3. \A i \in Items : /\ lines[i].counted = takes[s].lines[i].counted
                         /\ lines[i].expected = takes[s].lines[i].expected
                         /\ lines[i].posted = takes[s].lines[i].posted + worker[w].sums[i].all
    BY <2>2 DEF Line
  <2> HIDE DEF lines
  <2>4. ASSUME s \notin crossed, NEW i \in Items
        PROVE  lines[i].posted = IF worker[w].job.to = "approved" /\ lines[i].counted # None
                                 THEN lines[i].counted - lines[i].expected ELSE 0
    <3>1. takes[s].lines[i].posted = 0 /\ Posting(worker[w], takes[s], i)
      BY <1>9, <2>1, <2>4 DEF Counting
    <3>2. worker[w].sums[i].all = Due(worker[w], takes[s], i)
      BY <2>1, <3>1 DEF Posting
    <3>3. lines[i].posted = Due(worker[w], takes[s], i)
      BY <2>2, <2>3, <3>1, <3>2
    <3> QED
      BY <2>1, <2>3, <3>3 DEF Due
  <2> QED
    BY <1>8, <2>1, <2>4
<1>11. ASSUME NEW s \in DOMAIN takes, CommitCount(w, s) PROVE Decided'
  <2> DEFINE count == worker[w].count
             line == [expected |-> takes[s].lines[count.item].expected, counted |-> count.qty,
                      book |-> stock[count.item].level[takes[s].at],
                      posted |-> takes[s].lines[count.item].posted]
             lines == [takes[s].lines EXCEPT ![count.item] = line]
  <2>1. /\ worker[w].job.on = s /\ Store(w) /\ orders' = orders
        /\ Taken(s, takes[s].status, lines)
    BY <1>11 DEF CommitCount
  <2>2. line.posted = takes[s].lines[count.item].posted
    OBVIOUS
  <2>3. takes[s].lines \in [Items -> Line]
    BY <1>1, TakesType DEF Take
  <2> HIDE DEF line
  <2>4. \A i \in Items : lines[i].posted = takes[s].lines[i].posted
    BY <2>2, <2>3
  <2>5. s \notin crossed => /\ takes[s].status = "counting"
                            /\ \A i \in Items : takes[s].lines[i].posted = 0
    BY <1>9, <2>1 DEF Counting
  <2> HIDE DEF lines
  <2> QED
    BY <1>8, <2>1, <2>4, <2>5
<1> QED
  BY <1>3, <1>4, <1>5, <1>6, <1>7, <1>10, <1>11 DEF Stocktake

\* A movement is nobody's order or stocktake, or one that is still to make.
LEMMA MovementDecides ==
  ASSUME Inductive, Decided, NEW w \in Workers, Movement(w) PROVE Decided'
<1>1. TypeOK /\ OrdersLandOnce /\ VariancesPostedOnce /\ Request(worker[w], stock, overtaken)
  BY DEF Inductive, Decided
<1>2. ASSUME NEW m \in Moves, Ask(w, m) PROVE Decided'
  <2>1. worker[w] = Idle /\ Do(w, m, {}) /\ crossed' = crossed
    BY <1>2 DEF Ask, Start, Busy, Do
  <2>2. worker[w].job.on = None
    BY <2>1 DEF Idle, NoJob
  <2> QED
    BY <1>1, <2>1, <2>2, StockAssumption, SoundMoves, DoDecides
<1>3. ASSUME NEW i \in Items, Load(w, i) PROVE Decided'
  BY <1>1, <1>3, LoadDecides
<1>4. ASSUME NEW m \in worker[w].todo, Proceed(w, m) PROVE Decided'
  <2>1. Do(w, m, worker[w].todo \ {m}) /\ crossed' = crossed
    BY <1>4 DEF Proceed, Do
  <2>2. Sound(m)
    BY <1>1 DEF Request
  <2> QED
    BY <1>1, <2>1, <2>2, DoDecides
<1>5. ASSUME CommitMove(w) PROVE Decided'
  <2>1. Store(w) /\ orders' = orders /\ takes' = takes /\ crossed' = crossed
    BY <1>5 DEF CommitMove, Store
  <2>2. OrdersLandOnce' /\ VariancesPostedOnce'
    BY <1>1, <2>1 DEF OrdersLandOnce, VariancesPostedOnce
  <2> QED
    BY <1>1, <2>1, <2>2, StoreDecides
<1>6. ASSUME Fail(w) PROVE Decided'
  BY <1>1, <1>6, FailDecides DEF Fail
<1> QED
  BY <1>2, <1>3, <1>4, <1>5, <1>6 DEF Movement

LEMMA IdleDecides ==
  ASSUME Decided, UNCHANGED <<orders, takes, worker, crossed>> PROVE Decided'
<1>1. OrdersLandOnce' /\ VariancesPostedOnce'
  BY DEF Decided, OrdersLandOnce, VariancesPostedOnce
<1>2. \A w : HasOrder(w)' = HasOrder(w) /\ HasTake(w)' = HasTake(w)
  BY DEF HasOrder, HasTake
<1> QED
  BY <1>1, <1>2 DEF Decided, Apart, Due

-----------------------------------------------------------------------------
(* Theorems *)

\* What every request keeps, whoever else is at work (the services of inventory).
THEOREM Invariance == Spec => []Inductive
<1>1. Inductive /\ [Next]_vars => Inductive'
  <2> SUFFICES ASSUME Inductive, [Next]_vars PROVE Inductive'
    OBVIOUS
  <2>1. ASSUME NEW w \in Workers, Orderly(w) \/ Stocktake(w) \/ Movement(w) PROVE Inductive'
    BY <2>1, OrderlyStep, StocktakeStep, MovementStep
  <2>2. ASSUME NEW l \in Locations, Deactivate(l) \/ Activate(l) PROVE Inductive'
    BY <2>2, PlacesStep
  <2>3. CASE UNCHANGED vars
    BY <2>3 DEF vars, Inductive, TypeOK, Mutex
  <2> QED
    BY <2>1, <2>2, <2>3 DEF Next
<1> QED
  BY <1>1, InitInductive, PTL DEF Spec

\* Every cost in sight lies between two of those stock came in at (goods_in).
THEOREM OriginsInvariance == Spec => []Origins
<1>1. Inductive /\ Origins /\ [Next]_vars => Origins'
  BY NextOrigins
<1> QED
  BY <1>1, InitOrigins, Invariance, PTL DEF Spec

\* What requests do about the order or the stocktake they have in hand.
THEOREM DecidedInvariance == Spec => []Decided
<1>1. Inductive /\ Decided /\ [Next]_vars => Decided'
  <2> SUFFICES ASSUME Inductive, Decided, [Next]_vars PROVE Decided'
    OBVIOUS
  <2>1. ASSUME NEW w \in Workers, Orderly(w) \/ Stocktake(w) \/ Movement(w) PROVE Decided'
    BY <2>1, OrderlyDecides, StocktakeDecides, MovementDecides
  <2>2. ASSUME NEW l \in Locations, Deactivate(l) \/ Activate(l) PROVE Decided'
    BY <2>2, IdleDecides DEF Deactivate, Activate
  <2>3. CASE UNCHANGED vars
    BY <2>3, IdleDecides DEF vars
  <2> QED
    BY <2>1, <2>2, <2>3 DEF Next
<1> QED
  BY <1>1, InitDecided, Invariance, PTL DEF Spec

\* Every variable keeps its type.
THEOREM TypeCorrect == Spec => []TypeOK
<1>1. Inductive => TypeOK
  BY DEF Inductive
<1> QED
  BY <1>1, Invariance, PTL

\* The movement ledger tells every shelf and every lot, and none is below
\* zero, however requests overlap (inventory/service.py).
THEOREM ShelvesAreTold == Spec => []ShelvesReconcile
<1>1. Inductive => ShelvesReconcile
  BY DEF Inductive, ShelvesReconcile, Committed, NotBelowZero
<1> QED
  BY <1>1, Invariance, PTL

\* So is the quantity on hand of an item no receipt read too early
\* (_receive_to_store, procurement/service.py).
THEOREM OnHandIsTold == Spec => []ReconcilesUnlessOvertaken
<1>1. Inductive => ReconcilesUnlessOvertaken
  BY DEF Inductive, ReconcilesUnlessOvertaken, Committed
<1> QED
  BY <1>1, Invariance, PTL

\* The weighted average cost of an item lies between two unit costs its stock came
\* in at, and is nothing before any came in (goods_in).
THEOREM CostIsAPrice == Spec => []CostWithinPrices
<1>1. Origins => CostWithinPrices
  BY DEF Origins, CostFits, Within, CostWithinPrices
<1> QED
  BY <1>1, OriginsInvariance, PTL

\* An order that no two requests had in hand at a time lands once when it is
\* received and never when it is cancelled (receive_po, cancel_po).
THEOREM OrderLandsOnce == Spec => []OrdersLandOnce
<1>1. Decided => OrdersLandOnce
  BY DEF Decided
<1> QED
  BY <1>1, DecidedInvariance, PTL

\* A stocktake that no two requests had in hand at a time posts what was counted
\* less what was expected, once, when it is approved (approve_stocktake).
THEOREM VariancePostedOnce == Spec => []VariancesPostedOnce
<1>1. Decided => VariancesPostedOnce
  BY DEF Decided
<1> QED
  BY <1>1, DecidedInvariance, PTL
=============================================================================
