# A verification project for the construction engine

The repository is a business system for building contractors: a FastAPI
application over one PostgreSQL database (`src/backend/app`) and a React client
(`src/frontend/src`) whose field forms work without signal. These modules model
the parts of it in which the order of things matters: what is decided from data
another request may be changing, what is written twice if a request is repeated,
and what must still add up afterwards.

## How the system is built, and what that means for a model

Every request is one transaction: `core/database.py` `get_db` opens a session,
the router calls a service function, and the session is committed after the
handler returns (rolled back if it raises). There is no other unit of work, no
background job and no isolation level above PostgreSQL's default.

The commit is *behind the answer*. It stands after the `yield` of `get_db` (line
29), the dependency has the default scope (`core/deps.py:17`), and in the FastAPI
that `uv.lock:359` pins, 0.141.1, such a dependency is left only when the response
has been sent. An exception of the handler is rolled back before its error answer.
So a client may hear of a success that is not committed yet, that another request
does not see, and that a worker which dies, or a constraint checked at the commit,
takes back. Where a client acts on an answer (`OfflineSync`, `Photos`, `Session`,
`Claims`) the answer and the commit are two steps in this order, and the commit may
fail. `SyncPush`, `Stock`, `Ledger`, `Subcontracts`, `Dependencies` and `DocNumbers`
have no client in them; there the commit is the step that counts. `Ingestion` has a page
and keeps the two in one step, for the reason its section gives.

From this,

- the statements of two requests interleave at READ COMMITTED: a SELECT sees
  what is committed at that moment plus the transaction's own writes;
- a row that a transaction has written or selected FOR UPDATE makes the others
  wait until it ends, a unique key it has inserted does too;
- a status that is read, checked in Python and then written is not protected by
  the check.

A module models one service as transactions over its tables. Where the code
takes a row lock first and does everything under it, the whole operation is one
step. Where it does not, reading and writing are two steps, and everything
another request can commit in between is explored.

The same holds on the phone between two `await`s: what a call of `drain()` looked
at before an `await` may have changed after it.

## The system's parts

Statuses and reasons are also in `PROJECT.json`; the hazards listed there carry
the line where each bites. "Modelled in" is a dash for what is not modelled;
the reasons are at the end.

### Field work without signal

| part | state | operations | what is hard | modelled in |
|---|---|---|---|---|
| Outbox of the phone (`lib/offline/outbox.ts`, `sync.ts`) | the IndexedDB queue of captures with their status; the module variable `running` | `enqueue`, `pending`, `remove`, `markRejected`, `drain`, `startSyncLoop`, the Discard button | drains overlap; a response is lost after the commit; the browser is killed in the middle; a capture must not be lost, sent away unanswered, or wedge the queue | Outbox, OfflineSync |
| Sync server (`modules/sync`) | `sync_operations` (one row per client operation id), the diaries, crews and rows captures turn into | `push` with one handler per op type, each under a savepoint; `bootstrap`, `rejected_for` read | retries that overlap the push they repeat; two phones about one day; merges computed from a page read earlier; deadlocks swallowed as refusals | SyncPush |
| The path as a whole | both of the above and a lossy network | send, lose, answer, retry | each capture decided once, kept by its phone until then | OfflineSync, with CaptureLedger as what it promises |
| Photo queue (same files, `modules/media`) | a second queue, sent one by one | upload, fail, retry | no guard against two drains; the server looks for the operation id before it inserts it; a count of refusals that drains overwrite | Photos |

### Material and orders

| part | state | operations | what is hard | modelled in |
|---|---|---|---|---|
| Inventory (`modules/inventory`) | items with quantity on hand and average cost, a level per location, lots, the movement ledger, stocktakes, locations | goods in, issue, adjust, transfer, open/count/approve/cancel a stocktake, activate and deactivate a location, reorder suggestions | three stores of the same quantity must agree; averaging and rounding; statuses read without a lock | Stock |
| Purchase orders (`modules/procurement/service.py`) | orders, lines, status | create, issue, receive (into the store or to a project), cancel | an order received twice or received and cancelled; rows read before they are locked | Stock |
| Document numbers (`common/doc_numbers.py`, used by fifteen services) | the numbers of the rows of each document table | take the next number; delete a draft and restore it (`admin/trash.py`) | a lock taken on a row chosen before the wait; numbers compared as strings; suffixed numbers | DocNumbers |
| Quotes, RFQ portal, ratings, supplier portal | requests for quotation, quotes, invoices submitted and decided | issue, submit, accept, decide | tokens that may be used twice, decisions taken twice | – |

### Money

| part | state | operations | what is hard | modelled in |
|---|---|---|---|---|
| Journals (`modules/accounting/service.py`) | accounts with running balances, drafts, posted and reversed journals, the general ledger | draft, post, reverse, automatic posting of costs and deliveries, the catch-up of what has none, activate and deactivate accounts | balances computed in Python; what is decided from unlocked reads; refusals that are swallowed | Ledger |
| Subsidiary ledgers (`subsidiary.py`) | a pocket per supplier under the payable account | mirrored by posting | no lock of their own | Ledger |
| Payments (`payables.py`) | payments and their allocation to orders | pay | the outstanding sum is read before the allocation is written | Ledger |
| Costs (`modules/costs`) | cost entries | create (edit and delete) | posting by side effect | Ledger (creation) |
| Banking, cost to complete, chart (`banking.py`, `cvr.py`, `hierarchy.py`) | statement lines and matches | import, match, unmatch, complete | a line matched twice | – |
| Subcontracts (`modules/subcontracts`) | a package, its stages and variations, the retention held | award, submit, certify, reject, agree, decline, release | statuses and sums read without a lock; the last two certifications must see each other | Subcontracts |
| Expenses (`modules/expenses`) and their page | claims; the cached list, snapshots to roll back to | create, correct, approve, reject, cancel | two decisions about one claim; guesses, rollbacks and fetches that overtake each other | Claims |
| Valuations, requisitions, payroll | a status machine each | create, issue, approve, cancel, convert | every status is read, checked and then written without a lock; approving has side effects (a cost, an order, a journal) | – |
| Ingestion (`modules/ingestion`) and its page (`features/ingestion`) | documents and their status; cards, a queue, reads in flight | upload, read by an external model, retry, redraft, approve, reject | the status is read before a call of seconds and written after it; answers that are lost; the count of reads in flight | Ingestion; its effect on the books is `Import` in Ledger |

### The rest

| part | state | operations | what is hard | modelled in |
|---|---|---|---|---|
| Tasks (`modules/tasks`) | dated tasks, dependencies of four types with lags | plan, delete, add and remove a dependency, analyse | a cycle closed by two additions; days too many or too few in the passes of the critical path | Schedule |
| Sign-in (`modules/auth`, `lib/api/axios.ts`, `features/auth`) | refresh tokens with their successors; a cookie; a store per tab | sign in, refresh, log out, restore at boot, repeat a request | reuse detection against retries and two tabs; many requests, one refresh | Session |
| Optimistic updates (`lib/api/optimistic.ts`) | cached lists, snapshots | guess, roll back, fetch anew | as for expenses | Claims |
| Fleet, requests for quotation, supplier portal, banking | assignments, quotes, invoices, matches | – | unlocked checks of the shapes above | – |

Projects, bills of quantities, clients, company, users, permissions, comments,
notifications, search, dashboards, reports, the client portal and the AI assistant
are master data, reads or drafts, in which no order of requests matters. Screens
other than those named here, the generated API client, migrations, seeds and
packaging are not modelled either.

### How they interact

A phone's `drain()` posts its backlog to `push()`, whose transaction writes the
site diary tables; the answer settles the queue. Receiving a purchase order calls
`goods_in()` for each of its lines, in the transaction of the order. Recording a
cost, a receipt, an issue, an approved expense, a pay run or a certificate calls
the accounting service in the same transaction; a payment posts a journal and
writes its allocations. All of them take document numbers, and all of them end
with the one commit of `get_db`.

## The modules

### Captures, SyncPush, Outbox, OfflineSync, CaptureLedger

`Captures` has what both halves know: a capture is an index (its order in a
batch), with an author, a type, a day and what it says in each column of a diary.
Prose is a set of texts per column, so that "can still be read" is `\subseteq`.

`SyncPush` runs `push()` by any number of workers. `syncOps`, `diary`, `crew` and
`filed` are committed tables; `push[p]` is a transaction: its place in the
backlog (`pc`, `todo`), what its handler read (`page`, `counted`) and what it has
written (`rows`, `pages`, `crews`, `adds`).

| action | code |
|---|---|
| `Open` | the request with its backlog |
| `Duplicate` | the SELECT on `client_op_id` finds a row |
| `Refuse` | unknown op type, invalid payload, or labour for a day with no diary |
| `Read` | the SELECTs of the handler |
| `Write` | its INSERT or UPDATE, waiting for the row or unique key another push holds; a key taken since is a refusal under the savepoint |
| `Victim` | the deadlock detector breaks that statement: also a refusal |
| `Record` | the INSERT into `sync_operations`, outside the savepoint |
| `Commit`, `Abort` | the end of the transaction |

`site_issue`, `meter_reading` and `fuel_log` add a row of their own and read
nothing they change: one abstract type, counted by `filed`. The headcount and the
weather of a diary are left out.

`Outbox` is the phone, one action for what runs between two awaits: `Capture`,
`Discard`, `Look` (the test of `running`), `Post` (after `await pending()`),
`GiveUp`, `Receive`, `Remove`, `FindRejected` and `MarkRejected` (the get and the
put of `markRejected()`), `Done`, `Kill`. The queue survives `Kill`; `running`
and the drains do not.

`OfflineSync` puts the two together over a network that loses requests and
responses; a push may outlive the drain that sent it. A push answers (`Respond`,
`ResponseLost`) and then commits (`CommitPush`) or comes to nothing (`ServerFails`,
before or after the answer). `Told` are the outcomes a phone has of a push that is
still to commit, `Owed` what is owed so for a capture, and `broken` the outcomes that
were told and came to nothing, until another push makes them true.

`CaptureLedger` is what is promised without phones, pushes or a network: captures
are decided once, effects are written with the decision, and a phone lets go only
of what has been decided or promised. A promise (`Tells`) binds the decision
(`Decides` is as told) or is broken (`Breaks`), which `unkept` remembers.
`OfflineSync` implements it under `Records <- Ops`, `fate <- syncOps`,
`effects <- filed`, `told <- Owed`, `unkept <- broken` and `letGo` = the captures sent
or discarded. `TakeBack` is there because a drain that holds a refusal puts the
record back after another drain has removed it. That a promise may be broken is what
`capture_lost` shows.

### DocNumbers

One prefix and year. `Find` is the snapshot of `next_doc_number()`'s SELECT,
`Lock` its FOR UPDATE (a row that is gone is passed over, a locked one is waited
for, newer rows are not seen), `Insert` the row of the caller with its unique
number, `Commit` and `Fail` the ends of the request, `Delete` and `Restore` the
trash. Numbers are compared as the database compares strings, digit by digit with
`-` before the digits, and read back from the end of the string, as the code does.
`Power` is the powers of ten, `Lots` how many rows may share a number.

### Stock

`stock[i]` is the row of an item with its levels and lots, `ledger[i]` the sums
of its movements and the unit costs of those that brought stock in (`came`: the
price of a goods-in, the item's own cost of a surplus an adjustment finds). A request locks the item (`held`), works on its own copy
(`own`, `sums`) and commits both. `GoodsIn`, `Issue`, `Adjust` and `Transfer` are
the four services, each a function from the row to the outcomes it allows (none:
refused). Orders and stocktakes are decided from statuses read at `Begin` and
written at the commit. `Load` is the read of the item in `_receive_to_store()`
before `goods_in()` locks it: the session does not refresh an object it holds,
so `Do` computes with the quantity and cost of that earlier read.

The lock of a level is subsumed by the item's, which is always taken first. A
serial number is a lot of quantity one. Left out: the cost entries and journals
of movements (they are in Ledger), reasons of loss, creation and editing of items,
and the mismatch of expiry dates. Collisions of document numbers and deadlocks are
`Fail`. Two history variables mark the cases a property excuses: `overtaken` items
(a receipt computed with values another request had changed) and `crossed` orders
and stocktakes (two requests had one in hand at a time).

### Ledger

`journals` are drafts, posted and reversed journals with their lines summed per
account, debits positive; `balance` the running totals of accounts and pockets;
`book` the sums of the rows of `general_ledger` and `subsidiary_entries`. A
request is one of: `Record` (a cost or delivery and its posting), `PostMissing`
(the catch-up, with the list it read), `PostDraft`, `Reverse`, `PaySupplier`;
`EnterManual`, `Import`, `Deactivate` and `Activate` are single steps. `Write`
drafts one journal, locks its accounts and posts it; refused, it leaves the draft
behind for the automatic postings and fails the request for the others.

Drafting and posting are one step: drafting reads nothing that can change and
only keeps others waiting. The locks on the accounts of a journal are taken at
once: the code takes them in the order of their ids. Pockets have no lock; the
proof shows why that is safe (below). Overlapping requests for a number wait and
then collide (`DocNumbers`), so `NumberFree` and `PaymentFree` guard those steps and
the losers `Fail`. The unique key on the line of a ledger row is `KeyFree`. Periods
are constant: no endpoint closes one, only a script. Left out: currencies, account
headings, certificates and receipts from clients, payments over several orders,
valuations, editing and deleting cost entries.

### Session

`tokens` are the rows of refresh tokens in the order of their insertion, each with
the sign-in it descends from and the row that replaced it; `cookie` the one cookie of
the browser; `tab` the auth store and `refreshPromise` of a tab; `call` a refresh or
logout between tab and server; `req` any other request.

| action | code |
|---|---|
| `Send`, `Accepted`, `RequestFails` | the interceptors of `axios.ts` |
| `Unauthorized` | a 401: start the tab's refresh (`StartRefresh`) or wait for the one under way (`JoinRefresh`) |
| `UnauthorizedAgain` | the repeated request is refused too |
| `ReadToken`, then `Rotate`, `Reuse` or `Refuse` | `rotate_refresh_token()`: the row is read without a lock, and what was read is acted on; the answer can leave |
| `Revoke` | logout on the server |
| `Save`, `SaveFails` | the commit behind the answer to a sign-in, a refresh or a logout, or none |
| `Refreshed`, `RefreshRefused`, `LoggedOut`, `CallLost` | what the tab does with the answer or without one |
| `SignIn`, `LogOut`, `Reload`, `Expire` | the person, the page and the clock |

`writes` are the rows answered for and still to commit: a new row is `open` until its
transaction is `in` or `lost`, and the row it replaces is revoked by the same commit,
as SQLAlchemy sends that UPDATE only then. Nobody else finds an open row, so a tab
that refreshes again before the commit is refused (`Refuse`). `Reuse` commits by
itself before its 401 (`auth/service.py:65`), and revokes what is committed.

A sign-in is one step up to its commit; requests that succeeded and that failed are
one state (`over`). The cache of permissions and passwords are left out. `crossed` marks
sign-ins of which an answer was lost or two calls were under way that no single tab
keeps apart: for those the server's detection of reuse may end an honest session.
`broken` marks sign-ins of which a commit failed behind its answer: their cookie may
have no row. A connection that is lost while the server works is a lost answer once
it has worked.

### Photos

`kept` and `attempts` are the photo queue in IndexedDB, `drain[d]` a call of
`drainPhotos()` with the list it read, `upload[d]` its request, `rows` what the server
has filed under the id of the device. `StartDrain`, `Post`, `Answered`, `Stored`,
`NoteRead` and `NoteWrite` are the stretches between awaits (the last two are the get
and the put of `notePhotoFailure()`), `FormRefused`, `Lookup` and `SaveMedia` the endpoint:
its validation, its search for the id, its INSERT under a unique index, with which the
answer can leave. `inserted` are the photos whose transaction is still open:
`CommitMedia` files them, `CommitFails` leaves them to `broken`. A second upload of such
a photo waits for the first. A loser of the
index gets a 500, which is not counted as a refusal; its file stays behind as an
orphan. `Close` takes drains away and leaves requests, `HangUp` is a connection that is
lost while the server goes on. A session that is over counts as a refusal, as in the
code.

`upload_media()` is an `async def` that calls the database without awaiting, so with one
process (`README.md:56` starts one) an upload that waits for another's open
transaction stops the event loop which that one needs for its commit. The model lets
the commit come, as with several processes; the hazard is listed.

The folder of the uploads is a variable, since `drainPhotos()` sends one that the
server's enumeration does not have: the passing run takes it as accepted, and
`photo_refused` takes the enumeration of the code.

### Subcontracts

A request reads what it decides on at `Read...`, which is also what the buttons of the
screen allow, and writes later; the row it writes makes it wait and no more. A
certificate is written in the order of the code: `WriteStage`, `Number` (its
journal, whose number makes overlapping journals collide: `NumberFree`), `Count`
(`_close_if_complete()`) and `Certify`. The certified amount is always the value of
the stage, as the screen sends none. `crossed` marks stages, variations, the value and
the retention that two requests had decided on at the same time.

### Ingestion

`phase`, `queue`, `inFlight` and `call` are the cards and the pump of the page,
`status` and `posted` the server. `BeginReading` is the read of the status in
`process_item()`, `EndReading` the write after the call of the model; between the two
anything can happen. `BeginReview` and `EndReview` are approval, rejection and
correction with the same gap. `crossed` marks documents written by one request while
another had read them. The kinds of record a document becomes are one count.

Answer and commit are one step here, as neither property turns on their order. A card
settles by its answer, whatever becomes of the commit; a request that comes before the
commit of the one it builds on is refused, which is a `ReadingFails`. What a document is
posted as depends on commits alone: until its commit a request is between `Begin...` and
`End...`, the gap other requests come into, and one that fails to commit has posted
nothing. Left out is the card that shows "done" for a reading that was not committed.

### Claims

`status`, `amount`, `costs` and `journals` are the server; a request goes through
`Begin` (reads the claim, requires it pending), `Number` (an approval's cost and
journal), `Answers` and `Write`, the commit behind the answer, which may fail
(`CommitFails`). `pc` is where the server is with it and `page` what the page has heard:
a page that has its answer, or has lost the connection (`HangUp`), no longer waits,
and the server goes on all the same. The page has `list` (what it shows, with rows
being saved and
placeholders), `kept` (the snapshot of each mutation) and `fetch`. `Mutate` is
`onMutate` with `cancelQueries()`, which in TanStack Query goes back to what the list
was when the fetch began; `Heard` is `onError` or `onSuccess`, then `onSettled`, which
fetches anew. `Elsewhere` is anyone else. Who may decide what is left to the sender.

`missed` is what has happened since the server last read the list for the page: a
fetch failed, or something was committed that the page is not still to hear of. The
second is a request of somebody else, or one of the page's own that was committed
after the page had heard of it and fetched the list: the refetch of `onSettled` can
come before the commit it is to show, and nothing fetches again. `mixed` marks that
requests of the page overlap:
a refusal then puts back a snapshot older than another's guess, so the row of a
decision on its way can show its buttons again.

### Dependencies, Schedule

`Dependencies` is what changes: `planned` are the tasks' dates, `links` the
dependencies with type and lag, `addition[r]` a dependency that a request has found to
close no cycle and not added yet. `CheckDependency` is that look, `AddDependency` the
insertion after it; `overtaken` marks that one was added which another request had not
seen. `Visited` says what the search for a cycle comes past as a set: the least one
that holds the start and, with a task, its successors.

`Schedule` is what is computed from it: `Finds`, the loop of `_would_create_cycle()`
with its stack, which is compared with `Visited` for every pair of tasks, and the
critical path. `TopologicalOrder`, `Forward`, `Backward`, `TotalFloat` and `Critical` are `cpm.py` as
operators. A loop is a function of its turns, with as many turns as it can need:
`Visit` is one turn of the search, `FreeNext` one of Kahn's algorithm, and a pass gives
one task after another its dates (`With`). Turns after the loop has ended change
nothing. Which of several tasks comes first (the code takes them in the user's order,
the dependencies in the database's) is left to `SetToSeq`.

The results are compared, on every network the actions reach, not with another
algorithm but with what the words mean: early dates keep every dependency and none
can be earlier; the float of a task is how far it can slip (the project is computed
again with the task moved by its float, and by one day more). A task whose end is
before its start is not scheduled by the code, like one without dates.

## What TLC checks

| run | instance | checks | says |
|---|---|---|---|
| `sync_push` | 3 diaries and a crew of two phones on one day, 2 pushes of any backlog | CrewHasDiary, ReadingsSurviveInTurn, OutcomeIsFinal, WorkDoneStands | a crew always has its diary, an outcome is never changed, the first account of the work done is never replaced, even by pushes that cross and deadlock; in turn, every reading of the day survives the merge |
| `offline_sync` | 2 captures, 1 phone, 2 drains, 2 pushes that answer before they commit | NothingLost, NothingWrittenTwice, RefusalIsTrue, NeverWedged, ImplementsLedger, EveryCaptureSettles | whatever is lost, killed, repeated or overlapped, a capture is decided once, and kept by its phone until it has been told of a decision; a decision told is made, unless its commit fails; when the connection holds, every one settles |
| `numbers` | 2 requests, 2 digits, 11 documents | NextIsFree, EveryoneIsServed | the next number is free unless somebody has it in hand, and everyone who retries is served, up to and past the deletion and restoring of drafts |
| `stock` | 2 items (one in lots), 2 locations, 2 lots, an order of 2 lines, a stocktake, 2 workers, 6 requests | ShelvesReconcile, ReconcilesUnlessOvertaken, CostWithinPrices, OrdersLandOnce, VariancesPostedOnce | the ledger tells every shelf and lot, the cost stays between two unit costs stock came in at, orders and variances count once unless two requests had them in hand |
| `ledger` | 5 accounts, a supplier, 4 entries (one in a closed month, one imported, one delivery), an order of 2, 2 workers, 5 requests | BalancesTold, BookIsTheJournals, NeverOverpaid, CostsPostedOnce, ReversalUndoes | balances are their rows, rows are the journals, an order is not overpaid, a cost is posted once and a reversal undoes all of what it reverses, once |
| `session` | 2 tabs, 2 requests, 2 calls at a time, 4 sign-ins, requests, logouts and reloads in all | OneSession, Backed, RequestsSettle | one refresh per tab keeps the server from taking its own retries for a theft; the cookie is good, or its row or the next one is on its way, unless a commit failed; nobody waits for ever |
| `photos` | 2 photos, one of them bad, 2 drains, left alone after 2 refusals, 4 faults | FiledOnce, NothingLost, PhotosLeave, RefusedLeftAlone | filed once, let go of only when the server has answered for it, not stuck behind a bad one, and the bad one not sent for ever though drains overwrite each other's counts |
| `ingestion` | 2 documents, 1 read at a time, 2 tries each, 2 reviewers, 2 reviews, a fault | PostedOnce, EveryCardSettles | posted once unless two requests had read it, and every card gets its turn |
| `claims` | a claim of one's own and one of another, one of them still to be made, 2 requests of the page, 1 elsewhere, 3 requests in all, a fault | CostIsTheClaim, ScreenIsTruth, NotOfferedTwice | one cost of the right amount; no guess outlives its request, and the page rests on what the server had when it last read; a decision on its way takes its buttons away |
| `project` | subcontracts: stages that hold back 2 and 1, variations of +2 and −3, 2 requests at a time, 7 in all; tasks: 3, 2 spans of dates, the 4 types of dependency with lag, lead or none, 3 dependencies, 2 additions at a time | StagesMoveOn, CostOnce, RetentionStands, ValueExplained; AcyclicUnlessOvertaken, AnalysisIsRight | the package closes with its last stage; costs, retention and value are what was decided, unless two requests decided the same thing at a time; only overlapping additions close a cycle; the search finds a way exactly where there is one; the analysis is the critical path method's on every network |

`project` checks `Subcontracts` and `Schedule` in one run, one at a time: they share
nothing, and `part` says which of the two moves.

Two runs show disagreements between the code and what it says of itself. Each checks
one property, is expected to be violated, and is a finding in `PROJECT.json` with the
line that is contradicted:

- `capture_lost`: `sync/service.py:10`, "Nothing is silently lost, in either direction".
  The answer to a push leaves before `get_db` commits. A worker that dies between the
  two, or a commit that fails, leaves the server without the captures, and the phone
  has already removed them from its queue. The counterexample needs one push: sent,
  answered, removed, and no commit.
- `photo_refused`: `drainPhotos()` sends every photo with the folder `progress`, which
  the server does not know, so good photos are refused and after five goes left alone
  as bad ones.

### The bounds, and why they are enough

Every interference in this code is between two transactions (or two drains), so
two workers are the least that shows it and what the runs have; the theorems below
hold for any number. `Captures`: 3 diaries and a crew are two per phone, so that a
backlog can hold a diary and a crew in an order opposite to the other's; the composed run has 2, one
that is taken and one that is refused, as phones, drains, losses and crashes
multiply. `MaxDocs` 11 with `Width` 2 leads past the ninth and tenth number, the
first whose padding matters and the first with two digits; `Width` is 3 in the
code and 999 documents are out of reach, which is why what happens to numbers
beyond it is in the list of divergences below and not in a run; `Lots` 1 leaves out
the issues from several lots, for which `NextIsFree` is false (below). `MaxRequests` 6
(Stock) and 5 (Ledger) are enough to issue, receive, count, approve and move in
between, and to record, catch up, post, reverse and pay. `MaxLevel` 3 and
`MaxTakes` 1 bound quantities and the length of a history; the code allows one open
stocktake, and two requests that open one at a time still make two in the model.
Requests are counted, not steps: a request in
hand always runs to its end.

`Session`: two tabs are the least that share a cookie, two requests the least that share
a refresh; `MaxTurns` 4 lets them be any four of sign-ins, requests, logouts and
reloads, so that a second sign-in meets what the first left in a tab, or two requests
share a refresh and a reload follows. `Photos`: the
bad photo is the first, so that the other waits behind it; the limit is 2 (5 in
the code), the least at which a count can be overwritten and still be reached. Four
faults lose an answer and a commit and still close a page or a connection twice.
`Subcontracts`: two stages, as the question is whether the last two see each other, and
seven requests, which award, submit and certify both and leave two for variations and
retention. `Ingestion`: one read at a time (3 in the code) makes the other card wait.
`Claims`: three requests let two of the page overlap with one made elsewhere; of two
claims one is there at first (both, after a creation), and each kind of fault is met.
`Schedule`: three tasks are the least with a cycle that is not direct and a task between
two others; one lag of each sign, and spans of one and of three days.

Deadlock is not checked, as a bounded number of requests leaves
nothing to do at the end; that drains and requests do end is what the liveness
properties are for.

### Fairness

`OfflineSync`: each of a drain's own steps is weakly fair (JavaScript runs to the
next await, and `startSyncLoop` calls `drain()` every minute and on `online`);
the server works off what it was sent, commits what it has answered, and a doomed push fails. Nothing is
assumed of the network except `ConnectionHolds`: from some time on no request,
response, worker or browser is lost. A phone that never has signal again delivers
nothing, in the model as in the world.

`DocNumbers`: users ask until they have their document, requests run to their
end, a request whose number is taken fails and is repeated, and from some time on
no request fails for other reasons and nobody deletes or restores. Lock waits are
steps that are not enabled, not steps that fail.

`Stock` and `Ledger` promise no liveness, and nothing in them is fair.

`Session`: the server works on the calls it has and ends the commits it owes, answers that are not lost are acted on,
and a request that was answered 401 gets to see it (strongly, as a slot for its
refresh may be taken and given back again and again; the slots bound the model, not
the code). A lost call ends too: nothing waits for an answer without an end.

`Photos`: the timer of `startSyncLoop` starts a drain again and again, and drains
and the server, with its commits, get on with what they have. Faults are bounded, which is to say that
they stop at some time.

`Ingestion`: the server ends what it began and the page hears of it; nothing is assumed
of reviewers or of the person who tries again.

`Claims`, `Subcontracts` and `Schedule` promise no liveness. That a package closes is
the invariant `StagesMoveOn`: there is always a button.

## What is proved

The theorems hold for every value of the constants that the `ASSUME` of each module
allows: any number of workers, items, locations, lots, accounts, captures, tasks,
phones. TLC evaluates those assumptions in every run. Each proof names an inductive
invariant, shows that `Init` implies it and every action keeps it, and reads the
property off. Every invariant and action property of the passing runs is proved, and so
is the refinement.

| module | of | theorems |
|---|---|---|
| OfflineSyncProofs | SyncPush, Outbox, OfflineSync | PushInvariant, PushTypeOK, PushWritesOnce, PushOutcomeIsFinal, CrewIsOnADiary, AccountStands, ReadingsSurvive; RetriesWriteOnce, SomeDrainRuns, NoCaptureLost, RefusalsAreTrue, PhonesImplementLedger |
| StockProofs | Stock | TypeCorrect, ShelvesAreTold, OnHandIsTold, CostIsAPrice, OrderLandsOnce, VariancePostedOnce |
| LedgerProofs | Ledger | TypeCorrect, TotalsAreTold, OrderIsNotOverpaid, InactiveAccountsStand, CostIsPostedOnce, ReversalIsOneMirror, RowsAreTheJournals |
| SessionProofs | Session | TypeCorrect, SessionIsOne, SessionIsBacked |
| FilingProofs | Photos, Ingestion, DocNumbers | TypeCorrect, PhotoFiledOnce, NoPhotoLost; DocumentPostedOnce; NextNumberIsFree |
| SubcontractsProofs | Subcontracts | TypeCorrect, CertifiedOnce, PackageNotLeftOpen, RetentionIsHeld, ValueIsExplained |
| OfficeProofs | Claims, Dependencies, Schedule | ClaimIsPaidOnce, RestingScreenIsTruth, DecisionIsNotOfferedTwice; NoCycleAlone; ChartIsRight, ChartIsDrawn |
| FiniteData | – | least numbers, loops as functions of their turns, sums over a finite set: what the others need of finite data |

### Field work

`NothingWrittenTwice` is not inductive: it says nothing of what open transactions are
about to commit. `IInv` adds `StagedOK`: a row of `sync_operations` that a push has
inserted but not committed is of a capture with no committed outcome, which no other
push has inserted (the unique key), and a row of its own is staged exactly when the
capture is staged as applied; and `HandOK`: the verdict in hand is one, it agrees with
what the handler has written, and its capture is still to do. Two pushes never both hold
a row for a capture, so the commit of one cannot repeat the effect of the other. For
`CrewHasDiary`, `Hung` says that a push sees a diary on every day it has counted a crew
for or is about to, and no commit takes a diary away.

That the first account of a day stands (`WorkDoneStands`) needs `Account`: a push that
holds a diary it has changed has the work done of the committed one in it, and no other
push holds that diary (the row lock, or the unique key of the first of the day). It is
where the code's rule that a diary entry has a nonblank `work_done` is used
(`SyncPushAssumption`). What was read before the lock may be old, but the column is
never blank once written, and what is not blank is not replaced. For
`ReadingsSurviveInTurn`, `Readable` says of the one push under way that the page in its
hand is the page it sees, and that every diary entry taken before or by it can be read
there. The hypothesis that pushes come in turn is part of the property (`InTurn`), as
overlapping ones do lose readings.

With phones and the network, `RetriesWriteOnce` carries the server's invariant through
`Spec`. `NeverWedged` is inductive with the types (`PhoneTypeOK`, in which a drain that
marks has a refusal in hand): every drain that ends takes `running` down, also the one
that came second to put it up, and `Kill` takes all of a phone's drains with it.

What the parties owe to each other is the rest of the invariant: an answer in the hands
of a drain names, for each capture, an outcome that is committed, or one that the push
which gave it is still to commit, or one that is in `broken` (`Trusted`, `Backing`); a push
that has answered holds the rows it told of, and a refusal is a refusal (`Telling`). Two
pushes never owe outcomes for one capture, as each holds the unique row. With it, what a phone has let go of is
decided, owed or broken (`NothingLost`), the same goes for what it shows as refused
(`RefusalIsTrue`), and `PhonesImplementLedger` maps each step to one of `CaptureLedger`
or a stutter. None of them assumes an order of commits and answers, or that commits
succeed: the module has the order of the code.

### Stock

`Inductive` says that an item is held by at most one request (`Mutex`), that what the
request has computed for it differs from the committed row exactly by the movements it
has written (`Fits`), and the same of the levels and lots, with the quantity on hand
excused once the item was overtaken. That the average of a cost and a price lies between
them, rounding included, are `AverageBounded` and `AverageBoundedBelow`, from lemmas on
`\div` and `%`. `Origins` is the second invariant, and what `CostIsAPrice` needs: the cost
of a committed row, of the row a request has in hand and of what a receipt read before it
had the lock lies between two unit costs of movements that are committed or the request's
own (a stale cost too is within those that have come in since). `Decided`
is the third: what a request read of an order or a stocktake when it began is
so until it commits, unless another had it in hand too (`HasOrder`, `HasTake`, `Apart`),
and of every item either the whole variance is still to post or all of it has been
(`Posting`).

### Ledger

For each request: on what it holds, its copy is the committed balance plus what it
moves; elsewhere it moves nothing; who holds a pocket holds the payable account; the
accounts it moves are active; what it pays fits into the order. Between two requests
(`Apart`): no account or pocket is held by both, no two pay. So a pocket needs no lock
because a line that carries one always moves its control account, which is locked; the
assumption that makes this true is stated in `LedgerAssumption` and is how
`subsidiary.py` attaches pockets. The reversal keeps it as its lines carry no pocket.
`Filed` is the second invariant: a request writes journals of its own subjects only and
one of each (`Drafted`), what it read of them is so until it commits (`InHand`), no two
have a subject in hand unless it was crossed (`Alone`), and every journal on file is of
a cost that was recorded or mirrors a journal that exists (`OnFile`).

That an account that is not active stands still is only proved: no run has room for it.

`BookIsTheJournals` is a sum over all journals ever posted. `Summed` says that the book
is the sum of the lines of the posted and the reversed journals (`Rows`), and that each
request moves what the journals it is about to commit say (`Tallied`), so that a commit
adds the same to both sides. Debits and credits agree because each journal's do
(`Even`): the assumption that `Moved`, `Pay` and `Manual` balance is
`_validate_balanced()`, and a mirror image balances because what it mirrors does.

The facts about sums that this needs (the sum over a set and one more, of two functions,
of a part that changes, of nothing) are in `FiniteData`. The library's induction theorems are
out of reach of the provers (they take an operator), so each is proved from a least
counterexample (`LeastSubset`): a finite set on which the fact fails has a least subset
on which it does, and the fact holds of that one less an element.

### Session

A quiet sign-in is one that is not crossed. `IInv` adds to `OneSession`: rows name
sign-ins and rows that exist (`Known`) and a rotated row is replaced by one of its own
sign-in (`Kept`); the refresh on its way for a tab is the one the tab has in hand
(`InHand`), so a quiet sign-in has one call at a time (`Alone`); what a call asks with
is still good when the server gets to it (`Usable`) and what it brings back is of the
same sign-in (`Brings`); the cookie is not spent, or the answer to what spent it is on its
way (`CookieOK`). The rest is about the commits behind the answers: a row is open exactly
as long as a write is to put it in, lost only with a failed commit, and revoked only
once it is in (`Rows`, `Pairs`); a quiet sign-in has one write at a time (`Sole`), which
revokes its only usable row (`Only`); the new row of that write is what the call brings,
or what the next one asks with (`Theirs`), and is in the cookie or on its way to it
(`CookieNew`). `Backed` follows: the cookie can be used, or its row or the next is on its
way, unless its sign-in ended, is `crossed`, or had a commit that failed (`broken`).

### Photos

A photo the server answered for is filed, inserted or broken (`Answers`), and a drain
that is about to remove a photo holds such an answer (`Removes`); rows are never taken
back. A photo is inserted by one transaction at a time and is not filed yet, so a commit
files it once.

### Subcontracts

A request about a stage nobody else decided on finds it uncertified still (`Fresh`). The
journals' number lets only one certification be past `Number` at a time (`OneNumber`),
so what it counts is still so when it commits (`Counts`), and the last stage closes the
package (`Open`): the number, not a lock, is what makes two last certifications see each
other.

`Books` is the invariant of the money, with `IInv` beneath it. The retention account is
what the certified stages held back less what was given back (`Kept`), and what a
request is about to give back is what is there (`Covered`), unless the retention was
`crossed`; a variation that is decided on was undecided (`Undecided`), the new value a
request has in hand is the value and the change of its variation (`UpToDate`), and the
value is the price and all approved changes (`Explained`). The sums are over arbitrary
finite sets of stages and variations; `SubcontractAssumption` says that they are finite.

### Documents read by a model, expense claims

For what is posted and paid, the same argument twice: whoever has read a document or a
claim that is not crossed has read what it still is (`Fresh`; `Due` and `New`), so the
one that writes decides from the truth. The page of the claims has an invariant of its
own, `Screen`: at rest the list it shows, or the answer on its way to replace it, holds
no guess, and is what the server has, unless something was committed or a fetch failed
since (`missed`); and
while one request is on its way no fetch is, and the claim it is about shows as decided.

### Dependencies, the critical path, document numbers

`Sound`: as long as no addition was overtaken there is no cycle, and no dependency in
hand would close one, since links that were added after the look mark it overtaken and
links that were removed make fewer ways. That adding a pair which closes no way back
leaves the graph without a cycle is `OneMoreLink`. It needs no paths and no induction on
their length: `Acyclic` says that every set of tasks has one no link from the set leads
to, and where the new link is in such a set, what can be reached from its end is taken
out.

`ChartIsRight` is about what is computed, not about steps: `AnalysisIsRight` holds of
every state in which the variables have their types (`ChartOfAnyState`), with any finite
set of tasks, planned dates, types of dependency and lags of either sign. It is proved
in four parts.

- *Loops.* The library's induction takes an operator, so `EveryTurn` says it with a set:
  if 0 is among the turns after which something holds, and each turn follows the one
  before, all are (from a least counterexample). `LoopIs` gives from the same that the
  function of turns a definition speaks of exists, as a recursive function is only a
  `CHOOSE` until it is shown to satisfy its equation.
- *The search.* `SearchOK`: the start is visited or on the stack, what is on either can
  be reached, the successors of what is visited are visited or on the stack, and the
  stack is no longer than the turns that are left allow, since a task puts each of its
  dependencies on it once. So the search ends, with its target on top or with all that
  can be reached visited (`SearchFinds`).
- *The order.* `KahnOK`: nothing stands twice in order and queue, who is queued waits for
  nobody outside the order, who is free is queued, and each comes after all it depends
  on. When the queue runs empty, the tasks left over each wait for one of themselves,
  which is a cycle; without a cycle nobody is left over (`KahnEnds`, `OrderedIfAcyclic`).
- *The dates.* A pass in such an order gives every task the dates its rule makes of the
  *final* dates of the others (`PassIs`, for both directions at once): what a task needs
  has been dated before it and is not touched again. So the early dates are the least of
  all dates that keep durations, dependencies and planned starts (`ForwardIs`), the late
  ones the greatest that keep them and the end of the project (`BackwardIs`), each by
  following the order. Moving a task by its float keeps an end that the late dates
  allow, as the early dates of the moved project lie below them; one day more takes the
  end past it, as dates with that start and the old end would have to lie below the late
  ones (`FloatIs`). The task that ends last has no float, so some task is critical.

`ChartIsDrawn` puts the two together: where no two additions overlapped there is no
cycle, hence an order, and `compute()` does not return its empty answer, as its comment
expects ("cycles are already rejected when dependencies are created").

`Numbered`: all numbers that exist or are about to are reached without a gap from 1
(`Reached`), those a request sees or has in hand among them. What makes the code's
arithmetic right is `TextsInOrder`: the padded texts of two numbers sort as the numbers
do, by the first digit in which they differ. The hypothesis `Padded` is what the code
takes for granted: no rows of several lots, and numbers that fit their padding (999).
Both are needed: with `Lots` 2, or past the padding, `NextIsFree` is false (below).

### Only model-checked

- Everything under fairness: `EveryCaptureSettles`, `EveryoneIsServed`,
  `RequestsSettle`, `PhotosLeave`, `RefusedLeftAlone`, `EveryCardSettles`. Liveness is out of
  the prover's reach. Every other property of a passing run is stated by a theorem.

## Divergences noticed and not kept as runs

Checked with the models, by a property or an excuse taken away:

- `sync/service.py:14`, "so both readings of the day survive": of two pushes that merge
  into one diary at a time the second overwrites what the first put in a column
  (`ReadingsSurviveInTurn` is about pushes in turn for it).
- `optimistic.ts:8`, "so the server's truth replaces the guess": the list is fetched anew
  when the answer comes, which may be before the commit; the page then rests on the
  claim as it was, buttons and all, until something else makes it fetch (`ScreenIsTruth`
  without the case `missed = "change"`). In the same way a photo is removed from the
  phone (`sync.ts:128`) and a cookie set (`auth/router.py:91`) for rows that a failed
  commit takes away (`broken` in `Photos` and `Session`).
- `sync/service.py:10`, "and the person is told": a refusal whose answer is lost comes
  back as "duplicate" on the retry, and `drain()` removes the capture.
- `doc_numbers.py:8`, "Sequential per-prefix, per-year document numbers": an issue from
  two lots leaves ISS-YYYY-003-2, the last number in string order, which reads back as 2;
  every later issue of the year is given 003 (with `Lots = 2`, `NextIsFree` is violated).
- `inventory/models.py:87`, quantity on hand "stays in step with the sum of this item's
  StockLevel rows": a receipt into the store that waited for another movement writes
  the quantity from before the wait (`overtaken` items).
- `inventory/service.py:788`, "it is the book being brought to what is actually on the
  shelf": a movement between the opening of a stocktake and the count is in the count and
  in the book, and is adjusted once more.
- `accounting/service.py:616`, "this is the control that makes it visible": a cost dated
  in a closed month leaves a draft, which hides it from the list of what is not posted.
- `subcontracts/service.py`, release_retention: "releasing it twice is refused rather
  than quietly doubling", but two releases at a time both read the amount held.
- `commercial.py`, payment_certificate: value and variations "have to agree by
  construction", but two approvals at a time write the value from one reading.
- `cpm.py:48`, "Cycles are already rejected when dependencies are created", and
  `TaskFormDialog.tsx:273`, "The schedule rejects dependencies that would create a
  cycle": two additions at a time close one, and the chart loses its critical path.

Read in the code while modelling:

- The answer to a refused refresh does not clear the cookie: the exception's response
  loses the header. A logout that fails leaves the page signed out and the cookie good.
- `_app.tsx:18`, "Loads the permissions this session actually has, once": caches and
  permissions survive a logout and the next person's sign-in in the same tab.
- `optimistic.ts:117`, "any detail cache with matching id": the key of a single claim does
  not start with the prefix of the list, and is never patched.
- `subcontracts/commercial.py`, apply_withholding, withholds again on the whole
  cumulative amount each time it is applied; the screen offers Instruct on a draft.
- After a reload, documents that failed or were only received cannot be read again from
  any screen. After a lost answer a retry is refused with 409, and the document is
  hidden from History for as long as its card is there.
- In the task dialog the task is created before its dependency; when that is refused the
  dialog stays in the mode that creates, and a second press makes a second task.
- `models.py` says of pockets that "the sum of every pocket under a control equals
  that control's balance": deliveries and reversals post payable lines that carry
  none.
- `accounting/service.py:662` calls the catch-up "Idempotent by construction": two that
  overlap post a cost twice (`CostsPostedOnce` excuses `crossed` entries for it).
- `post_cost_entry` "Never raises into the caller": an error of the database ends the
  caller's transaction all the same.
- Two phones that each write the first diary of a day at a time: one is refused
  (`sync/service.py:368`) and not merged.
- The last number is found by comparing strings (`doc_numbers.py:19`), so 1000 sorts
  before 999 and is given again; a waiter at the FOR UPDATE gets the number that was
  used and fails; a restored draft fails when its number was reused.
- `receive_po`, "One-shot full receipt", can run twice at a time
  (`OrdersLandOnce` excuses `crossed` orders).
- Editing or deleting a cost leaves its posted journal alone; adjustments of stock are
  never posted to the inventory account.

## Not modelled, and why

- **Valuations, requisitions, payroll, supplier invoices, requests for quotation,
  invitations, fleet assignments**: each is a status or the absence of a row, read,
  checked and written later in the same transaction without a lock. `Claims` and
  `Subcontracts` model that shape in full, with side effects and the collisions of
  journal numbers that narrow it; the same module under other names would say nothing
  new. That two assignments of a machine can both stay open is listed as a hazard.
- **Back-charges and withholding of subcontracts, banking, certificates and receipts
  from clients**: sums over rows, marks and postings behind the same unlocked checks;
  the postings themselves are `Ledger`'s.
- **The rest of the screens**: forms and rendering. Those with an order of their own to
  get wrong (the field page, photos, sign-in, ingestion, expenses, the package of a
  subcontract) are modelled with their servers.
- **Meter readings, fuel and site issues** are rows that `SyncPush` adds abstractly.
- **Master data, reads, the AI assistant, migrations, seeds, packaging, generated code**:
  nothing depends on the order of requests, or no behaviour of their own. The generated
  API client and route tree are half of the client's lines.

What would come next: a model of fleet (assignments, meters that do not run back) over
the rows the sync server adds.
