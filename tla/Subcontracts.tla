----------------------------- MODULE Subcontracts -----------------------------
(***************************************************************************)
(* A subcontract package: subcontracts/service.py, its variations in       *)
(* commercial.py and the buttons of its screen.                            *)
(*                                                                         *)
(* A request reads what it decides on without a lock and writes later; the *)
(* row it changes makes it wait for another that has changed it, and then  *)
(* it writes all the same.  Only the number of the journal keeps requests  *)
(* apart: of two that number one at the same time the second fails.        *)
(***************************************************************************)
EXTENDS Integers, FiniteSets, Functions

CONSTANTS
  Stages,        \* the milestones of the package
  Retained,      \* what is held back of each when it is certified
  Variations,
  Change,        \* what each variation adds to the value, or takes from it
  Price,         \* the value the package was agreed at
  Requests,      \* requests under way at a time
  MaxRequests,
  Package, Retention, Value, None

VARIABLES
  contract,   \* the status of the package
  value,      \* and what it is worth
  stage,
  variation,
  costs,      \* the cost entries of each stage, each with its journal
  retention,  \* Retention Payable
  released,   \* the sum of the retention releases
  req,
  asked,
  crossed     \* ghost: what two requests decided on at the same time

vars == <<contract, value, stage, variation, costs, retention, released, req, asked, crossed>>

Ops == {"award", "submit", "certify", "reject", "release", "agree", "decline"}
Things == Stages \cup Variations \cup {Package, Retention, Value}

ASSUME SubcontractAssumption ==
  /\ IsFiniteSet(Stages) /\ Stages # {}
  /\ Retained \in [Stages -> Nat] /\ Change \in [Variations -> Int] /\ Price \in Nat
  /\ MaxRequests \in Nat
  /\ Stages \cap Variations = {}
  /\ {Package, Retention, Value, None} \cap (Stages \cup Variations) = {}
  /\ Package # Retention /\ Package # Value /\ Retention # Value
  /\ None \notin {Package, Retention, Value} \cup Ops

Request == [pc : {"idle", "read", "written", "numbered", "counted"}, op : Ops \cup {None},
            on : Things \cup {None}, sum : Int]
Idle == [pc |-> "idle", op |-> None, on |-> None, sum |-> 0]

TypeOK ==
  /\ contract \in {"draft", "awarded", "completed"}
  /\ value \in Int
  /\ stage \in [Stages -> {"pending", "submitted", "certified", "rejected"}]
  /\ variation \in [Variations -> {"none", "pending", "approved", "rejected"}]
  /\ costs \in [Stages -> Nat]
  /\ retention \in Int /\ released \in Int
  /\ req \in [Requests -> Request]
  /\ asked \in Nat
  /\ crossed \subseteq Things

Init ==
  /\ contract = "draft" /\ value = Price
  /\ stage = [s \in Stages |-> "pending"]
  /\ variation = [v \in Variations |-> "none"]
  /\ costs = [s \in Stages |-> 0]
  /\ retention = 0 /\ released = 0
  /\ req = [r \in Requests |-> Idle]
  /\ asked = 0
  /\ crossed = {}

-----------------------------------------------------------------------------
(* What a request reads *)

Certified == {s \in Stages : stage[s] = "certified"}
Held == SumFunctionOnSet(Retained, Certified)

\* subcontract_summary(): held on the certified stages and not given back yet.
Outstanding == Held - released

\* Mutant: whatever was certified may be certified again.
Anyhow(op, x) == contract = "awarded"

\* submit_milestone() and certify_milestone() want a live package, and
\* reject_milestone() takes any stage that is not certified.
StageMay(op, x) == stage[x] # "certified" /\ (op = "reject" \/ contract = "awarded")

\* A request that finds the status it would write does not write it.
StageTo(op) == CASE op = "submit" -> "submitted" [] op = "reject" -> "rejected" [] OTHER -> "certified"

\* Mutant: an approved variation may be rejected.
Undone(op, v) == variation[v] # "none" /\ (op = "agree" => variation[v] # "approved")

\* approve_variation() and reject_variation() refuse what was approved.
VariationMay(op, v) == variation[v] \in {"pending", "rejected"}

Begin(r, op, x, sum) ==
  /\ req[r].pc = "idle" /\ asked < MaxRequests
  /\ asked' = asked + 1
  /\ req' = [req EXCEPT ![r] = [pc |-> "read", op |-> op, on |-> x, sum |-> sum]]
  /\ UNCHANGED <<contract, value, stage, variation, costs, retention, released, crossed>>

ReadPackage(r) == contract = "draft" /\ Begin(r, "award", Package, 0)

ReadStage(r, op, s) == StageMay(op, s) /\ stage[s] # StageTo(op) /\ Begin(r, op, s, 0)

\* The new value is worked out from the value read.
ReadVariation(r, op, v) ==
  /\ VariationMay(op, v)
  /\ op = "agree" => value + Change[v] >= 0
  /\ op = "decline" => variation[v] # "rejected"
  /\ Begin(r, op, v, value + Change[v])

\* release_retention(): all of what is still held, or part of it.
ReadRetention(r, amount) ==
  /\ contract # "draft"
  /\ amount \in 1 .. Outstanding
  /\ Begin(r, "release", Retention, amount)

-----------------------------------------------------------------------------
(* What it writes *)

\* What a request decides on: the approval of a variation, also on the value.
About(r) == {req[r].on} \cup IF req[r].op = "agree" THEN {Value} ELSE {}

\* Another request has read it too and is still to write.
Overtaken(r) == {x \in About(r) : \E q \in Requests \ {r} : req[q].pc # "idle" /\ x \in About(q)}

Done(r) ==
  /\ req' = [req EXCEPT ![r] = Idle]
  /\ crossed' = crossed \cup Overtaken(r)

\* A certification that has written its stage keeps others from writing it.
Free(s) == \A q \in Requests : req[q].pc \in {"written", "numbered", "counted"} => req[q].on # s

Award(r) ==
  /\ req[r].pc = "read" /\ req[r].op = "award"
  /\ contract' = "awarded"
  /\ Done(r)
  /\ UNCHANGED <<value, stage, variation, costs, retention, released, asked>>

SubmitOrReject(r) ==
  /\ req[r].pc = "read" /\ req[r].op \in {"submit", "reject"} /\ Free(req[r].on)
  /\ stage' = [stage EXCEPT ![req[r].on] = StageTo(req[r].op)]
  /\ Done(r)
  /\ UNCHANGED <<contract, value, variation, costs, retention, released, asked>>

\* create_variation().
Instruct(v) ==
  /\ contract # "draft" /\ variation[v] = "none"
  /\ variation' = [variation EXCEPT ![v] = "pending"]
  /\ UNCHANGED <<contract, value, stage, costs, retention, released, req, asked, crossed>>

Agree(r) ==
  /\ req[r].pc = "read" /\ req[r].op = "agree"
  /\ variation' = [variation EXCEPT ![req[r].on] = "approved"]
  /\ value' = req[r].sum
  /\ Done(r)
  /\ UNCHANGED <<contract, stage, costs, retention, released, asked>>

Decline(r) ==
  /\ req[r].pc = "read" /\ req[r].op = "decline"
  /\ variation' = [variation EXCEPT ![req[r].on] = "rejected"]
  /\ Done(r)
  /\ UNCHANGED <<contract, value, stage, costs, retention, released, asked>>

At(r, pc) ==
  /\ req' = [req EXCEPT ![r] = [pc |-> pc, op |-> req[r].op, on |-> req[r].on, sum |-> req[r].sum]]
  /\ UNCHANGED <<contract, value, stage, variation, costs, retention, released, asked, crossed>>

\* certify_milestone() writes the stage and its cost entry, not yet committed.
WriteStage(r) ==
  /\ req[r].pc = "read" /\ req[r].op = "certify" /\ Free(req[r].on)
  /\ At(r, "written")

\* Mutant: numbers are given out one by one.
Unnumbered(r) == TRUE

\* create_journal(): the number another request has taken and not committed is
\* waited for, and is taken then.
NumberFree(r) == \A q \in Requests : req[q].pc \notin {"numbered", "counted"}

Number(r) ==
  /\ \/ req[r].pc = "written"
     \/ req[r].pc = "read" /\ req[r].op = "release"
  /\ NumberFree(r)
  /\ At(r, "numbered")

\* _close_if_complete() counts the stages that are not certified: those of
\* others as they are committed, and its own.
Count(r) ==
  /\ req[r].pc = "numbered" /\ req[r].op = "certify"
  /\ req' = [req EXCEPT ![r] = [pc |-> "counted", op |-> "certify", on |-> req[r].on,
                                sum |-> Cardinality(Stages \ (Certified \cup {req[r].on}))]]
  /\ UNCHANGED <<contract, value, stage, variation, costs, retention, released, asked, crossed>>

\* Mutant: all of the certificate is owed at once.
NothingHeld(s) == retention' = retention

HoldRetention(s) == retention' = retention + Retained[s]

\* The request commits.
Certify(r) ==
  LET s == req[r].on IN
  /\ req[r].pc = "counted"
  /\ stage' = [stage EXCEPT ![s] = "certified"]
  /\ costs' = [costs EXCEPT ![s] = @ + 1]
  /\ HoldRetention(s)
  /\ contract' = IF req[r].sum = 0 THEN "completed" ELSE contract
  /\ Done(r)
  /\ UNCHANGED <<value, variation, released, asked>>

Release(r) ==
  /\ req[r].pc = "numbered" /\ req[r].op = "release"
  /\ retention' = retention - req[r].sum
  /\ released' = released + req[r].sum
  /\ Done(r)
  /\ UNCHANGED <<contract, value, stage, variation, costs, asked>>

\* A request fails, of a number that is taken or of anything else, and what it
\* wrote is rolled back.
Fail(r) ==
  /\ req[r].pc # "idle"
  /\ req' = [req EXCEPT ![r] = Idle]
  /\ UNCHANGED <<contract, value, stage, variation, costs, retention, released, asked, crossed>>

-----------------------------------------------------------------------------
Decide(r) ==
  \/ ReadPackage(r)
  \/ \E s \in Stages, op \in {"submit", "certify", "reject"} : ReadStage(r, op, s)
  \/ \E v \in Variations, op \in {"agree", "decline"} : ReadVariation(r, op, v)
  \/ \E amount \in 1 .. Outstanding : ReadRetention(r, amount)

Finish(r) ==
  \/ Award(r) \/ SubmitOrReject(r) \/ Agree(r) \/ Decline(r)
  \/ WriteStage(r) \/ Number(r) \/ Count(r) \/ Certify(r) \/ Release(r)

Next ==
  \/ \E v \in Variations : Instruct(v)
  \/ \E r \in Requests : Decide(r) \/ Finish(r) \/ Fail(r)

Spec == Init /\ [][Next]_vars

-----------------------------------------------------------------------------
(* The screen *)

\* The buttons on the row of a stage.
Buttons(s) ==
  IF contract # "awarded" \/ stage[s] = "certified" THEN {}
  ELSE IF stage[s] = "submitted" THEN {"reject", "certify"} ELSE {"submit"}

-----------------------------------------------------------------------------
(* What must hold *)

\* A package is never left open with nothing more to certify, although two
\* certifications of its last stages do not see each other (_close_if_complete):
\* while it is awarded its screen has a stage with a button.
StagesMoveOn ==
  Package \notin crossed /\ contract = "awarded" => \E s \in Stages : Buttons(s) # {}

\* A stage has cost the project once when it is certified and not before,
\* unless two requests decided on it at the same time (certify_milestone).
CostOnce ==
  \A s \in Stages \ crossed : costs[s] = IF stage[s] = "certified" THEN 1 ELSE 0

\* What is held back in the books is what the certificates held and nobody
\* gave back, and no more is given back than was held (release_retention).
RetentionStands ==
  crossed \cap (Stages \cup {Retention}) = {} => retention = Outstanding /\ retention >= 0

\* "The contract value moves as variations are approved, and the two have to
\* agree by construction" (payment_certificate), unless two approvals cross.
ValueExplained ==
  crossed \cap (Variations \cup {Value}) = {} =>
    value = Price + SumFunctionOnSet(Change, {v \in Variations : variation[v] = "approved"})

===============================================================================
