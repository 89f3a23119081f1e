-------------------------- MODULE SubcontractsProofs --------------------------
(***************************************************************************)
(* Proofs about Subcontracts, for every package and any number of requests *)
(* at a time: the types, that a certified stage has cost the project once, *)
(* and that an awarded package has a stage left to certify.                *)
(***************************************************************************)
EXTENDS Subcontracts, FiniteData, FiniteSetTheorems, TLAPS

StageOps == {"submit", "certify", "reject"}

\* What each kind of request is about.
Sorted ==
  \A r \in Requests :
    /\ req[r].pc # "idle" => req[r].op \in Ops
    /\ req[r].op \in StageOps => req[r].on \in Stages
    /\ req[r].op \in {"agree", "decline"} => req[r].on \in Variations
    /\ req[r].op = "award" => req[r].on = Package
    /\ req[r].op = "release" => req[r].on = Retention
    /\ req[r].pc \in {"written", "counted"} => req[r].op = "certify"

Resting == \A r \in Requests : req[r].pc = "idle" => req[r].op = None

\* A request about a stage that nobody else has decided on finds it uncertified.
Fresh ==
  \A r \in Requests : req[r].op \in StageOps /\ req[r].on \notin crossed => stage[req[r].on] # "certified"

\* Nothing is certified before the package is awarded.
Before ==
  contract = "draft" =>
    /\ \A s \in Stages : stage[s] # "certified"
    /\ \A r \in Requests : req[r].op # "certify"

\* A package is awarded from its draft.
FromDraft ==
  Package \notin crossed => \A r \in Requests : req[r].op = "award" => contract = "draft"

\* The number of the journal keeps certifications apart.
OneNumber ==
  \A r, q \in Requests :
    req[r].pc \in {"numbered", "counted"} /\ req[q].pc \in {"numbered", "counted"} => r = q

\* What a certification has counted is still so.
Counts ==
  \A r \in Requests :
    req[r].pc = "counted" /\ req[r].sum # 0 => \E s \in Stages \ {req[r].on} : stage[s] # "certified"

Open == Package \notin crossed /\ contract = "awarded" => \E s \in Stages : stage[s] # "certified"

IInv == TypeOK /\ Sorted /\ Resting /\ Fresh /\ Before /\ FromDraft /\ OneNumber /\ Counts /\ Open /\ CostOnce

-----------------------------------------------------------------------------

LEMMA Begins ==
  ASSUME IInv, NEW r \in Requests, NEW op \in Ops, NEW x \in Things, NEW sum \in Int,
         Begin(r, op, x, sum),
         op \in StageOps => x \in Stages /\ stage[x] # "certified",
         op = "certify" => contract = "awarded",
         op \in {"agree", "decline"} => x \in Variations,
         op = "award" => x = Package /\ contract = "draft",
         op = "release" => x = Retention
  PROVE  IInv'
<1> DEFINE new == [pc |-> "read", op |-> op, on |-> x, sum |-> sum]
<1>1. /\ req' = [req EXCEPT ![r] = new] /\ asked' = asked + 1
      /\ UNCHANGED <<contract, value, stage, variation, costs, retention, released, crossed>>
  BY DEF Begin
<1>2. req' \in [Requests -> Request] /\ new \in Request
  BY <1>1 DEF IInv, TypeOK, Request
<1>3. \A q \in Requests : q # r => req'[q] = req[q]
  BY <1>1 DEF IInv, TypeOK
<1>4. req'[r] = new
  BY <1>1 DEF IInv, TypeOK
<1>5. TypeOK'
  BY <1>1, <1>2 DEF IInv, TypeOK
<1>6. Sorted' /\ Resting'
  BY <1>1, <1>3, <1>4 DEF IInv, Resting, Sorted
<1>7. Fresh'
  BY <1>1, <1>3, <1>4 DEF IInv, Fresh
<1>8. Before'
  BY <1>1, <1>3, <1>4 DEF IInv, Before
<1>9. FromDraft'
  BY <1>1, <1>3, <1>4 DEF IInv, FromDraft
<1>10. OneNumber'
  BY <1>1, <1>3, <1>4 DEF IInv, OneNumber
<1>11. Counts'
  BY <1>1, <1>3, <1>4 DEF IInv, Counts
<1>12. Open' /\ CostOnce'
  BY <1>1 DEF IInv, Open, CostOnce
<1> QED BY <1>5, <1>6, <1>7, <1>8, <1>9, <1>10, <1>11, <1>12 DEF IInv

\* A step within a request keeps what the request is about.
LEMMA GoesOn ==
  ASSUME IInv, NEW r \in Requests, req[r].pc # "idle", NEW new \in Request, new.pc # "idle",
         req' = [req EXCEPT ![r] = new],
         new.op = req[r].op, new.on = req[r].on,
         UNCHANGED <<contract, value, stage, variation, costs, retention, released, asked, crossed>>,
         new.pc \in {"written", "counted"} => new.op = "certify",
         new.pc \in {"numbered", "counted"} =>
           (\A q \in Requests : req[q].pc \in {"numbered", "counted"} => q = r),
         new.pc = "counted" /\ new.sum # 0 => (\E s \in Stages \ {new.on} : stage[s] # "certified")
  PROVE  IInv'
<1>1. \A q \in Requests : /\ req'[q].op = req[q].op
                          /\ req'[q].on = req[q].on
                          /\ q # r => req'[q] = req[q]
  BY DEF IInv, TypeOK
<1>2. req'[r] = new
  BY DEF IInv, TypeOK
<1>3. TypeOK'
  BY DEF IInv, TypeOK
<1>4. Sorted' /\ Resting'
  BY <1>1, <1>2 DEF IInv, Resting, Sorted
<1>5. Fresh' /\ Before' /\ FromDraft'
  BY <1>1 DEF IInv, Fresh, Before, FromDraft
<1>6. OneNumber'
  BY <1>1, <1>2 DEF IInv, OneNumber
<1>7. Counts'
  BY <1>1, <1>2 DEF IInv, Counts
<1>8. Open' /\ CostOnce'
  BY DEF IInv, Open, CostOnce
<1> QED BY <1>3, <1>4, <1>5, <1>6, <1>7, <1>8 DEF IInv

\* A request that ends leaves what it decided on to nobody who has read it too.
LEMMA Ends ==
  ASSUME IInv, NEW r \in Requests, req[r].pc # "idle", Done(r)
  PROVE  /\ req' \in [Requests -> Request] /\ crossed' \subseteq Things
         /\ \A q \in Requests : q # r => req'[q] = req[q]
         /\ req'[r] = Idle
         /\ crossed \subseteq crossed'
         /\ \A q \in Requests : req'[q].pc # "idle" /\ req'[q].on = req[r].on => req[r].on \in crossed'
<1>1. req' = [req EXCEPT ![r] = Idle] /\ crossed' = crossed \cup Overtaken(r)
  BY DEF Done
<1>2. Idle \in Request
  BY DEF Idle, Request
<1>3. req[r].on \in Things
  BY DEF IInv, Sorted, Ops, StageOps, Things
<1>4. About(r) \subseteq Things
  BY <1>3 DEF About, Things
<1>5. crossed' \subseteq Things
  BY <1>1, <1>4 DEF IInv, TypeOK, Overtaken
<1>6. req' \in [Requests -> Request] /\ req'[r] = Idle /\ \A q \in Requests : q # r => req'[q] = req[q]
  BY <1>1, <1>2 DEF IInv, TypeOK
<1>7. ASSUME NEW q \in Requests, req'[q].pc # "idle", req'[q].on = req[r].on
      PROVE  req[r].on \in crossed'
  <2>1. q # r
    BY <1>6, <1>7 DEF Idle
  <2>2. req[q].pc # "idle" /\ req[r].on \in About(q) /\ req[r].on \in About(r)
    BY <1>6, <1>7, <2>1 DEF About
  <2> QED BY <1>1, <2>1, <2>2 DEF Overtaken
<1> QED BY <1>1, <1>5, <1>6, <1>7

\* Requests that end without touching the stages or the status of the package.
LEMMA EndsApart ==
  ASSUME IInv, NEW r \in Requests, req[r].pc # "idle", Done(r),
         UNCHANGED <<contract, stage, costs, asked>>,
         value' \in Int, retention' \in Int, released' \in Int,
         variation' \in [Variations -> {"none", "pending", "approved", "rejected"}]
  PROVE  IInv'
<1> USE SubcontractAssumption
<1>1. /\ req' \in [Requests -> Request] /\ crossed' \subseteq Things
      /\ \A q \in Requests : q # r => req'[q] = req[q]
      /\ req'[r] = Idle
      /\ crossed \subseteq crossed'
  BY Ends
<1>2. TypeOK'
  BY <1>1 DEF IInv, TypeOK
<1>3. Sorted' /\ Resting'
  BY <1>1 DEF IInv, Resting, Sorted, Idle, Ops, StageOps
<1>4. Fresh'
  BY <1>1 DEF IInv, Fresh, Idle, Ops, StageOps
<1>5. Before' /\ FromDraft'
  BY <1>1 DEF IInv, Before, FromDraft, Idle, Ops
<1>6. OneNumber' /\ Counts'
  BY <1>1 DEF IInv, OneNumber, Counts, Idle
<1>7. Open' /\ CostOnce'
  BY <1>1 DEF IInv, Open, CostOnce
<1> QED BY <1>2, <1>3, <1>4, <1>5, <1>6, <1>7 DEF IInv

-----------------------------------------------------------------------------

LEMMA DecideKeeps ==
  ASSUME IInv, NEW r \in Requests, Decide(r)
  PROVE  IInv'
<1> USE SubcontractAssumption
<1>1. CASE ReadPackage(r)
  BY <1>1, Begins DEF ReadPackage, Ops, Things, StageOps
<1>2. ASSUME NEW s \in Stages, NEW op \in {"submit", "certify", "reject"}, ReadStage(r, op, s)
      PROVE  IInv'
  BY <1>2, Begins DEF ReadStage, StageMay, Ops, Things, StageOps
<1>3. ASSUME NEW v \in Variations, NEW op \in {"agree", "decline"}, ReadVariation(r, op, v)
      PROVE  IInv'
  <2>1. value + Change[v] \in Int
    BY DEF IInv, TypeOK
  <2> QED BY <1>3, <2>1, Begins DEF ReadVariation, Ops, Things, StageOps
<1>4. ASSUME NEW amount \in 1 .. Outstanding, ReadRetention(r, amount)
      PROVE  IInv'
  <2>1. amount \in Int
    OBVIOUS
  <2> QED BY <1>4, <2>1, Begins DEF ReadRetention, Ops, Things, StageOps
<1> QED BY <1>1, <1>2, <1>3, <1>4 DEF Decide

LEMMA AwardKeeps ==
  ASSUME IInv, NEW r \in Requests, Award(r)
  PROVE  IInv'
<1> USE SubcontractAssumption
<1>1. /\ req[r].pc = "read" /\ req[r].op = "award" /\ contract' = "awarded" /\ Done(r)
      /\ UNCHANGED <<value, stage, variation, costs, retention, released, asked>>
  BY DEF Award
<1>2. /\ req' \in [Requests -> Request] /\ crossed' \subseteq Things
      /\ \A q \in Requests : q # r => req'[q] = req[q]
      /\ req'[r] = Idle
      /\ crossed \subseteq crossed'
      /\ \A q \in Requests : req'[q].pc # "idle" /\ req'[q].on = req[r].on => req[r].on \in crossed'
  BY <1>1, Ends
<1>3. TypeOK'
  BY <1>1, <1>2 DEF IInv, TypeOK
<1>4. Sorted' /\ Resting'
  BY <1>2 DEF IInv, Resting, Sorted, Idle, Ops, StageOps
<1>5. Fresh'
  BY <1>1, <1>2 DEF IInv, Fresh, Idle, Ops, StageOps
<1>6. Before'
  BY <1>1 DEF Before
<1>7. FromDraft'
  <2>1. ASSUME Package \notin crossed', NEW q \in Requests, req'[q].op = "award"
        PROVE  FALSE
    <3>1. q # r
      BY <1>2, <2>1 DEF Idle, Ops
    <3>2. req[q].op = "award" /\ req[q].on = Package /\ req[r].on = Package
      BY <1>1, <1>2, <2>1, <3>1 DEF IInv, Sorted
    <3>3. req'[q].pc = "idle" /\ req[q].pc = "idle"
      BY <1>2, <2>1, <3>1, <3>2
    <3> QED BY <3>2, <3>3 DEF IInv, Resting, Ops
  <2> QED BY <2>1 DEF FromDraft
<1>8. OneNumber' /\ Counts'
  BY <1>1, <1>2 DEF IInv, OneNumber, Counts, Idle
<1>9. Open'
  <2>1. ASSUME Package \notin crossed' PROVE \E s \in Stages : stage[s] # "certified"
    <3>1. contract = "draft"
      BY <1>1, <1>2, <2>1 DEF IInv, FromDraft
    <3> QED BY <3>1 DEF IInv, Before
  <2> QED BY <1>1, <2>1 DEF Open
<1>10. CostOnce'
  BY <1>1, <1>2 DEF IInv, CostOnce
<1> QED BY <1>3, <1>4, <1>5, <1>6, <1>7, <1>8, <1>9, <1>10 DEF IInv

LEMMA SubmitOrRejectKeeps ==
  ASSUME IInv, NEW r \in Requests, SubmitOrReject(r)
  PROVE  IInv'
<1> USE SubcontractAssumption
<1> DEFINE s == req[r].on
           to == StageTo(req[r].op)
<1>1. /\ req[r].pc = "read" /\ req[r].op \in {"submit", "reject"}
      /\ stage' = [stage EXCEPT ![s] = to] /\ Done(r)
      /\ UNCHANGED <<contract, value, variation, costs, retention, released, asked>>
  BY DEF SubmitOrReject
<1>2. /\ req' \in [Requests -> Request] /\ crossed' \subseteq Things
      /\ \A q \in Requests : q # r => req'[q] = req[q]
      /\ req'[r] = Idle
      /\ crossed \subseteq crossed'
  BY <1>1, Ends
<1>3. s \in Stages
  BY <1>1 DEF IInv, Sorted, StageOps
<1>4. /\ stage'[s] = to /\ to \in {"submitted", "rejected"}
      /\ \A z \in Stages : z # s => stage'[z] = stage[z]
      /\ stage' \in [Stages -> {"pending", "submitted", "certified", "rejected"}]
  BY <1>1, <1>3 DEF IInv, TypeOK, StageTo
<1> HIDE DEF s, to
<1>5. TypeOK'
  BY <1>1, <1>2, <1>4 DEF IInv, TypeOK
<1>6. Sorted' /\ Resting'
  BY <1>2 DEF IInv, Resting, Sorted, Idle, Ops, StageOps
<1>7. \A z \in Stages : stage[z] # "certified" => stage'[z] # "certified"
  BY <1>4
<1>8. Fresh'
  BY <1>2, <1>7 DEF IInv, Fresh, Sorted, Idle, Ops, StageOps
<1>9. Before' /\ FromDraft'
  BY <1>1, <1>2, <1>7 DEF IInv, Before, FromDraft, Idle, Ops
<1>10. OneNumber' /\ Counts'
  BY <1>2, <1>7 DEF IInv, OneNumber, Counts, Idle
<1>11. Open'
  BY <1>1, <1>2, <1>7 DEF IInv, Open
<1>12. CostOnce'
  <2>1. s \notin crossed => stage[s] # "certified"
    BY <1>1 DEF IInv, Fresh, StageOps, s
  <2> QED BY <1>1, <1>2, <1>4, <2>1 DEF IInv, CostOnce
<1> QED BY <1>5, <1>6, <1>8, <1>9, <1>10, <1>11, <1>12 DEF IInv

LEMMA CertifyKeeps ==
  ASSUME IInv, NEW r \in Requests, Certify(r)
  PROVE  IInv'
<1> USE SubcontractAssumption
<1> DEFINE s == req[r].on
<1>1. /\ req[r].pc = "counted"
      /\ stage' = [stage EXCEPT ![s] = "certified"]
      /\ costs' = [costs EXCEPT ![s] = @ + 1]
      /\ retention' = retention + Retained[s]
      /\ contract' = IF req[r].sum = 0 THEN "completed" ELSE contract
      /\ Done(r)
      /\ UNCHANGED <<value, variation, released, asked>>
  BY DEF Certify, HoldRetention
<1>2. /\ req' \in [Requests -> Request] /\ crossed' \subseteq Things
      /\ \A q \in Requests : q # r => req'[q] = req[q]
      /\ req'[r] = Idle
      /\ crossed \subseteq crossed'
      /\ \A q \in Requests : req'[q].pc # "idle" /\ req'[q].on = s => s \in crossed'
  BY <1>1, Ends
<1>3. s \in Stages /\ req[r].op = "certify"
  BY <1>1 DEF IInv, Sorted, StageOps
<1>4. /\ stage'[s] = "certified" /\ costs'[s] = costs[s] + 1
      /\ \A z \in Stages : z # s => stage'[z] = stage[z] /\ costs'[z] = costs[z]
      /\ stage' \in [Stages -> {"pending", "submitted", "certified", "rejected"}]
      /\ costs' \in [Stages -> Nat]
  BY <1>1, <1>3 DEF IInv, TypeOK
<1>5. contract # "draft" /\ contract' # "draft"
  BY <1>1, <1>3 DEF IInv, Before
<1>6. retention' \in Int
  BY <1>1, <1>3 DEF IInv, TypeOK
<1>7. s \notin crossed => stage[s] # "certified"
  BY <1>3 DEF IInv, Fresh, StageOps
<1>8. req[r].sum # 0 => \E z \in Stages : z # s /\ stage[z] # "certified"
  BY <1>1 DEF IInv, Counts
<1>9. contract' = "awarded" => contract = "awarded" /\ req[r].sum # 0
  BY <1>1
<1>10. contract' \in {"draft", "awarded", "completed"}
  BY <1>1 DEF IInv, TypeOK
<1> HIDE DEF s
<1>11. TypeOK'
  BY <1>1, <1>2, <1>4, <1>6, <1>10 DEF IInv, TypeOK
<1>12. Sorted' /\ Resting'
  BY <1>2 DEF IInv, Resting, Sorted, Idle, Ops, StageOps
<1>13. Fresh'
  <2>1. ASSUME NEW q \in Requests, req'[q].op \in StageOps, req'[q].on \notin crossed'
        PROVE  stage'[req'[q].on] # "certified"
    <3>1. q # r
      BY <1>2, <2>1 DEF Idle, Ops, StageOps
    <3>2. req[q].op \in StageOps /\ req[q].on \in Stages /\ req[q].on \notin crossed /\ req[q].pc # "idle"
      BY <1>2, <2>1, <3>1 DEF IInv, Sorted, Resting, StageOps, Ops
    <3>3. req[q].on # s
      BY <1>2, <2>1, <3>1, <3>2
    <3> QED BY <1>2, <1>4, <3>1, <3>2, <3>3 DEF IInv, Fresh
  <2> QED BY <2>1 DEF Fresh
<1>14. Before' /\ FromDraft'
  <2>1. Package \notin crossed => \A q \in Requests : req[q].op # "award"
    BY <1>5 DEF IInv, FromDraft
  <2> QED BY <1>2, <1>5, <2>1 DEF Before, FromDraft, Idle, Ops
<1>15. OneNumber' /\ Counts'
  <2>1. \A q \in Requests : q # r => req[q].pc # "counted"
    BY <1>1 DEF IInv, OneNumber
  <2> QED BY <1>2, <2>1 DEF IInv, OneNumber, Counts, Idle
<1>16. Open'
  BY <1>4, <1>8, <1>9 DEF Open
<1>17. CostOnce'
  BY <1>2, <1>3, <1>4, <1>7 DEF IInv, CostOnce, TypeOK
<1> QED BY <1>11, <1>12, <1>13, <1>14, <1>15, <1>16, <1>17 DEF IInv

-----------------------------------------------------------------------------

LEMMA FinishKeeps ==
  ASSUME IInv, NEW r \in Requests, Finish(r)
  PROVE  IInv'
<1> USE SubcontractAssumption
<1>1. CASE Award(r)
  BY <1>1, AwardKeeps
<1>2. CASE SubmitOrReject(r)
  BY <1>2, SubmitOrRejectKeeps
<1>3. CASE Agree(r)
  <2>1. req[r].sum \in Int /\ req[r].on \in Variations
    BY <1>3 DEF Agree, IInv, TypeOK, Request, Sorted
  <2> QED BY <1>3, <2>1, EndsApart DEF Agree, IInv, TypeOK
<1>4. CASE Decline(r)
  BY <1>4, EndsApart DEF Decline, IInv, TypeOK
<1>5. CASE WriteStage(r)
  <2> DEFINE new == [pc |-> "written", op |-> req[r].op, on |-> req[r].on, sum |-> req[r].sum]
  <2>1. new \in Request
    BY <1>5 DEF WriteStage, IInv, TypeOK, Request
  <2> QED BY <1>5, <2>1, GoesOn DEF WriteStage, At
<1>6. CASE Number(r)
  <2> DEFINE new == [pc |-> "numbered", op |-> req[r].op, on |-> req[r].on, sum |-> req[r].sum]
  <2>1. new \in Request
    BY <1>6 DEF Number, IInv, TypeOK, Request
  <2>2. \A q \in Requests : req[q].pc \notin {"numbered", "counted"}
    BY <1>6 DEF Number, NumberFree
  <2>3. req[r].pc # "idle" /\ req' = [req EXCEPT ![r] = new]
        /\ UNCHANGED <<contract, value, stage, variation, costs, retention, released, asked, crossed>>
    BY <1>6 DEF Number, At
  <2> QED BY <2>1, <2>2, <2>3, GoesOn
<1>7. CASE Count(r)
  <2> DEFINE left == Cardinality(Stages \ (Certified \cup {req[r].on}))
             new == [pc |-> "counted", op |-> "certify", on |-> req[r].on, sum |-> left]
  <2>1. IsFiniteSet(Stages \ (Certified \cup {req[r].on}))
    BY FS_Difference
  <2>2. left \in Nat
    BY <2>1, FS_CardinalityType
  <2>3. left # 0 => \E s \in Stages \ {req[r].on} : stage[s] # "certified"
    <3>1. left # 0 => Stages \ (Certified \cup {req[r].on}) # {}
      BY FS_EmptySet
    <3> QED BY <3>1 DEF Certified
  <2> HIDE DEF left
  <2>4. /\ req[r].pc = "numbered" /\ req[r].op = "certify" /\ req' = [req EXCEPT ![r] = new]
        /\ UNCHANGED <<contract, value, stage, variation, costs, retention, released, asked, crossed>>
    BY <1>7 DEF Count, left
  <2>5. new \in Request
    BY <2>2, <2>4 DEF IInv, TypeOK, Request, Ops
  <2>6. \A q \in Requests : req[q].pc \in {"numbered", "counted"} => q = r
    BY <2>4 DEF IInv, OneNumber
  <2> QED BY <2>3, <2>4, <2>5, <2>6, GoesOn
<1>8. CASE Certify(r)
  BY <1>8, CertifyKeeps
<1>9. CASE Release(r)
  <2>1. req[r].sum \in Int
    BY DEF IInv, TypeOK, Request
  <2> QED BY <1>9, <2>1, EndsApart DEF Release, IInv, TypeOK
<1> QED BY <1>1, <1>2, <1>3, <1>4, <1>5, <1>6, <1>7, <1>8, <1>9 DEF Finish

LEMMA FailKeeps ==
  ASSUME IInv, NEW r \in Requests, Fail(r)
  PROVE  IInv'
<1> USE SubcontractAssumption
<1>1. /\ req' = [req EXCEPT ![r] = Idle]
      /\ UNCHANGED <<contract, value, stage, variation, costs, retention, released, asked, crossed>>
  BY DEF Fail
<1>2. req' \in [Requests -> Request] /\ req'[r] = Idle /\ \A q \in Requests : q # r => req'[q] = req[q]
  BY <1>1 DEF IInv, TypeOK, Idle, Request
<1>3. TypeOK'
  BY <1>1, <1>2 DEF IInv, TypeOK
<1>4. Sorted' /\ Resting'
  BY <1>2 DEF IInv, Resting, Sorted, Idle, Ops, StageOps
<1>5. Fresh' /\ Before' /\ FromDraft'
  BY <1>1, <1>2 DEF IInv, Fresh, Before, FromDraft, Idle, Ops, StageOps
<1>6. OneNumber' /\ Counts'
  BY <1>1, <1>2 DEF IInv, OneNumber, Counts, Idle
<1>7. Open' /\ CostOnce'
  BY <1>1 DEF IInv, Open, CostOnce
<1> QED BY <1>3, <1>4, <1>5, <1>6, <1>7 DEF IInv

LEMMA InitIInv == Init => IInv
BY SubcontractAssumption
   DEF Init, IInv, TypeOK, Sorted, Resting, Fresh, Before, FromDraft, OneNumber, Counts, Open, CostOnce,
       Idle, Request, Ops, StageOps

LEMMA NextIInv == IInv /\ [Next]_vars => IInv'
<1> SUFFICES ASSUME IInv, [Next]_vars PROVE IInv'
  OBVIOUS
<1>1. ASSUME NEW v \in Variations, Instruct(v) PROVE IInv'
  BY <1>1 DEF Instruct, IInv, TypeOK, Sorted, Resting, Fresh, Before, FromDraft, OneNumber, Counts, Open, CostOnce
<1>2. ASSUME NEW r \in Requests, Decide(r) PROVE IInv'
  BY <1>2, DecideKeeps
<1>3. ASSUME NEW r \in Requests, Finish(r) PROVE IInv'
  BY <1>3, FinishKeeps
<1>4. ASSUME NEW r \in Requests, Fail(r) PROVE IInv'
  BY <1>4, FailKeeps
<1>5. CASE UNCHANGED vars
  BY <1>5 DEF vars, IInv, TypeOK, Sorted, Resting, Fresh, Before, FromDraft, OneNumber, Counts, Open, CostOnce
<1> QED BY <1>1, <1>2, <1>3, <1>4, <1>5 DEF Next

LEMMA Invariant == Spec => []IInv
BY InitIInv, NextIInv, PTL DEF Spec

\* The package, its stages and variations and the requests have their types.
THEOREM TypeCorrect == Spec => []TypeOK
<1>1. IInv => TypeOK
  BY DEF IInv
<1> QED BY <1>1, Invariant, PTL

\* A certified stage has cost the project once, for any number of requests at a
\* time (certify_milestone), unless two of them decided on that stage together.
THEOREM CertifiedOnce == Spec => []CostOnce
<1>1. IInv => CostOnce
  BY DEF IInv
<1> QED BY <1>1, Invariant, PTL

\* An awarded package has a stage whose row has a button: the last certification
\* sees the others' because the number of the journal keeps them apart.
THEOREM PackageNotLeftOpen == Spec => []StagesMoveOn
<1>1. IInv => StagesMoveOn
  <2> SUFFICES ASSUME IInv, Package \notin crossed, contract = "awarded"
               PROVE  \E s \in Stages : Buttons(s) # {}
    BY DEF StagesMoveOn
  <2>1. PICK s \in Stages : stage[s] # "certified"
    BY DEF IInv, Open
  <2>2. Buttons(s) # {}
    BY <2>1 DEF Buttons
  <2> QED BY <2>2
<1> QED BY <1>1, Invariant, PTL

-----------------------------------------------------------------------------
(* The two sums of the package *)

Approved == {v \in Variations : variation[v] = "approved"}

\* What the certificates hold back moves with the books.
Kept == crossed \cap Stages = {} => retention = Held - released

\* A release that nobody has overtaken is still covered.
Covered ==
  crossed \cap (Stages \cup {Retention}) = {} =>
    /\ Held - released >= 0
    /\ \A r \in Requests : req[r].op = "release" => req[r].sum <= Held - released

\* A decision on a variation that nobody else has decided on finds it open,
Undecided ==
  \A r \in Requests :
    req[r].op \in {"agree", "decline"} /\ req[r].on \notin crossed => variation[req[r].on] # "approved"

\* and the value it was worked out from is still the value.
UpToDate ==
  \A r \in Requests :
    req[r].op = "agree" /\ Value \notin crossed => req[r].sum = value + Change[req[r].on]

Explained ==
  crossed \cap (Variations \cup {Value}) = {} => value = Price + SumFunctionOnSet(Change, Approved)

Books == Kept /\ Covered /\ Undecided /\ UpToDate /\ Explained

\* The sums are of integers, and over no more than the package has.
LEMMA SumsOfPackage ==
  ASSUME TypeOK
  PROVE  /\ IsFiniteSet(Certified) /\ Certified \subseteq Stages
         /\ IsFiniteSet(Approved) /\ Approved \subseteq Variations
         /\ Held \in Int /\ SumFunctionOnSet(Change, Approved) \in Int
         /\ \A s \in Stages : Retained[s] \in Nat
         /\ \A v \in Variations : Change[v] \in Int
<1> USE SubcontractAssumption
<1>1. /\ IsFiniteSet(Certified) /\ Certified \subseteq Stages
      /\ IsFiniteSet(Approved) /\ Approved \subseteq Variations
  BY FS_Subset DEF Certified, Approved
<1>2. (\A s \in Stages : Retained[s] \in Nat) /\ \A v \in Variations : Change[v] \in Int
  OBVIOUS
<1>3. Held \in Int /\ SumFunctionOnSet(Change, Approved) \in Int
  BY <1>1, <1>2, SumType DEF Held
<1> QED BY <1>1, <1>2, <1>3

\* What two requests both decide on is crossed once the first of them writes.
LEMMA Crossed ==
  ASSUME NEW r \in Requests, Done(r), NEW q \in Requests, q # r, req[q].pc # "idle",
         NEW x, x \in About(r), x \in About(q)
  PROVE  x \in crossed'
BY DEF Done, Overtaken

\* The sums stand while nothing they are made of moves.
LEMMA BooksRest ==
  ASSUME Books, UNCHANGED <<value, stage, variation, retention, released>>, crossed \subseteq crossed',
         \A q \in Requests : req'[q].op \in {"release", "agree", "decline"} =>
           req'[q].op = req[q].op /\ req'[q].on = req[q].on /\ req'[q].sum = req[q].sum
  PROVE  Books'
<1>1. Held' = Held /\ Approved' = Approved
  BY DEF Held, Certified, Approved
<1>2. Kept' /\ Covered'
  BY <1>1 DEF Books, Kept, Covered
<1>3. Undecided' /\ UpToDate'
  BY DEF Books, Undecided, UpToDate
<1>4. Explained'
  BY <1>1 DEF Books, Explained
<1> QED BY <1>2, <1>3, <1>4 DEF Books

\* A request that starts is right about what it has just read.
LEMMA BooksBegin ==
  ASSUME TypeOK, Books, NEW r \in Requests, NEW op, NEW x, NEW sum, Begin(r, op, x, sum),
         op = "release" => sum <= Held - released,
         op \in {"agree", "decline"} => variation[x] # "approved",
         op = "agree" => sum = value + Change[x]
  PROVE  Books'
<1>1. /\ req' = [req EXCEPT ![r] = [pc |-> "read", op |-> op, on |-> x, sum |-> sum]]
      /\ UNCHANGED <<value, stage, variation, retention, released, crossed>>
  BY DEF Begin
<1>2. /\ \A q \in Requests : q # r => req'[q] = req[q]
      /\ req'[r].op = op /\ req'[r].on = x /\ req'[r].sum = sum
  BY <1>1 DEF TypeOK
<1>3. Held' = Held /\ Approved' = Approved
  BY <1>1 DEF Held, Certified, Approved
<1>4. Kept' /\ Covered'
  BY <1>1, <1>2, <1>3 DEF Books, Kept, Covered
<1>5. Undecided' /\ UpToDate'
  BY <1>1, <1>2 DEF Books, Undecided, UpToDate
<1>6. Explained'
  BY <1>1, <1>3 DEF Books, Explained
<1> QED BY <1>4, <1>5, <1>6 DEF Books

LEMMA DecideBooks ==
  ASSUME TypeOK, Books, NEW r \in Requests, Decide(r)
  PROVE  Books'
<1>1. CASE ReadPackage(r)
  BY <1>1, BooksBegin DEF ReadPackage
<1>2. ASSUME NEW s \in Stages, NEW op \in {"submit", "certify", "reject"}, ReadStage(r, op, s)
      PROVE  Books'
  BY <1>2, BooksBegin DEF ReadStage
<1>3. ASSUME NEW v \in Variations, NEW op \in {"agree", "decline"}, ReadVariation(r, op, v)
      PROVE  Books'
  BY <1>3, BooksBegin DEF ReadVariation, VariationMay
<1>4. ASSUME NEW amount \in 1 .. Outstanding, ReadRetention(r, amount)
      PROVE  Books'
  <2>1. Outstanding \in Int
    BY SumsOfPackage DEF Outstanding, TypeOK
  <2>2. amount <= Held - released
    BY <2>1 DEF Outstanding
  <2>3. Begin(r, "release", Retention, amount)
    BY <1>4 DEF ReadRetention
  <2> HIDE DEF Outstanding
  <2> QED BY <2>2, <2>3, BooksBegin
<1> QED BY <1>1, <1>2, <1>3, <1>4 DEF Decide

\* A stage that is not certified is put back or forth without moving what is held.
LEMMA SubmitOrRejectBooks ==
  ASSUME IInv, Books, NEW r \in Requests, SubmitOrReject(r)
  PROVE  Books'
<1> USE SubcontractAssumption
<1> DEFINE s == req[r].on
<1>1. /\ req[r].pc = "read" /\ req[r].op \in {"submit", "reject"}
      /\ stage' = [stage EXCEPT ![s] = StageTo(req[r].op)] /\ Done(r)
      /\ UNCHANGED <<value, variation, retention, released>>
  BY DEF SubmitOrReject
<1>2. /\ \A q \in Requests : q # r => req'[q] = req[q]
      /\ req'[r] = Idle
      /\ crossed \subseteq crossed'
  BY <1>1, Ends
<1>3. s \in Stages
  BY <1>1 DEF IInv, Sorted, StageOps
<1>4. s \notin crossed => Held' = Held
  <2>1. SUFFICES ASSUME s \notin crossed PROVE Certified' = Certified
    BY DEF Held
  <2>2. stage[s] # "certified" /\ stage'[s] # "certified"
    BY <1>1, <1>3, <2>1 DEF IInv, TypeOK, Fresh, StageOps, StageTo
  <2> QED BY <1>1, <1>3, <2>2 DEF Certified, IInv, TypeOK
<1>5. Kept' /\ Covered'
  BY <1>1, <1>2, <1>3, <1>4 DEF Books, Kept, Covered, Idle, Ops
<1>6. Undecided' /\ UpToDate' /\ Explained'
  BY <1>1, <1>2 DEF Books, Undecided, UpToDate, Explained, Approved, Idle, Ops
<1> QED BY <1>5, <1>6 DEF Books

\* A certificate adds what it holds back to both.
LEMMA CertifyBooks ==
  ASSUME IInv, Books, NEW r \in Requests, Certify(r)
  PROVE  Books'
<1> USE SubcontractAssumption
<1> DEFINE s == req[r].on
<1>1. /\ req[r].pc = "counted"
      /\ stage' = [stage EXCEPT ![s] = "certified"]
      /\ retention' = retention + Retained[s] /\ Done(r)
      /\ UNCHANGED <<value, variation, released>>
  BY DEF Certify, HoldRetention
<1>2. /\ \A q \in Requests : q # r => req'[q] = req[q]
      /\ req'[r] = Idle
      /\ crossed \subseteq crossed'
  BY <1>1, Ends
<1>3. s \in Stages /\ req[r].op = "certify"
  BY <1>1 DEF IInv, Sorted, StageOps
<1>4. /\ IsFiniteSet(Certified) /\ Certified \subseteq Stages
      /\ \A z \in Stages : Retained[z] \in Nat
      /\ Held \in Int /\ retention \in Int /\ released \in Int
  BY SumsOfPackage DEF IInv, TypeOK
<1>5. s \notin crossed => Held' = Held + Retained[s]
  <2>1. SUFFICES ASSUME s \notin crossed PROVE Held' = Held + Retained[s]
    OBVIOUS
  <2>2. s \notin Certified
    BY <1>3, <2>1 DEF IInv, Fresh, StageOps, Certified
  <2>3. Certified' = Certified \cup {s}
    BY <1>1, <1>3 DEF Certified, IInv, TypeOK
  <2> HIDE DEF s
  <2>4. SumFunctionOnSet(Retained, Certified \cup {s}) = SumFunctionOnSet(Retained, Certified) + Retained[s]
    BY <1>3, <1>4, <2>2, SumAdd
  <2> QED BY <2>3, <2>4 DEF Held
<1>6. \A q \in Requests : req'[q].op # "release" \/ (req'[q].sum = req[q].sum /\ req[q].op = "release" /\ req[q].sum \in Int)
  BY <1>2 DEF Idle, Ops, IInv, TypeOK, Request
<1>7. Retained[s] \in Nat
  BY <1>3, <1>4
<1>8. crossed' \cap Stages = {} => crossed \cap Stages = {} /\ s \notin crossed
  BY <1>2, <1>3
<1> HIDE DEF s
<1>9. Kept'
  <2>1. SUFFICES ASSUME crossed' \cap Stages = {} PROVE retention' = Held' - released'
    BY DEF Kept
  <2>2. retention = Held - released /\ Held' = Held + Retained[s]
    BY <1>5, <1>8, <2>1 DEF Books, Kept
  <2> QED BY <1>1, <1>4, <1>7, <2>2
<1>10. Covered'
  <2>1. SUFFICES ASSUME crossed' \cap (Stages \cup {Retention}) = {}
                 PROVE  /\ Held' - released' >= 0
                        /\ \A q \in Requests : req'[q].op = "release" => req'[q].sum <= Held' - released'
    BY DEF Covered
  <2>2. Held - released >= 0 /\ \A q \in Requests : req[q].op = "release" => req[q].sum <= Held - released
    BY <1>2, <2>1 DEF Books, Covered
  <2>3. Held' = Held + Retained[s] /\ released' = released
    BY <1>1, <1>5, <1>8, <2>1
  <2>4. Held' - released' >= Held - released
    BY <1>4, <1>7, <2>3
  <2>5. Held' - released' \in Int /\ Held - released \in Int
    BY <1>4, <1>7, <2>3
  <2> QED BY <1>6, <2>2, <2>4, <2>5
<1>11. Undecided' /\ UpToDate' /\ Explained'
  BY <1>1, <1>2 DEF Books, Undecided, UpToDate, Explained, Approved, Idle, Ops
<1> QED BY <1>9, <1>10, <1>11 DEF Books

\* A release takes from both what was still covered.
LEMMA ReleaseBooks ==
  ASSUME IInv, Books, NEW r \in Requests, Release(r)
  PROVE  Books'
<1> USE SubcontractAssumption
<1> DEFINE amount == req[r].sum
<1>1. /\ req[r].pc = "numbered" /\ req[r].op = "release"
      /\ retention' = retention - amount
      /\ released' = released + amount /\ Done(r)
      /\ UNCHANGED <<value, stage, variation>>
  BY DEF Release
<1>2. /\ \A q \in Requests : q # r => req'[q] = req[q]
      /\ req'[r] = Idle
      /\ crossed \subseteq crossed'
  BY <1>1, Ends
<1>3. /\ Held \in Int /\ retention \in Int /\ released \in Int /\ amount \in Int
      /\ Held' = Held
  BY <1>1, SumsOfPackage DEF Held, IInv, TypeOK, Request, Certified
<1>4. Retention \notin crossed' => \A q \in Requests : req'[q].op # "release"
  <2>1. ASSUME NEW q \in Requests, req'[q].op = "release"
        PROVE  Retention \in crossed'
    <3>1. q # r /\ req[q].op = "release" /\ req[q].on = Retention /\ req[r].on = Retention
      BY <1>1, <1>2, <2>1 DEF Idle, Ops, IInv, Sorted
    <3>2. req[q].pc # "idle"
      BY <3>1 DEF IInv, Resting, Ops
    <3> QED BY <1>1, <3>1, <3>2, Crossed DEF About
  <2> QED BY <2>1
<1>5. crossed' \cap (Stages \cup {Retention}) = {} => amount <= Held - released
  BY <1>1, <1>2 DEF Books, Covered
<1> HIDE DEF amount
<1>6. Kept'
  BY <1>1, <1>2, <1>3 DEF Books, Kept
<1>7. Covered'
  BY <1>1, <1>3, <1>4, <1>5 DEF Covered
<1>8. Undecided' /\ UpToDate' /\ Explained'
  BY <1>1, <1>2 DEF Books, Undecided, UpToDate, Explained, Approved, Idle, Ops
<1> QED BY <1>6, <1>7, <1>8 DEF Books

\* An approval that nobody has overtaken adds its change to the value.
LEMMA AgreeBooks ==
  ASSUME IInv, Books, NEW r \in Requests, Agree(r)
  PROVE  Books'
<1> USE SubcontractAssumption
<1> DEFINE v == req[r].on
<1>1. /\ req[r].pc = "read" /\ req[r].op = "agree"
      /\ variation' = [variation EXCEPT ![v] = "approved"]
      /\ value' = req[r].sum /\ Done(r)
      /\ UNCHANGED <<stage, retention, released>>
  BY DEF Agree
<1>2. /\ \A q \in Requests : q # r => req'[q] = req[q]
      /\ req'[r] = Idle
      /\ crossed \subseteq crossed'
      /\ \A q \in Requests : req'[q].pc # "idle" /\ req'[q].on = v => v \in crossed'
  BY <1>1, Ends
<1>3. v \in Variations
  BY <1>1 DEF IInv, Sorted
<1>4. Kept' /\ Covered'
  <2>1. Held' = Held
    BY <1>1 DEF Held, Certified
  <2> QED BY <1>1, <1>2, <2>1 DEF Books, Kept, Covered, Idle, Ops
<1>5. Undecided'
  <2>1. ASSUME NEW q \in Requests, req'[q].op \in {"agree", "decline"}, req'[q].on \notin crossed'
        PROVE  variation'[req'[q].on] # "approved"
    <3>1. q # r /\ req'[q] = req[q]
      BY <1>2, <2>1 DEF Idle, Ops
    <3>2. req[q].on \in Variations /\ req[q].pc # "idle" /\ variation[req[q].on] # "approved"
      BY <1>2, <2>1, <3>1 DEF Books, Undecided, IInv, Sorted, Resting, Ops
    <3>3. req[q].on # v
      BY <1>2, <2>1, <3>1, <3>2
    <3> QED BY <1>1, <1>3, <3>1, <3>2, <3>3 DEF IInv, TypeOK
  <2> QED BY <2>1 DEF Undecided
<1>6. UpToDate'
  <2>1. ASSUME NEW q \in Requests, req'[q].op = "agree"
        PROVE  Value \in crossed'
    <3>1. q # r /\ req[q].op = "agree"
      BY <1>2, <2>1 DEF Idle, Ops
    <3>2. req[q].pc # "idle"
      BY <3>1 DEF IInv, Resting, Ops
    <3> QED BY <1>1, <3>1, <3>2, Crossed DEF About
  <2> QED BY <2>1 DEF UpToDate
<1>7. Explained'
  <2>1. SUFFICES ASSUME crossed' \cap (Variations \cup {Value}) = {}
                 PROVE  value' = Price + SumFunctionOnSet(Change, Approved')
    BY DEF Explained
  <2>2. crossed \cap (Variations \cup {Value}) = {} /\ v \notin crossed /\ Value \notin crossed
    BY <1>2, <1>3, <2>1
  <2>3. value' = value + Change[v]
    BY <1>1, <2>2 DEF Books, UpToDate
  <2>4. v \notin Approved
    BY <1>1, <2>2 DEF Books, Undecided, Approved
  <2>5. Approved' = Approved \cup {v}
    BY <1>1, <1>3 DEF Approved, IInv, TypeOK
  <2> DEFINE sum == SumFunctionOnSet(Change, Approved)
  <2>6. IsFiniteSet(Approved) /\ Approved \subseteq Variations /\ sum \in Int /\ Change[v] \in Int
    BY <1>3, SumsOfPackage DEF IInv
  <2> HIDE DEF v
  <2>7. SumFunctionOnSet(Change, Approved \cup {v}) = sum + Change[v]
    BY <1>3, <2>4, <2>6, SumAdd
  <2>8. value = Price + sum
    BY <2>2 DEF Books, Explained
  <2> HIDE DEF sum
  <2>9. value' = Price + (sum + Change[v])
    BY <2>3, <2>6, <2>8
  <2> QED BY <2>5, <2>7, <2>9
<1> QED BY <1>4, <1>5, <1>6, <1>7 DEF Books

\* What was not approved is declined or instructed without moving the value.
LEMMA StillUnapproved ==
  ASSUME TypeOK, Books, NEW v \in Variations, NEW to \in {"pending", "rejected"},
         variation' = [variation EXCEPT ![v] = to],
         UNCHANGED <<value, stage, retention, released>>, crossed \subseteq crossed',
         v \notin crossed' => variation[v] # "approved",
         \A q \in Requests : req'[q].op \in {"release", "agree", "decline"} =>
           req'[q].op = req[q].op /\ req'[q].on = req[q].on /\ req'[q].sum = req[q].sum
  PROVE  Books'
<1>1. Kept' /\ Covered'
  <2>1. Held' = Held
    BY DEF Held, Certified
  <2> QED BY <2>1 DEF Books, Kept, Covered
<1>2. \A z \in Variations : variation'[z] = IF z = v THEN to ELSE variation[z]
  BY DEF TypeOK
<1>3. variation'[v] # "approved" /\ \A z : variation'[z] = "approved" => variation[z] = "approved" \/ z \notin Variations
  BY <1>2
<1>4. Undecided'
  BY <1>2 DEF Books, Undecided, TypeOK
<1>5. UpToDate'
  BY DEF Books, UpToDate
<1>6. v \notin crossed' => Approved' = Approved
  BY <1>2 DEF Approved
<1>7. Explained'
  BY <1>6 DEF Books, Explained
<1> QED BY <1>1, <1>4, <1>5, <1>7 DEF Books

LEMMA DeclineBooks ==
  ASSUME IInv, Books, NEW r \in Requests, Decline(r)
  PROVE  Books'
<1>1. /\ req[r].pc = "read" /\ req[r].op = "decline"
      /\ variation' = [variation EXCEPT ![req[r].on] = "rejected"] /\ Done(r)
      /\ UNCHANGED <<value, stage, retention, released>>
  BY DEF Decline
<1>2. /\ \A q \in Requests : q # r => req'[q] = req[q]
      /\ req'[r] = Idle
      /\ crossed \subseteq crossed'
  BY <1>1, Ends
<1>3. req[r].on \in Variations
  BY <1>1 DEF IInv, Sorted
<1>4. req[r].on \notin crossed' => variation[req[r].on] # "approved"
  BY <1>1, <1>2 DEF Books, Undecided
<1>5. \A q \in Requests : req'[q].op \in {"release", "agree", "decline"} => req'[q] = req[q]
  BY <1>2, SubcontractAssumption DEF Idle, Ops
<1> QED BY <1>1, <1>2, <1>3, <1>4, <1>5, StillUnapproved DEF IInv

-----------------------------------------------------------------------------

LEMMA FinishBooks ==
  ASSUME IInv, Books, NEW r \in Requests, Finish(r)
  PROVE  Books'
<1> USE SubcontractAssumption
<1>1. CASE Award(r)
  <2>1. /\ req[r].pc # "idle" /\ Done(r)
        /\ UNCHANGED <<value, stage, variation, retention, released>>
    BY <1>1 DEF Award
  <2>2. /\ \A q \in Requests : q # r => req'[q] = req[q]
        /\ req'[r] = Idle
        /\ crossed \subseteq crossed'
    BY <2>1, Ends
  <2> QED BY <2>1, <2>2, BooksRest DEF Idle, Ops
<1>2. CASE SubmitOrReject(r)
  BY <1>2, SubmitOrRejectBooks
<1>3. CASE Agree(r)
  BY <1>3, AgreeBooks
<1>4. CASE Decline(r)
  BY <1>4, DeclineBooks
<1>5. CASE WriteStage(r) \/ Number(r)
  <2>1. PICK pc : At(r, pc)
    BY <1>5 DEF WriteStage, Number
  <2>2. /\ \A q \in Requests : req'[q].op = req[q].op /\ req'[q].on = req[q].on /\ req'[q].sum = req[q].sum
        /\ UNCHANGED <<value, stage, variation, retention, released, crossed>>
    BY <2>1 DEF At, IInv, TypeOK
  <2> QED BY <2>2, BooksRest
<1>6. CASE Count(r)
  <2>1. /\ \A q \in Requests : req'[q].op # "certify" => req'[q] = req[q]
        /\ UNCHANGED <<value, stage, variation, retention, released, crossed>>
    BY <1>6 DEF Count, IInv, TypeOK
  <2> QED BY <2>1, BooksRest
<1>7. CASE Certify(r)
  BY <1>7, CertifyBooks
<1>8. CASE Release(r)
  BY <1>8, ReleaseBooks
<1> QED BY <1>1, <1>2, <1>3, <1>4, <1>5, <1>6, <1>7, <1>8 DEF Finish

LEMMA InitBooks == Init => Books
<1> USE SubcontractAssumption
<1> SUFFICES ASSUME Init PROVE Books
  OBVIOUS
<1>1. Certified = {} /\ Approved = {}
  BY DEF Init, Certified, Approved
<1>2. Held = 0 /\ SumFunctionOnSet(Change, Approved) = 0
  BY <1>1, SumEmpty DEF Held
<1>3. \A r \in Requests : req[r].op = None
  BY DEF Init, Idle
<1>4. Kept /\ Covered
  BY <1>2, <1>3 DEF Init, Kept, Covered, Ops
<1>5. Undecided /\ UpToDate
  BY <1>3 DEF Undecided, UpToDate, Ops
<1>6. Explained
  BY <1>2 DEF Init, Explained
<1> QED BY <1>4, <1>5, <1>6 DEF Books

LEMMA NextBooks == IInv /\ Books /\ [Next]_vars => Books'
<1> SUFFICES ASSUME IInv, Books, [Next]_vars PROVE Books'
  OBVIOUS
<1>1. ASSUME NEW v \in Variations, Instruct(v) PROVE Books'
  BY <1>1, StillUnapproved DEF Instruct, IInv
<1>2. ASSUME NEW r \in Requests, Decide(r) PROVE Books'
  BY <1>2, DecideBooks DEF IInv
<1>3. ASSUME NEW r \in Requests, Finish(r) PROVE Books'
  BY <1>3, FinishBooks
<1>4. ASSUME NEW r \in Requests, Fail(r) PROVE Books'
  <2>1. /\ UNCHANGED <<value, stage, variation, retention, released, crossed>>
        /\ \A q \in Requests : q # r => req'[q] = req[q]
        /\ req'[r] = Idle
    BY <1>4 DEF Fail, IInv, TypeOK
  <2> QED BY <2>1, BooksRest, SubcontractAssumption DEF Idle, Ops
<1>5. CASE UNCHANGED vars
  BY <1>5, BooksRest DEF vars
<1> QED BY <1>1, <1>2, <1>3, <1>4, <1>5 DEF Next

LEMMA BooksInvariant == Spec => []Books
BY InitIInv, InitBooks, NextIInv, NextBooks, PTL DEF Spec

\* Retention Payable is what the certificates held back and nobody has given
\* back, and no more is given back than was held (release_retention), for any
\* stages and amounts, unless two requests decided on the same of it.
THEOREM RetentionIsHeld == Spec => []RetentionStands
<1>1. IInv /\ Books => RetentionStands
  <2> SUFFICES ASSUME IInv, Books, crossed \cap (Stages \cup {Retention}) = {}
               PROVE  retention = Outstanding /\ retention >= 0
    BY DEF RetentionStands
  <2> QED BY DEF Books, Kept, Covered, Outstanding
<1> QED BY <1>1, Invariant, BooksInvariant, PTL

\* The value of a package is its price and the changes of its approved
\* variations (payment_certificate), for any variations, unless two approvals
\* of it were decided together.
THEOREM ValueIsExplained == Spec => []ValueExplained
<1>1. Books => ValueExplained
  BY DEF Books, Explained, ValueExplained, Approved
<1> QED BY <1>1, BooksInvariant, PTL

===============================================================================
