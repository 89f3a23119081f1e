---------------------------- MODULE OfflineSync ----------------------------
(***************************************************************************)
(* Phones (Outbox) and the server (SyncPush) over a network that loses     *)
(* requests and responses, with pushes that outlive the drain that sent    *)
(* them and drains that give up on a push that is still being served.      *)
(*                                                                         *)
(* get_db() (core/database.py) commits after its yield, which the FastAPI  *)
(* that uv.lock pins reaches only when the response has been sent: what a  *)
(* phone is told is a promise, and a worker that dies breaks it.           *)
(***************************************************************************)
EXTENDS SyncPush, Outbox

CONSTANT NoDrain

VARIABLES
  caller,   \* the drain that still waits for each push's response
  broken    \* the outcomes a phone was told of each capture that came to nothing,
            \* as long as no other push has made them true

vars == <<syncOps, diary, crew, filed, push, box, running, drain, caller, broken>>

ASSUME OfflineSyncAssumption == NoDrain \notin Drains

TypeOK ==
  /\ ServerTypeOK
  /\ OutboxTypeOK
  /\ caller \in [Pushes -> Drains \cup {NoDrain}]
  /\ broken \in [Ops -> SUBSET Status]

Init ==
  /\ ServerInit
  /\ OutboxInit
  /\ caller = [p \in Pushes |-> NoDrain]
  /\ broken = [o \in Ops |-> {}]

HangUp(ds) == [p \in Pushes |-> IF caller[p] \in ds THEN NoDrain ELSE caller[p]]

\* drain() sends the backlog.
Send(d, p) ==
  /\ Post(d, Pending(PhoneOf[d]))
  /\ Open(p, Pending(PhoneOf[d]))
  /\ caller' = [caller EXCEPT ![p] = d]
  /\ UNCHANGED broken

\* The request never reaches the server.
SendLost(d) ==
  /\ Post(d, Pending(PhoneOf[d]))
  /\ UNCHANGED <<serverVars, caller, broken>>

Serve(p) == Work(p) /\ UNCHANGED <<outboxVars, caller, broken>>

NoAnswer == [o \in Ops |-> "none"]

\* The response leaves the server, and somebody gets to hear of it...
Responds(p, heard) ==
  /\ Finished(p)
  /\ Step(p, [push[p] EXCEPT !.pc = "answered", !.answer = heard])
  /\ caller' = [caller EXCEPT ![p] = NoDrain]
  /\ UNCHANGED broken

\* ... and reaches the drain that waits for it,
Respond(p) ==
  /\ caller[p] # NoDrain
  /\ Responds(p, push[p].answer)
  /\ Receive(caller[p], push[p].answer)

\* or is lost, or nobody waits for it any more.
ResponseLost(p) == Responds(p, NoAnswer) /\ UNCHANGED outboxVars

\* The commit, behind the response.
CommitPush(p) ==
  /\ push[p].pc = "answered"
  /\ Commit(p)
  /\ broken' = [o \in Ops |-> broken[o] \ {push[p].rows[o]}]
  /\ UNCHANGED <<outboxVars, caller>>

\* A phone has an outcome from p that p is yet to commit.
Told(p, o) == push[p].pc = "answered" /\ push[p].answer[o] \in Status

\* The push comes to nothing, before its response or after it.
ServerFails(p) ==
  /\ Abort(p)
  /\ caller' = [caller EXCEPT ![p] = NoDrain]
  /\ broken' = [o \in Ops |-> IF Told(p, o) THEN broken[o] \cup {push[p].answer[o]} ELSE broken[o]]
  /\ UNCHANGED outboxVars

\* The drain's request fails: the push it was waiting for may live on.
DrainFails(d) ==
  /\ GiveUp(d)
  /\ caller' = HangUp({d})
  /\ UNCHANGED <<serverVars, broken>>

\* The browser dies.
PhoneDies(v) ==
  /\ Kill(v)
  /\ caller' = HangUp({d \in Drains : PhoneOf[d] = v})
  /\ UNCHANGED <<serverVars, broken>>

OnPhone == UNCHANGED <<serverVars, caller, broken>>

Next ==
  \/ \E o \in Ops : (Capture(o) \/ Discard(o)) /\ OnPhone
  \/ \E d \in Drains :
       \/ (Look(d) \/ Settle(d)) /\ OnPhone
       \/ \E p \in Pushes : Send(d, p)
       \/ SendLost(d)
       \/ DrainFails(d)
  \/ \E p \in Pushes :
       Serve(p) \/ ServerFails(p) \/ CommitPush(p) \/ Respond(p) \/ ResponseLost(p)
  \/ \E v \in Devices : PhoneDies(v)

Spec == Init /\ [][Next]_vars

-----------------------------------------------------------------------------
(* Fairness.  The server works off what it has been sent, and a call of    *)
(* drain() runs to its end; startSyncLoop makes a call every minute.  None *)
(* of that helps while the connection goes: delivery is promised for a     *)
(* time from which on no request, response, worker or browser is lost.     *)

\* The push can only fail: another push took its capture, or a deadlock.
Doomed(p) ==
  /\ push[p].pc = "recording"
  /\ syncOps[Current(p)] # "none" \/ Deadlocked(p)

Trouble ==
  \/ \E d \in Drains : SendLost(d) \/ (DrainFails(d) /\ \E p \in Pushes : caller[p] = d)
  \/ \E p \in Pushes : \/ ~ Doomed(p) /\ ServerFails(p)
                       \/ ResponseLost(p) /\ caller[p] # NoDrain
  \/ \E v \in Devices : PhoneDies(v)

Fairness ==
  /\ \A d \in Drains :
       WF_vars(((Look(d) \/ Settle(d)) /\ OnPhone) \/ (\E p \in Pushes : Send(d, p))
               \/ (DrainFails(d) /\ \A p \in Pushes : caller[p] # d))
  /\ \A p \in Pushes :
       WF_vars(Serve(p) \/ (Doomed(p) /\ ServerFails(p)) \/ CommitPush(p) \/ Respond(p)
               \/ (ResponseLost(p) /\ caller[p] = NoDrain))

ConnectionHolds == <>[][~ Trouble]_vars

FairSpec == Spec /\ Fairness /\ ConnectionHolds

-----------------------------------------------------------------------------
(* What the two promise together.                                          *)

\* The outcome a phone has been told of a capture and that is still to commit.
Owed(o) ==
  LET by == {p \in Pushes : Told(p, o)}
  IN  IF by = {} THEN "none" ELSE push[CHOOSE p \in by : TRUE].answer[o]

\* A capture leaves the phone only when the server holds its outcome, or has told
\* it and is about to, or told it and broke its word: the phone itself loses none.
NothingLost ==
  \A o \in Ops :
    box[o] \in {"sent", "discarded"} => syncOps[o] # "none" \/ Owed(o) # "none" \/ broken[o] # {}

\* sync/service.py: "Nothing is silently lost, in either direction."
NothingSilentlyLost ==
  \A o \in Ops : box[o] \in {"sent", "discarded"} => syncOps[o] # "none" \/ Owed(o) # "none"

\* A phone shows a refusal only for a capture the server did refuse or has told
\* it would, and a refusal kept is final: the entry is not in the books after all.
RefusalIsTrue ==
  \A o \in Ops :
    box[o] \in {"rejected", "discarded"} =>
      syncOps[o] = "rejected" \/ Owed(o) = "rejected" \/ "rejected" \in broken[o]

\* `running` never stays up when no drain is left to take it down.
NeverWedged ==
  \A v \in Devices :
    running[v] => \E d \in Drains : PhoneOf[d] = v /\ drain[d].pc \notin {"idle", "looking"}

\* Seen from outside, phones, pushes and retries are CaptureLedger.
Ledger == INSTANCE CaptureLedger
            WITH Records <- Ops,
                 Writes <- {o \in Ops : OpType[o] = "site_issue"},
                 fate <- syncOps,
                 effects <- filed,
                 told <- [o \in Ops |-> Owed(o)],
                 unkept <- broken,
                 letGo <- {o \in Ops : box[o] \in {"sent", "discarded"}}
ImplementsLedger == Ledger!LedgerSpec

\* Whatever is captured is in the end off the phone or shown as refused.
EveryCaptureSettles ==
  \A o \in Ops : box[o] = "pending" ~> box[o] \in {"sent", "rejected", "discarded"}
=============================================================================
