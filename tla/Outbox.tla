------------------------------- MODULE Outbox -------------------------------
(***************************************************************************)
(* The phone's half of offline capture: the queue in IndexedDB             *)
(* (frontend/src/lib/offline/outbox.ts) and the drains that send it        *)
(* (sync.ts).                                                              *)
(*                                                                         *)
(* drain() is asynchronous: the online event, the one-minute timer, every  *)
(* change of the queue and the Send button all start one, and what runs    *)
(* between two awaits is one step here.  A drain looks at `running` before *)
(* it awaits the queue and sets it after, so two can be under way.  The    *)
(* queue survives the app being killed; drains and `running` do not.       *)
(***************************************************************************)
EXTENDS Captures

CONSTANTS
  Drains,   \* the calls of drain() that can be under way at a time
  PhoneOf   \* the phone each of them runs on

VARIABLES
  box,      \* where each capture stands on its phone
  running,  \* the flag of sync.ts
  drain     \* the calls under way

outboxVars == <<box, running, drain>>

ASSUME OutboxAssumption == PhoneOf \in [Drains -> Devices]

\* "unwritten": not captured yet; "pending" and "rejected" are the statuses in
\* the store; "sent": removed because the server answered for it; "discarded":
\* removed by the person who was shown the refusal.
Places == {"unwritten", "pending", "rejected", "sent", "discarded"}

Idle == [pc |-> "idle", results |-> [o \in Ops |-> "none"]]

OutboxTypeOK ==
  /\ box \in [Ops -> Places]
  /\ running \in [Devices -> BOOLEAN]
  /\ drain \in [Drains -> [pc : {"idle", "looking", "waiting", "settling", "marking"},
                           results : [Ops -> Answers]]]

OutboxInit ==
  /\ box = [o \in Ops |-> "unwritten"]
  /\ running = [v \in Devices |-> FALSE]
  /\ drain = [d \in Drains |-> Idle]

-----------------------------------------------------------------------------

Stored(o) == box[o] \in {"pending", "rejected"}
Pending(v) == {o \in Ops : Author[o] = v /\ box[o] = "pending"}

\* enqueue(): the form saves the capture; captured_at only grows.
Capture(o) ==
  /\ box[o] = "unwritten"
  /\ \A x \in Ops : Author[x] = Author[o] /\ x < o => box[x] # "unwritten"
  /\ box' = [box EXCEPT ![o] = "pending"]
  /\ UNCHANGED <<running, drain>>

\* The Discard button beside a refused entry.
Discard(o) ==
  /\ box[o] = "rejected"
  /\ box' = [box EXCEPT ![o] = "discarded"]
  /\ UNCHANGED <<running, drain>>

\* drain() is called and finds no other drain running.
Look(d) ==
  /\ drain[d].pc = "idle"
  /\ ~ running[PhoneOf[d]]
  /\ drain' = [drain EXCEPT ![d].pc = "looking"]
  /\ UNCHANGED <<box, running>>

\* `await pending()` returns an empty queue.
NothingToSend(d) ==
  /\ drain[d].pc = "looking"
  /\ Pending(PhoneOf[d]) = {}
  /\ drain' = [drain EXCEPT ![d] = Idle]
  /\ UNCHANGED <<box, running>>

\* Mutant: the backlog is taken off the phone when it is sent.
PostAndForget(d, batch) ==
  /\ drain[d].pc = "looking"
  /\ batch = Pending(PhoneOf[d])
  /\ batch # {}
  /\ running' = [running EXCEPT ![PhoneOf[d]] = TRUE]
  /\ drain' = [drain EXCEPT ![d].pc = "waiting"]
  /\ box' = [o \in Ops |-> IF o \in batch THEN "sent" ELSE box[o]]

\* `await pending()` returns the backlog, and the request leaves with it.
Post(d, batch) ==
  /\ drain[d].pc = "looking"
  /\ batch = Pending(PhoneOf[d])
  /\ batch # {}
  /\ running' = [running EXCEPT ![PhoneOf[d]] = TRUE]
  /\ drain' = [drain EXCEPT ![d].pc = "waiting"]
  /\ UNCHANGED box

\* Mutant: no finally.
GiveUpWedged(d) ==
  /\ drain[d].pc = "waiting"
  /\ drain' = [drain EXCEPT ![d] = Idle]
  /\ UNCHANGED <<box, running>>

\* Mutant: a failed request counts as a refusal of everything in it.
GiveUpRefused(d) ==
  /\ drain[d].pc = "waiting"
  /\ running' = [running EXCEPT ![PhoneOf[d]] = FALSE]
  /\ drain' = [drain EXCEPT ![d] = Idle]
  /\ box' = [o \in Ops |-> IF o \in Pending(PhoneOf[d]) THEN "rejected" ELSE box[o]]

\* catch and finally: the request failed.
GiveUp(d) ==
  /\ drain[d].pc = "waiting"
  /\ running' = [running EXCEPT ![PhoneOf[d]] = FALSE]
  /\ drain' = [drain EXCEPT ![d] = Idle]
  /\ UNCHANGED box

\* The response arrives.
Receive(d, answer) ==
  /\ drain[d].pc = "waiting"
  /\ drain' = [drain EXCEPT ![d] = [pc |-> "settling", results |-> answer]]
  /\ UNCHANGED <<box, running>>

Answered(d) == {o \in Ops : drain[d].results[o] # "none"}

\* The next result is not a refusal: remove().
Remove(d) ==
  LET o == First(Answered(d))
  IN  /\ drain[d].pc = "settling"
      /\ Answered(d) # {}
      /\ drain[d].results[o] # "rejected"
      /\ box' = [box EXCEPT ![o] = IF Stored(o) THEN "sent" ELSE @]
      /\ drain' = [drain EXCEPT ![d].results[o] = "none"]
      /\ UNCHANGED running

\* The next result is a refusal: markRejected() gets the record...
FindRejected(d) ==
  LET o == First(Answered(d))
  IN  /\ drain[d].pc = "settling"
      /\ Answered(d) # {}
      /\ drain[d].results[o] = "rejected"
      /\ drain' = IF Stored(o) THEN [drain EXCEPT ![d].pc = "marking"]
                  ELSE [drain EXCEPT ![d].results[o] = "none"]
      /\ UNCHANGED <<box, running>>

\* ... and puts it back with the reason.
MarkRejected(d) ==
  LET o == First(Answered(d))
  IN  /\ drain[d].pc = "marking"
      /\ box' = [box EXCEPT ![o] = "rejected"]
      /\ drain' = [drain EXCEPT ![d].pc = "settling", ![d].results[o] = "none"]
      /\ UNCHANGED running

\* Every result has been dealt with.
Done(d) ==
  /\ drain[d].pc = "settling"
  /\ Answered(d) = {}
  /\ running' = [running EXCEPT ![PhoneOf[d]] = FALSE]
  /\ drain' = [drain EXCEPT ![d] = Idle]
  /\ UNCHANGED box

\* The browser is killed: only the store is left.
Kill(v) ==
  /\ running' = [running EXCEPT ![v] = FALSE]
  /\ drain' = [d \in Drains |-> IF PhoneOf[d] = v THEN Idle ELSE drain[d]]
  /\ UNCHANGED box

\* The steps a drain takes by itself, without the network.
Settle(d) == NothingToSend(d) \/ Remove(d) \/ FindRejected(d) \/ MarkRejected(d) \/ Done(d)
=============================================================================
