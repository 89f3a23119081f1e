------------------------------ MODULE Captures ------------------------------
(***************************************************************************)
(* What the field forms of the app produce and what the two halves of the  *)
(* offline path, the device's outbox (Outbox) and the server's push        *)
(* (SyncPush), both know about it.                                         *)
(*                                                                         *)
(* A capture is one record written on site: its client_op_id is made on    *)
(* the device before it is saved and is carried by every retry.  Captures  *)
(* are numbered in the order of captured_at, which is the order in which   *)
(* all() sorts the outbox and hence the order inside a push.               *)
(***************************************************************************)
EXTENDS Naturals, FiniteSets

CONSTANTS
  Captures,  \* how many captures are ever made
  Devices,   \* the phones
  Days,      \* the (project, entry_date) pairs that may have a diary
  Texts,     \* the pieces of prose a form can hold
  Author,    \* the device a capture was written on
  OpType,    \* its op_type
  DayOf,     \* the project and day it speaks of
  Says,      \* the text it puts in each column of the diary
  Valid      \* the captures whose payload the handler's own checks accept

Ops == 1 .. Captures

\* The op_types that HANDLERS knows, grouped by what the handler does: the
\* three that only ever add rows of their own are one kind.
Handled == {"diary_entry", "diary_labour", "site_issue"}

\* The columns of a diary that hold prose.  A column is the set of texts that
\* can be found in it; {} is a blank column.
Fields  == {"work_done", "plant_equipment", "delays"}
Columns == Fields \cup {"notes"}
Pages   == [Columns -> SUBSET Texts]

\* The status of a sync_operations row; "none" is the absence of the row.
Status  == {"applied", "merged", "rejected"}
Outcome == Status \cup {"none"}
Answers == Status \cup {"duplicate", "none"}

ASSUME CapturesAssumption ==
  /\ Captures \in Nat
  /\ Author \in [Ops -> Devices]
  /\ OpType \in [Ops -> Handled \cup {"unknown"}]
  /\ DayOf \in [Ops -> Days]
  /\ Says \in [Ops -> Pages]
  /\ Valid \subseteq Ops

\* The capture that comes first in a batch: batches are sorted by captured_at.
First(batch) == CHOOSE o \in batch : \A x \in batch : o <= x
=============================================================================
