----------------------------- MODULE MCSyncPush -----------------------------
(* Three diaries and a count of the crew of one day, in any backlogs, so    *)
(* that one push can write the diary and then the crew while another writes *)
(* the crew and then the diary.                                             *)
EXTENDS SyncPush

CONSTANTS phoneA, phoneB, monday, blinding, rebar, formwork, rain, wind

MCAuthor == [o \in Ops |-> IF o \in {1, 3} THEN phoneA ELSE phoneB]
MCDayOf  == [o \in Ops |-> monday]
MCOpType == [o \in Ops |-> IF o = 2 THEN "diary_labour" ELSE "diary_entry"]

Entry(work, delays) ==
  [c \in Columns |-> CASE c = "work_done" -> {work}
                       [] c = "delays" -> delays
                       [] OTHER -> {}]
MCSays == [o \in Ops |-> CASE o = 1 -> Entry(blinding, {})
                            [] o = 3 -> Entry(rebar, {rain})
                            [] OTHER -> Entry(formwork, {wind})]
MCValid == Ops
=============================================================================
