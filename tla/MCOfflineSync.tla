--------------------------- MODULE MCOfflineSync ---------------------------
(* One phone with two drains; it reports an issue, and then counts a crew on *)
(* a day that has no diary, which the server refuses.                        *)
EXTENDS OfflineSync

CONSTANTS phone, monday, blinding

MCAuthor == [o \in 1 .. Captures |-> phone]
MCOpType == [o \in 1 .. Captures |-> IF o = 1 THEN "site_issue" ELSE "diary_labour"]
MCDayOf  == [o \in 1 .. Captures |-> monday]
MCSays   == [o \in 1 .. Captures |-> [c \in Columns |-> IF c = "work_done" THEN {blinding} ELSE {}]]
MCPhoneOf == [d \in Drains |-> phone]
MCValid == 1 .. Captures
=============================================================================
