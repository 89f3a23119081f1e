----------------------------- MODULE MCSession -----------------------------
(* Two tabs of one browser and two requests, of one tab or of both.          *)
EXTENDS Session

CONSTANTS left, right
=============================================================================
