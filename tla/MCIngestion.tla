----------------------------- MODULE MCIngestion ------------------------------
(* Two documents, so that one waits for the other, one read at a time, and   *)
(* two requests of reviewers at a time.                                      *)
EXTENDS Ingestion
===============================================================================
