------------------------------ MODULE MCTrace ------------------------------
(* Records, and files and results of the projection, for checking Trace. *)
EXTENDS Trace, MCTraceReader

CONSTANTS a1, a2, s1, s2, r1, r2

Given == INSTANCE MCTraceProjection
           WITH pc <- at, row <- position, refusal <- refused, Files <- {}, Results <- {}
MCFiles == Given!MCFiles
MCResults == Given!MCResults
============================================================================
