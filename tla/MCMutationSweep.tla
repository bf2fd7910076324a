-------------------------- MODULE MCMutationSweep --------------------------
(***************************************************************************)
(* A sweep of five of the seventeen cases: two that replace the same text,  *)
(* one in each other file, and one whose text is no longer there.           *)
(***************************************************************************)
EXTENDS MutationSweep

MCCases == SelectSeq(CASES, LAMBDA c : c.id \in {"R1", "M1", "R5", "R6", "R9"})

(* src/src/lib.rs spells the byte cap differently since it has a function    *)
(* of its own.                                                               *)
MCNoOccurrence == {"SIZE"}
============================================================================
