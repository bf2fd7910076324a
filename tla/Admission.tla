----------------------------- MODULE Admission -----------------------------
(***************************************************************************)
(* What admission promises (src/src/lib.rs, admit_with, and the crate's      *)
(* README): one call gives one answer.  A document that denotes a value the  *)
(* options allow is answered with that value; any other is refused and no    *)
(* value comes with it.  Nothing is repaired on the way.                     *)
(***************************************************************************)
CONSTANTS
    Inputs,           \* the documents
    Policies,         \* the options a call may run under
    Denotes(_, _)     \* the values a document may be admitted as: {} or one

VARIABLES input, opts, answer

vars == <<input, opts, answer>>

Init ==
    /\ input \in Inputs
    /\ opts \in Policies
    /\ answer = [status |-> "pending"]

Admit ==
    /\ answer.status = "pending"
    /\ \E node \in Denotes(input, opts) :
          answer' = [status |-> "admitted", node |-> node]
    /\ UNCHANGED <<input, opts>>

Reject ==
    /\ answer.status = "pending"
    /\ Denotes(input, opts) = {}
    /\ answer' = [status |-> "refused"]
    /\ UNCHANGED <<input, opts>>

Spec == Init /\ [][Admit \/ Reject]_vars /\ WF_vars(Admit \/ Reject)
============================================================================
