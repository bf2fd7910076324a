--------------------------- MODULE CanonicalForm ---------------------------
(***************************************************************************)
(* The canonical form of an admitted value (src/src/delegate.rs and the      *)
(* serializer it hands the value to): object members in their order,         *)
(* everything else as it was read.                                           *)
(*                                                                          *)
(* How a number and a string are spelled in the output is left out, both     *)
(* writers are taken to spell one value one way.                             *)
(***************************************************************************)
EXTENDS MemberOrder

RECURSIVE Canonical(_)
Canonical(node) ==
    CASE node[1] = "array" ->
           <<"array", [i \in 1..Len(node[2]) |-> Canonical(node[2][i])]>>
      [] node[1] = "object" ->
           <<"object", SortSeq([i \in 1..Len(node[2]) |-> Member(node[2][i], Canonical(node[3][i]))],
                               LAMBDA m, n : Before(SortKey(m.name), SortKey(n.name)))>>
      [] OTHER -> node
============================================================================
