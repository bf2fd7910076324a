--------------------------- MODULE NumberGrammar ---------------------------
(* What a number is, by the grammar of JSON, and where one ends.             *)
EXTENDS NumberToken

(* The parts of a number. *)
IsRun(t) == t # <<>> /\ t \in Seq(Digit)
IsWholePart(t)    == IsRun(t) /\ (t[1] = "0" => Len(t) = 1)
IsFractionPart(t) == t = <<>> \/ (t[1] = "." /\ IsRun(Tail(t)))
IsExponentPart(t) ==
    \/ t = <<>>
    \/ /\ t[1] \in {"e", "E"}
       /\ \/ IsRun(Tail(t))
          \/ Len(t) > 2 /\ t[2] \in {"+", "-"} /\ IsRun(SubSeq(t, 3, Len(t)))

IsNumber(t) ==
    LET body == IF t # <<>> /\ t[1] = "-" THEN Tail(t) ELSE t
    IN  \E i, j \in 0..Len(body) :
          /\ i <= j
          /\ IsWholePart(SubSeq(body, 1, i))
          /\ IsFractionPart(SubSeq(body, i + 1, j))
          /\ IsExponentPart(SubSeq(body, j + 1, Len(body)))

(* Every text that can still become a number does so with one more digit.    *)
CanBecomeNumber(t) == IsNumber(t) \/ IsNumber(Append(t, "0"))

----------------------------------------------------------------------------
(* A token is the longest prefix that can still become a number, and it is   *)
(* refused as Syntax, at the end of that prefix, exactly when that is not    *)
(* one yet.                                                                  *)
ScanIsMaximal ==
    answer.status \in {"number", "refused"} =>
      LET longest == SubSeq(text, 1, Max({i \in 0..Len(text) :
                                            CanBecomeNumber(SubSeq(text, 1, i))}))
      IN  IF IsNumber(longest)
          THEN /\ answer.status = "refused" => answer.class # "Syntax"
               /\ answer.token = longest
          ELSE answer = [status |-> "refused", class |-> "Syntax", offset |-> Len(longest)]
============================================================================
