--------------------------- MODULE MCTraceReader ---------------------------
(* Members, sizes and limits for checking TraceReader. *)
EXTENDS TraceReader

MCLimits == [input_bytes |-> 7, events |-> 3, native_calls |-> 3,
             native_output_bytes |-> 4, capture_bytes |-> 20, capture_files |-> 20]

MCExpected(n) == 1

E1 == [is |-> "event", id |-> 1]
E2 == [is |-> "event", id |-> 2]
Odd(is) == [is |-> is, id |-> 0]

(* Events that fit, the same with other rows, none, bad ones and too many. *)
EventFiles == {[rows |-> r] : r \in {<<E1>>, <<E1, E2>>, <<E1, Odd("foreign")>>,
                                     <<Odd("blank")>>, <<Odd("malformed")>>, <<>>,
                                     <<E1, E2, E1>>, <<E1, E2, E1, E2>>}}

Summary(text, discloses) == [text |-> text, discloses |-> discloses]
Summaries == {Summary(1, TRUE), Summary(2, TRUE), Summary(3, FALSE)}

Stating(rows, summary) ==
    [good |-> TRUE, shaped |-> TRUE, derived |-> rows,
     files |-> [events |-> [rows |-> rows], summary |-> summary]]

Manifests == {Stating(<<E1>>, Summary(1, TRUE)), Stating(<<E1, E2>>, Summary(1, TRUE)),
              Stating(<<E1>>, Summary(3, FALSE)), Stating(<<>>, Summary(1, TRUE)),
              Stating(<<E1, Odd("foreign")>>, Summary(1, TRUE)),
              Stating(<<Odd("blank")>>, Summary(1, TRUE)),
              [Stating(<<E1>>, Summary(1, TRUE)) EXCEPT !.derived = <<E2>>],
              [Stating(<<E1>>, Summary(1, TRUE)) EXCEPT !.good = FALSE],
              [Stating(<<E1>>, Summary(1, TRUE)) EXCEPT !.shaped = FALSE]}

MCContents == [manifest |-> Manifests, events |-> EventFiles, summary |-> Summaries]

(* A byte for each row, two for a manifest or for the third summary, three for a *)
(* manifest that is not admitted, one for the others.                          *)
MCSize(content) ==
    IF content \in EventFiles THEN Len(content.rows)
    ELSE IF content \in {m \in Manifests : ~m.good} THEN 3
    ELSE IF content \in Manifests \cup {Summary(3, FALSE)} THEN 2 ELSE 1
============================================================================
