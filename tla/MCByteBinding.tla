--------------------------- MODULE MCByteBinding ---------------------------
(***************************************************************************)
(* ByteBinding for TLC, with the budget and the ceiling of the source.  The *)
(* core is one that looks at every byte: a document without a fault has its *)
(* bytes in ascending order as its canonical form, and each with one is     *)
(* refused for a name or token of its own.  Those end, escaped, below, at   *)
(* and above the budget, and in every phase of a character of four bytes.   *)
(***************************************************************************)
EXTENDS ByteBinding

MCFault == 0

Plain1 == [bytes |-> 1, esc |-> <<1>>]
Quotation == [bytes |-> 1, esc |-> <<1, 1>>]
Control == [bytes |-> 1, esc |-> <<1, 1, 1, 1, 1>>]
Emoji == [bytes |-> 4, esc |-> <<4>>]
Of(c, n) == [i \in 1 .. n |-> c]

MCTexts == << Of(Plain1, 94), Of(Plain1, 95), Of(Plain1, 96), Of(Plain1, 200),
              Of(Control, 18), Of(Control, 19), Of(Control, 90),
              Of(Plain1, 1) \o Of(Emoji, 24), Of(Plain1, 2) \o Of(Emoji, 24),
              Of(Plain1, 3) \o Of(Emoji, 24), Of(Emoji, 24), Of(Quotation, 48) >>
MCVariants == << "DuplicateMember", "NonIntegerNumber", "UnsafeInteger", "NonFiniteNumber" >>

Faulty == << <<>>, <<0>>, <<0, 0>>, <<0, 1>>, <<1, 0>>, <<0, 0, 0>>, <<0, 0, 1>>, <<0, 1, 0>>,
             <<1, 0, 0>>, <<0, 1, 1>>, <<1, 0, 1>>, <<1, 1, 0>> >>
Which(s) == CHOOSE i \in DOMAIN Faulty : Faulty[i] = s

MCOutcome(s) ==
    IF s # <<>> /\ MCFault \notin ToSet(s)
    THEN [class |-> "bytes", bytes |-> SortSeq(s, <)]
    ELSE [class |-> "payload",
          refusal |-> [variant |-> MCVariants[(Which(s) % 4) + 1], number |-> UsizeDigits,
                       text |-> MCTexts[Which(s)]]]
=============================================================================
