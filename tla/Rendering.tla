----------------------------- MODULE Rendering -----------------------------
(***************************************************************************)
(* The message of a refusal (error.rs), by its length in bytes, as          *)
(* operators on the refusal.                                                *)
(*                                                                          *)
(* A character is what its two encodings are: bytes, how many it has, and   *)
(* esc, how many each character of its escaped form has.  A number in a     *)
(* message is its count of digits.                                          *)
(***************************************************************************)
EXTENDS Naturals, SequencesExt

CONSTANTS RENDER_BUDGET,  \* bytes of a document's text in a message
          UsizeDigits,    \* digits of the largest usize
          LongestReason   \* bytes of the longest reason in the source

ASSUME RenderingAssumption ==
    {RENDER_BUDGET, UsizeDigits, LongestReason} \subseteq Nat \ {0}

-----------------------------------------------------------------------------
\* The place of each boundary between characters.
UpTo(widths) ==
    LET upTo[n \in 0 .. Len(widths)] == IF n = 0 THEN 0 ELSE upTo[n - 1] + widths[n]
    IN  upTo
Sum(widths) == UpTo(widths)[Len(widths)]
Width(text) == Sum([i \in DOMAIN text |-> text[i].bytes])

\* The characters of the escaped text, between its quotes, by their widths.
Quote == <<1>>
Escaped(text) == Quote \o FlattenSeq([i \in DOMAIN text |-> text[i].esc]) \o Quote

CharBoundaries(widths) == {UpTo(widths)[n] : n \in 0 .. Len(widths)}

End(widths) == Max({i \in CharBoundaries(widths) : i <= RENDER_BUDGET} \cup {0})

SaturatingSub(a, b) == IF a < b THEN 0 ELSE a - b

\* The digits of what a usize can hold.
Usize(n) == \E d \in 1 .. UsizeDigits : n < 10 ^ d
Digits(n) == CHOOSE d \in 1 .. UsizeDigits : n < 10 ^ d /\ (d = 1 \/ n >= 10 ^ (d - 1))

\* shown: bytes of the escaped text that are written; elided: the number written.
Whole(text) == [clipped |-> FALSE, shown |-> Sum(Escaped(text)), elided |-> 0,
                length |-> Sum(Escaped(text))]

\* "... [", the number, " bytes elided]"
Cut(text) == LET end == End(Escaped(text))
                 elided == SaturatingSub(Width(text), end)
             IN  [clipped |-> TRUE, shown |-> end, elided |-> elided,
                  length |-> end + 5 + Digits(elided) + 14]

\* Mutant: the text is measured before it is escaped.
MeasuredRaw(text) == IF Width(text) <= RENDER_BUDGET THEN Whole(text) ELSE Cut(text)

Clipped(text) == IF Sum(Escaped(text)) <= RENDER_BUDGET THEN Whole(text) ELSE Cut(text)

-----------------------------------------------------------------------------
\* The refusals with the bytes of their wording, the numbers and the text they carry.
Worded == [Syntax          |-> 23, TrailingContent  |-> 46, DuplicateMember |-> 33,
           StringNotScalar |-> 65, UnsafeInteger    |-> 39, NonIntegerNumber |-> 54,
           NonFiniteNumber |-> 40, TooDeep          |-> 48, TooLarge        |-> 41]

OfText == {"DuplicateMember", "UnsafeInteger", "NonIntegerNumber", "NonFiniteNumber"}
OfReason == {"Syntax", "StringNotScalar"}
HowMany == [v \in DOMAIN Worded |-> IF v \in {"TooDeep", "TooLarge"} THEN 2
                                    ELSE IF v \in OfText \ {"DuplicateMember"} THEN 0
                                    ELSE 1]

Characters == [bytes : Nat, esc : Seq(Nat)]
Refusal(e) == /\ e \in [variant : DOMAIN Worded, number : 1 .. UsizeDigits, text : Seq(Characters)]
              /\ Usize(Width(e.text))

\* e: the variant, the digits of its numbers, and its name or token.
Display(e) ==
    LET fragment == Clipped(e.text)
        prose == Worded[e.variant] + HowMany[e.variant] * e.number
    IN  IF e.variant \in OfText
        THEN [fragment EXCEPT !.length = prose + fragment.length]
        ELSE [clipped |-> FALSE, shown |-> 0, elided |-> 0,
              length |-> IF e.variant \in OfReason THEN prose + LongestReason ELSE prose]

\* The longest message with the wording of a variant, whatever text it refuses.
Longest(variant) == Worded[variant] + HowMany[variant] * UsizeDigits
                    + (IF variant \in OfText THEN RENDER_BUDGET + 5 + UsizeDigits + 14
                       ELSE IF variant \in OfReason THEN LongestReason ELSE 0)
=============================================================================
