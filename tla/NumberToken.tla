---------------------------- MODULE NumberToken ----------------------------
(***************************************************************************)
(* One number, from its first byte to the answer: the scan of               *)
(* Parser::number (src/src/parse.rs) and the refusals of src/src/number.rs, *)
(* which are decided on the digits and never on a double.                   *)
(*                                                                          *)
(* Text is a sequence of one-character strings.  The widths are parameters: *)
(* MAX_SAFE_DIGITS stands for "9007199254740992", I64_MAX for the saturation *)
(* bound of the exponent and USIZE_MAX for the platform's word.             *)
(***************************************************************************)
EXTENDS Options, Integers, Sequences, SequencesExt

CONSTANTS
    MAX_SAFE_DIGITS,  \* 2^53 as decimal digits
    I64_MAX,          \* i64::MAX
    USIZE_MAX,        \* usize::MAX
    Finite(_),        \* whether a token parses to a finite double (std)
    Texts,            \* what the parser may find where a number starts
    Profiles          \* the options it runs under

Digit == {"0", "1", "2", "3", "4", "5", "6", "7", "8", "9"}

DigitValue == [d \in Digit |-> CHOOSE n \in 0..9 : d = ToString(n)]

(* What the constants have to satisfy. *)
WidthsFit ==
    /\ MAX_SAFE_DIGITS \in Seq(Digit)
    /\ I64_MAX \in Nat
    /\ USIZE_MAX \in Nat
    /\ Texts \subseteq Seq(STRING)
    /\ Profiles \subseteq Policy

----------------------------------------------------------------------------
(* Parser::number: i is the offset of the next character.                   *)

At(text, i, chars) == i < Len(text) /\ text[i + 1] \in chars

(* Parser::digits: the offset of the first character that is no digit. *)
AfterDigits(text, i) ==
    LET next == SelectInSubSeq(text, i + 1, Len(text), LAMBDA c : c \notin Digit)
    IN  IF next = 0 THEN Len(text) ELSE next - 1

AfterSign(text, i, signs) == IF At(text, i, signs) THEN i + 1 ELSE i

Stop(i) == [ok |-> FALSE, at |-> i]
Go(i)   == [ok |-> TRUE,  at |-> i]

IntegerPartAnyZero(text, i) ==
    IF At(text, i, Digit) THEN Go(AfterDigits(text, i)) ELSE Stop(i)
IntegerPart(text, i) ==
    CASE At(text, i, {"0"})         -> Go(i + 1)
      [] At(text, i, Digit \ {"0"}) -> Go(AfterDigits(text, i))
      [] OTHER                      -> Stop(i)

FractionPart(text, i) ==
    CASE ~At(text, i, {"."})       -> Go(i)
      [] At(text, i, {"."}) /\ At(text, i + 1, Digit)  -> Go(AfterDigits(text, i + 1))
      [] OTHER                     -> Stop(i + 1)

ExponentPart(text, i) ==
    LET j == AfterSign(text, i + 1, {"+", "-"})
    IN  CASE ~At(text, i, {"e", "E"})                   -> Go(i)
          [] At(text, i, {"e", "E"}) /\ At(text, j, Digit) -> Go(AfterDigits(text, j))
          [] OTHER                                      -> Stop(j)

(* Where the token ends, or where the scan stopped with a Syntax error. *)
Scan(text) ==
    LET whole    == IntegerPart(text, AfterSign(text, 0, {"-"}))
        fraction == FractionPart(text, whole.at)
        exponent == ExponentPart(text, fraction.at)
    IN  CASE ~whole.ok                  -> whole
          [] whole.ok /\ ~fraction.ok   -> fraction
          [] whole.ok /\ fraction.ok    -> exponent

----------------------------------------------------------------------------
(* number.rs: exponent_of, decompose, is_integer, is_unsafe_magnitude.      *)

(* i64 arithmetic that stops at its bounds. *)
SaturateWrapping(n) == ((n + I64_MAX + 1) % (2 * I64_MAX + 2)) - I64_MAX - 1
Saturate(n) == IF n > I64_MAX THEN I64_MAX
               ELSE IF n < -I64_MAX - 1 THEN -I64_MAX - 1 ELSE n

ExponentOf(text) ==
    LET signed == At(text, 0, {"+", "-"})
        digits == IF signed THEN Tail(text) ELSE text
        value  == FoldLeft(LAMBDA v, d : Saturate(Saturate(v * 10) + DigitValue[d]),
                           0, digits)
    IN  IF At(text, 0, {"-"}) THEN Saturate(-value) ELSE value

(* What precedes and what follows the first character in chars. *)
Cut(text, chars) ==
    LET i == SelectInSeq(text, LAMBDA c : c \in chars)
    IN  IF i = 0 THEN [before |-> text, after |-> <<>>]
        ELSE [before |-> SubSeq(text, 1, i - 1), after |-> SubSeq(text, i + 1, Len(text))]

(* The token is digits * 10^exp10, with no leading and no trailing zero.    *)
Decompose(token) ==
    LET body     == IF At(token, 0, {"-"}) THEN Tail(token) ELSE token
        split    == Cut(body, {"e", "E"})
        exponent == ExponentOf(split.after)
        mantissa == Cut(split.before, {"."})
        digits   == mantissa.before \o mantissa.after
        nonzero  == {i \in 1..Len(digits) : digits[i] # "0"}
        last     == Max(nonzero)
        exp10    == Saturate(exponent - Len(mantissa.after))
    IN  IF nonzero = {}
        THEN [digits |-> <<>>, exp10 |-> exp10]
        ELSE [digits |-> SubSeq(digits, Min(nonzero), last),
              exp10  |-> Saturate(exp10 + (Len(digits) - last))]

IsInteger(d) == d.digits = <<>> \/ d.exp10 >= 0

(* Whether text >= bound in the order of strings of one length. *)
NotBelow(text, bound) ==
    \/ text = bound
    \/ \E i \in 1..Len(bound) :
         /\ DigitValue[text[i]] > DigitValue[bound[i]]
         /\ \A j \in 1..(i - 1) : text[j] = bound[j]

IsUnsafeMagnitude(d) ==
    LET width  == Len(d.digits) + d.exp10
        padded == d.digits \o [i \in 1..d.exp10 |-> "0"]
    IN  /\ d.digits # <<>>
        /\ d.exp10 >= 0
        /\ \/ width > USIZE_MAX
           \/ width > Len(MAX_SAFE_DIGITS)
           \/ width = Len(MAX_SAFE_DIGITS) /\ NotBelow(padded, MAX_SAFE_DIGITS)

Classify(token) ==
    LET d == Decompose(token)
    IN  [integer |-> IsInteger(d), unsafe |-> IsUnsafeMagnitude(d), finite |-> Finite(token)]

----------------------------------------------------------------------------
VARIABLES text, opts, answer

vars == <<text, opts, answer>>

Init ==
    /\ text \in Texts
    /\ opts \in Profiles
    /\ answer = [status |-> "unread"]

(* number(): the token is scanned, kept as written, and checked. *)
ReadNumber ==
    LET scan  == Scan(text)
        token == SubSeq(text, 1, scan.at)
        fault == NumberFault(Classify(token), opts)
    IN  /\ answer.status = "unread"
        /\ answer' = CASE ~scan.ok -> [status |-> "refused", class |-> "Syntax",
                                       offset |-> scan.at]
                       [] scan.ok /\ fault # "none" ->
                            [status |-> "refused", class |-> fault, token |-> token]
                       [] scan.ok /\ fault = "none" ->
                            [status |-> "number", token |-> token]
        /\ UNCHANGED <<text, opts>>

Next == ReadNumber

Spec == Init /\ [][Next]_vars /\ WF_vars(Next)
============================================================================
