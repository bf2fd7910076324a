--------------------------- MODULE MCNumberToken ---------------------------
(***************************************************************************)
(* Numbers for checking NumberToken, and the exact arithmetic it is         *)
(* compared with.  The double is scaled down with the safe-integer bound:   *)
(* it has a significand of 4 bits, so that integers are exact below 16 as   *)
(* they are below 2^53 in the code, and it overflows at 10^4.               *)
(***************************************************************************)
EXTENDS NumberGrammar

CONSTANT RawBound   \* how long the texts get that need not be numbers

MCMaxSafeDigits == <<"1", "6">>
SafeBound == 16       \* MAX_SAFE_DIGITS as a number
OverflowBound == 10000

RawAlphabet == {"-", "+", ".", "e", "E", "0", "7", "x"}
MantissaDigits == {"0", "1", "5", "6"}
ExponentDigits == {"0", "1", "2", "9"}

MCProfiles == {Rfc8785, Ijson, IjsonIntegers, [Rfc8785 EXCEPT !.integers_only = TRUE]}
MCIjson == {Ijson}

(* The JSON grammar of a number, by parts. *)
Runs(digits, n) == UNION {[1..k -> digits] : k \in 1..n}
Wholes(digits, n)    == {<<"0">>} \cup {w \in Runs(digits, n) : w[1] # "0"}
Fractions(digits, n) == {<<>>} \cup {<<".">> \o f : f \in Runs(digits, n)}
Exponents(digits, n) ==
    {<<>>} \cup {<<"e">> \o sign \o x : sign \in {<<>>, <<"+">>, <<"-">>},
                                        x \in Runs(digits, n)}

(* Numbers whose runs of digits have at most n digits. *)
Numbers(mantissa, exponent, n) ==
    {s \o w \o f \o x : s \in {<<>>, <<"-">>}, w \in Wholes(mantissa, n),
                        f \in Fractions(mantissa, n), x \in Exponents(exponent, n)}

MCNumbers == Numbers(MantissaDigits, ExponentDigits, 2)
MCRawTexts == BoundedSeq(RawAlphabet, RawBound)
MCTexts == MCNumbers \cup MCRawTexts

----------------------------------------------------------------------------
(* The value of a token, exactly: significand * 10^power.                   *)

ValueOf(digits) == FoldLeft(LAMBDA v, d : v * 10 + DigitValue[d], 0, digits)

Exact(token) ==
    LET body     == SelectSeq(token, LAMBDA c : c \notin {"+", "-", "."})
        split    == Cut(body, {"e", "E"})
        point    == SelectInSeq(Cut(token, {"e", "E"}).before, LAMBDA c : c = ".")
        places   == IF point = 0 THEN 0 ELSE Len(Cut(token, {"e", "E"}).before) - point
        negative == Contains(Cut(token, {"e", "E"}).after, "-")
    IN  [significand |-> ValueOf(split.before),
         power |-> (IF negative THEN -1 ELSE 1) * ValueOf(split.after) - places]

(* Powers beyond this are decided by the sign: significands have 4 digits.  *)
FarPower == 6

(* x.significand * 10^x.power >= bound, for a small positive bound. *)
AtLeast(x, bound) ==
    /\ x.significand > 0
    /\ IF x.power >= 0
       THEN x.power >= FarPower \/ x.significand * 10 ^ x.power >= bound
       ELSE -x.power < FarPower /\ x.significand >= bound * 10 ^ (-x.power)

IsWhole(x) ==
    \/ x.significand = 0
    \/ x.power >= 0
    \/ -x.power < FarPower /\ x.significand % 10 ^ (-x.power) = 0

MCFinite(token) == ~AtLeast(Exact(token), OverflowBound)

(* The refusal the profile's rules call for, decided on the exact value. *)
ExactFault(token, policy) ==
    LET x == Exact(token)
    IN  CASE policy.integers_only /\ ~IsWhole(x) -> "NonIntegerNumber"
          [] policy.safe_integers /\ IsWhole(x) /\ AtLeast(x, SafeBound) -> "UnsafeInteger"
          [] OTHER -> IF AtLeast(x, OverflowBound) THEN "NonFiniteNumber" ELSE "none"

(* What serde_json_canonicalizer prints for a token: the nearest double, a   *)
(* tie going to the even significand.  Doubles are whole from SafeBound \div *)
(* 2 on, and the last half unit below SafeBound rounds up to it.             *)
Rounded(token) ==
    LET x == Exact(token)
        doubled == [x EXCEPT !.significand = 2 * @]
    IN  [integer |-> IsWhole(x) \/ AtLeast(x, SafeBound \div 2),
         unsafe  |-> AtLeast(doubled, 2 * SafeBound - 1),
         finite  |-> TRUE]

----------------------------------------------------------------------------
(* No notation moves a number across the profile: what is refused, and as    *)
(* what, depends on the exact value of the token alone, however far its      *)
(* exponent is out of range; and a token beyond the doubles is reported      *)
(* under the rule of the profile it breaks first.                            *)
VerdictIsExact ==
    answer.status \in {"number", "refused"} /\ IsNumber(text) =>
      LET fault == ExactFault(text, opts)
      IN  answer = IF fault = "none" THEN [status |-> "number", token |-> text]
                   ELSE [status |-> "refused", class |-> fault, token |-> text]

(* A document the profile admits is admitted again in its canonical form:    *)
(* what the delegate prints for a token, the double nearest to it, breaks no *)
(* rule of the profile that the token itself kept.                           *)
CanonicalReadmitted ==
    answer.status = "number" => NumberFault(Rounded(answer.token), opts) = "none"

============================================================================
