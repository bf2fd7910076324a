--------------------------- MODULE StringSpelling ---------------------------
(***************************************************************************)
(* What a string literal means: a literal is a quote, spellings of Unicode  *)
(* scalar values and a quote.                                               *)
(***************************************************************************)
EXTENDS StringScan

(* \u and four hex digits of a code unit. *)
HexDigit(n) == IF n < 10 THEN 48 + n ELSE 87 + n
U(unit) == <<92, 117, HexDigit(unit \div 4096), HexDigit((unit \div 256) % 16),
             HexDigit((unit \div 16) % 16), HexDigit(unit % 16)>>

(* UTF-8, and the ways of leaving a byte sequence that only look like it.    *)
Encode(c) ==
    IF c < 128        THEN <<c>>
    ELSE IF c < 2048  THEN <<192 + c \div 64, 128 + (c % 64)>>
    ELSE IF c < 65536 THEN <<224 + c \div 4096, 128 + ((c \div 64) % 64), 128 + (c % 64)>>
    ELSE <<240 + c \div 262144, 128 + ((c \div 4096) % 64),
           128 + ((c \div 64) % 64), 128 + (c % 64)>>

----------------------------------------------------------------------------
Scalar(c) == c \in Nat /\ c <= 1114111 /\ c \notin HighSurrogate \cup LowSurrogate
Permitted(c) ==
    /\ Scalar(c)
    /\ opts.reject_noncharacters => c % 65536 < 65534 /\ c \notin ArabicNoncharacter

(* A code point above FFFF in UTF-16. *)
Pair(c) == U(55296 + (c - 65536) \div 1024) \o U(56320 + (c % 1024))

LowerHex(bs) == [i \in DOMAIN bs |-> IF bs[i] \in 65..70 THEN bs[i] + 32 ELSE bs[i]]

(* bs is one of the ways of writing c inside a literal. *)
Spells(bs, c) ==
    \/ bs = Encode(c) /\ c >= 32 /\ c \notin {Quote, Backslash}
    \/ Len(bs) = 2 /\ bs[1] = Backslash /\ bs[2] \in DOMAIN Simple /\ c = Simple[bs[2]]
    \/ c <= 65535 /\ LowerHex(bs) = U(c)
    \/ c > 65535 /\ LowerHex(bs) = Pair(c)

(* The permitted characters that the bytes from offset i on can spell; the    *)
(* candidates are only candidates, Spells decides.                            *)
Candidate(i, n) ==
    CASE n \in 1..4 /\ bytes[i + 1] # Backslash -> CodeOf(SubSeq(bytes, i + 1, i + n))
      [] n = 2 /\ bytes[i + 1] = Backslash /\ bytes[i + 2] \in DOMAIN Simple -> Simple[bytes[i + 2]]
      [] n = 6  -> Hex4(i + 2)
      [] n = 12 -> 65536 + (Hex4(i + 2) % 1024) * 1024 + (Hex4(i + 8) % 1024)
      [] OTHER  -> -1
SpelledAt(i) ==
    {n \in {1, 2, 3, 4, 6, 12} :
       /\ i + n <= Len(bytes)
       /\ Permitted(Candidate(i, n))
       /\ Spells(SubSeq(bytes, i + 1, i + n), Candidate(i, n))}

(* The longest sequence of characters spelled from the opening quote on, and  *)
(* the offsets at which one of them begins or ends.                           *)
Spelled ==
    LET from[i \in 1..Len(bytes)] ==
          IF SpelledAt(i) = {} THEN [codes |-> <<>>, cuts |-> {i}]
          ELSE LET n == CHOOSE n \in SpelledAt(i) : TRUE
               IN  [codes |-> <<Candidate(i, n)>> \o from[i + n].codes,
                    cuts  |-> {i} \cup from[i + n].cuts]
    IN  from[1]

----------------------------------------------------------------------------
(* A literal is accepted exactly when a quote ends the longest sequence of    *)
(* characters it spells, and its value is that sequence: no spelling, raw,    *)
(* escaped or as a surrogate pair, brings in a code point the profile         *)
(* forbids or loses one it allows.                                            *)
LiteralIsExact ==
    result.status \in {"string", "refused"} =>
      LET end == Max(Spelled.cuts)
      IN  IF Next8(end) = Quote
          THEN result.status = "string" /\ out = Spelled.codes /\ at = end + 1
          ELSE result.status = "refused"

(* A refusal names the fault: everything before its offset spells             *)
(* characters, and the fault lies in the escape that starts there or in the   *)
(* raw run that does.  A literal without an end is reported at its quote, an  *)
(* escape JSON does not have behind its letter.                               *)
OffsetNamesFault ==
    result.status = "refused" =>
      LET end == Max(Spelled.cuts)
      IN  CASE result.class = "Syntax" -> result.offset = end + 2 /\ Next8(end) = Backslash
            [] result.offset = 0 -> end = Len(bytes)
            [] OTHER -> /\ result.offset \in Spelled.cuts
                        /\ end < Len(bytes)
                        /\ \A i \in result.offset..(end - 1) : Next8(i) \notin Stops
============================================================================
