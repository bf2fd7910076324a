----------------------------- MODULE StringScan -----------------------------
(***************************************************************************)
(* One string literal, byte by byte: Parser::string, Parser::escape and     *)
(* Parser::hex4 (src/src/parse.rs).  The literal is what the parser finds   *)
(* from an opening quote on; offsets count from that quote.                 *)
(*                                                                          *)
(* A byte is a number.  What comes out is the sequence of code points that  *)
(* String holds.                                                            *)
(***************************************************************************)
EXTENDS Options, Integers, Sequences, SequencesExt

CONSTANTS
    Literals,   \* what may follow an opening quote, the quote included
    Profiles    \* the options the parser runs under

Byte == 0..255
(* What the constants have to satisfy. *)
LiteralsFit ==
    /\ \A l \in Literals : l \in Seq(Byte) /\ l # <<>> /\ l[1] = 34
    /\ Profiles \subseteq Policy

Quote == 34
Backslash == 92
LetterU == 117

HighSurrogate == 55296..56319   \* D800..DBFF
LowSurrogate  == 56320..57343   \* DC00..DFFF

ArabicNoncharacter == 64976..65007   \* FDD0..FDEF
IsNoncharacterBmp(code) == code \in {65534, 65535} \cup ArabicNoncharacter
IsNoncharacter(code) == code % 65536 \in {65534, 65535} \/ code \in ArabicNoncharacter

----------------------------------------------------------------------------
(* core::str::from_utf8, by the table of well-formed UTF-8 sequences.       *)

Width(lead) ==
    CASE lead \in 0..127   -> 1
      [] lead \in 194..223 -> 2
      [] lead \in 224..239 -> 3
      [] lead \in 240..244 -> 4
      [] OTHER             -> 0

SecondByte(lead) ==
    CASE lead = 224 -> 160..191     \* no overlong form
      [] lead = 237 -> 128..159     \* no surrogate
      [] lead = 240 -> 144..191     \* no overlong form
      [] lead = 244 -> 128..143     \* nothing past 10FFFF
      [] OTHER      -> 128..191

IsUtf8Char(bs) ==
    /\ Len(bs) = Width(bs[1])
    /\ Len(bs) > 1 => bs[2] \in SecondByte(bs[1])
    /\ \A i \in 3..Len(bs) : bs[i] \in 128..191

CodeOf(bs) ==
    LET low(i) == bs[i] % 64
    IN  CASE Len(bs) = 1 -> bs[1]
          [] Len(bs) = 2 -> (bs[1] % 32) * 64 + low(2)
          [] Len(bs) = 3 -> ((bs[1] % 16) * 64 + low(2)) * 64 + low(3)
          [] Len(bs) = 4 -> (((bs[1] % 8) * 64 + low(2)) * 64 + low(3)) * 64 + low(4)

(* The characters of a run, or none of them: ok is FALSE if one is ill-formed. *)
FromUtf8(chunk) ==
    LET from[i \in 1..(Len(chunk) + 1)] ==
          LET n == Width(chunk[i])
              c == SubSeq(chunk, i, i + n - 1)
          IN  IF i > Len(chunk) THEN [ok |-> TRUE, chars |-> <<>>]
              ELSE IF n = 0 \/ i + n > Len(chunk) + 1 \/ ~IsUtf8Char(c)
              THEN [ok |-> FALSE, chars |-> <<>>]
              ELSE [from[i + n] EXCEPT !.chars = <<CodeOf(c)>> \o @]
    IN  from[1]

----------------------------------------------------------------------------
VARIABLES bytes, opts, at, out, result

vars == <<bytes, opts, at, out, result>>

Init ==
    /\ bytes \in Literals
    /\ opts \in Profiles
    /\ at = 1
    /\ out = <<>>
    /\ result = [status |-> "scanning"]

Scanning == result.status = "scanning"
Unread == at < Len(bytes)
Next8(i) == IF i < Len(bytes) THEN bytes[i + 1] ELSE -1   \* peek, -1 for None

NotScalarHere(offset) ==
    /\ result' = [status |-> "refused", class |-> "StringNotScalar", offset |-> at]
    /\ UNCHANGED <<bytes, opts, at, out>>
NotScalar(offset) ==
    /\ result' = [status |-> "refused", class |-> "StringNotScalar", offset |-> offset]
    /\ UNCHANGED <<bytes, opts, at, out>>

Push(codes, after) ==
    /\ out' = out \o codes
    /\ at' = after
    /\ UNCHANGED <<bytes, opts, result>>

Forbidden(code) == opts.reject_noncharacters /\ IsNoncharacter(code)

(* The bytes up to the next quote, backslash or control character.          *)
Stops == {Quote, Backslash} \cup 0..31
RunEnd ==
    LET stop == SelectInSubSeq(bytes, at + 1, Len(bytes), LAMBDA b : b \in Stops)
    IN  IF stop = 0 THEN Len(bytes) ELSE stop - 1

Run ==
    /\ Scanning /\ Unread /\ Next8(at) \notin Stops
    /\ LET read == FromUtf8(SubSeq(bytes, at + 1, RunEnd))
       IN  IF read.ok /\ \A c \in ToSet(read.chars) : ~Forbidden(c)
           THEN Push(read.chars, RunEnd)
           ELSE NotScalar(at)

Unterminated == Scanning /\ ~Unread /\ NotScalar(0)

ControlCharacter == Scanning /\ Next8(at) \in 0..31 /\ NotScalar(at)

CloseQuote ==
    /\ Scanning /\ Next8(at) = Quote
    /\ at' = at + 1
    /\ result' = [status |-> "string"]
    /\ UNCHANGED <<bytes, opts, out>>

----------------------------------------------------------------------------
(* Parser::escape.                                                          *)

AtEscape == Scanning /\ Next8(at) = Backslash

Simple == [b \in {Quote, Backslash, 47, 98, 102, 110, 114, 116} |->
             CASE b = 98 -> 8 [] b = 102 -> 12 [] b = 110 -> 10 [] b = 114 -> 13 [] b = 116 -> 9
               [] OTHER -> b]

CutEscape == AtEscape /\ Next8(at + 1) = -1 /\ NotScalar(at)

UnknownEscape ==
    /\ AtEscape
    /\ Next8(at + 1) \notin {-1, LetterU} \cup DOMAIN Simple
    /\ result' = [status |-> "refused", class |-> "Syntax", offset |-> at + 2]
    /\ UNCHANGED <<bytes, opts, at, out>>

SimpleEscape ==
    /\ AtEscape
    /\ Next8(at + 1) \in DOMAIN Simple
    /\ Push(<<Simple[Next8(at + 1)]>>, at + 2)

Nibble(b) == CASE b \in 48..57  -> b - 48
               [] b \in 97..102 -> b - 87
               [] b \in 65..70  -> b - 55
               [] OTHER         -> -1

(* Parser::hex4 from offset i: the code unit, or -1 for an error.           *)
Hex4(i) ==
    LET digit(k) == Nibble(bytes[i + k])
    IN  IF i + 4 > Len(bytes) \/ \E k \in 1..4 : digit(k) = -1 THEN -1
        ELSE ((digit(1) * 16 + digit(2)) * 16 + digit(3)) * 16 + digit(4)

(* The code an escape at offset start names and where it ends; -1 if none.   *)
Escaped(start) ==
    LET unit   == Hex4(start + 2)
        low    == Hex4(start + 8)
        follow == Next8(start + 6) = Backslash /\ Next8(start + 7) = LetterU
    IN  CASE unit \in HighSurrogate /\ follow /\ low \in LowSurrogate ->
               [code |-> 65536 + (unit - 55296) * 1024 + (low - 56320), after |-> start + 12]
          [] unit \in HighSurrogate /\ ~(follow /\ low \in LowSurrogate) ->
               [code |-> -1, after |-> start]
          [] unit \in LowSurrogate -> [code |-> -1, after |-> start]
          [] OTHER -> [code |-> unit, after |-> start + 6]

UnicodeEscape ==
    /\ AtEscape /\ Next8(at + 1) = LetterU
    /\ LET e == Escaped(at)
       IN  IF e.code = -1 \/ Forbidden(e.code)
           THEN NotScalar(at)
           ELSE Push(<<e.code>>, e.after)

Next == \/ Run \/ Unterminated \/ ControlCharacter \/ CloseQuote
        \/ CutEscape \/ UnknownEscape \/ SimpleEscape \/ UnicodeEscape

Spec == Init /\ [][Next]_vars /\ WF_vars(Next)
============================================================================
