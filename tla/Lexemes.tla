------------------------------ MODULE Lexemes ------------------------------
(***************************************************************************)
(* The two lexemes that are read character by character.  The parser stands *)
(* at the start of a number (NumberToken) or of a string literal            *)
(* (StringScan); the two share nothing but the options, and a behaviour is   *)
(* of one of them.                                                          *)
(***************************************************************************)
EXTENDS Options

CONSTANTS
    MAX_SAFE_DIGITS, I64_MAX, USIZE_MAX, Finite(_), Texts, Profiles,  \* of numbers
    Literals, LiteralProfiles                                         \* of literals

VARIABLES
    profile,                        \* the options the parser runs under
    text, answer,                   \* the number
    bytes, offset, codes, verdict   \* the literal

Token == INSTANCE NumberGrammar WITH opts <- profile
Literal == INSTANCE StringSpelling
             WITH opts <- profile, at <- offset, out <- codes, result <- verdict,
                  Profiles <- LiteralProfiles

ASSUME WidthAssumption == Token!WidthsFit
ASSUME LiteralAssumption == Literal!LiteralsFit

numberVars == <<text, answer>>
literalVars == <<bytes, offset, codes, verdict>>

NoNumber == text = <<>> /\ answer = [status |-> "none"]
NoLiteral == bytes = <<>> /\ offset = 0 /\ codes = <<>> /\ verdict = [status |-> "none"]

LexemeInit == \/ Token!Init /\ NoLiteral
              \/ Literal!Init /\ NoNumber

LexemeNext == \/ Token!Next /\ UNCHANGED literalVars
              \/ Literal!Next /\ UNCHANGED numberVars

LexemeSpec == LexemeInit /\ [][LexemeNext]_<<profile, numberVars, literalVars>>

----------------------------------------------------------------------------
(* A token is the longest prefix that can still become a number, and it is   *)
(* refused as Syntax, at the end of that prefix, exactly when that is not    *)
(* one yet.                                                                  *)
ScanIsMaximal == Token!ScanIsMaximal

(* A literal is accepted exactly when a quote ends the longest sequence of    *)
(* characters it spells, and its value is that sequence: no spelling, raw,    *)
(* escaped or as a surrogate pair, brings in a code point the profile         *)
(* forbids or loses one it allows.                                            *)
LiteralIsExact == Literal!LiteralIsExact

(* A refusal names the fault: everything before its offset spells             *)
(* characters, and the fault lies in the escape that starts there or in the   *)
(* raw run that does.  A literal without an end is reported at its quote, an  *)
(* escape JSON does not have behind its letter.                               *)
OffsetNamesFault == Literal!OffsetNamesFault
============================================================================
