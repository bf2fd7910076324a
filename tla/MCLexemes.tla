----------------------------- MODULE MCLexemes -----------------------------
(* Numbers and string literals for checking Lexemes. *)
EXTENDS Lexemes, Sequences

CONSTANTS RawBound, FragmentBound

(* Instances for what the constants are made of: of no text and no literal. *)
AnyFinite(token) == TRUE
Numbers == INSTANCE MCNumberToken
             WITH opts <- profile, Texts <- {}, Profiles <- {}, Finite <- AnyFinite,
                  MAX_SAFE_DIGITS <- <<>>
Strings == INSTANCE StringSpelling
             WITH opts <- profile, at <- offset, out <- codes, result <- verdict,
                  Profiles <- {}, Literals <- {}

MCMaxSafeDigits == Numbers!MCMaxSafeDigits
MCFinite(token) == Numbers!MCFinite(token)
MCTexts == Numbers!MCTexts
MCProfiles == Numbers!MCProfiles

Fragments ==
    {Strings!U(unit) : unit \in {65, 55357, 56832, 56319, 57343, 65534, 64976}}
    \cup {Strings!Encode(c) : c \in {65, 233, 65533, 65535, 131070, 1114111,
                                     55296}}        \* the last a surrogate in UTF-8
    \cup {<<193, 129>>, <<224, 129, 129>>,          \* overlong forms of A
          <<195>>, <<169>>,                         \* halves of Encode(233)
          <<34>>, <<92>>, <<92, 110>>, <<92, 117, 68, 56>>, <<31>>, <<10>>}

MCLiterals == {<<34>> \o Strings!FlattenSeq(f) \o end :
                 f \in Strings!BoundedSeq(Fragments, FragmentBound), end \in {<<>>, <<34>>}}
MCLiteralProfiles == {Rfc8785, Ijson}

----------------------------------------------------------------------------
(* No notation moves a number across the profile: what is refused, and as    *)
(* what, depends on the exact value of the token alone, however far its      *)
(* exponent is out of range; and a token beyond the doubles is reported      *)
(* under the rule of the profile it breaks first.                            *)
VerdictIsExact == Numbers!VerdictIsExact
============================================================================
