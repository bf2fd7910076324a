------------------------------ MODULE GoWriter ------------------------------
(***************************************************************************)
(* The pinned Go writer (src/interop/go-jcs/source/jsoncanonicalizer/        *)
(* jsoncanonicalizer.go, Transform): it parses as it writes, keeps each      *)
(* object's members in a sorted list, and stops at the first error.          *)
(*                                                                          *)
(* It reads the same lexemes as JsonParser.  It never looks at depth, size   *)
(* or profile, takes a scalar token to be whatever stands before a comma, a  *)
(* closing bracket or whitespace, and lets strings pass that are not         *)
(* sequences of Unicode scalar values.                                       *)
(***************************************************************************)
EXTENDS MemberOrder, FiniteSets

CONSTANT Names    \* the strings a lexeme may be read as

VARIABLES
    jsonData,   \* the document
    index,      \* how many lexemes have been consumed
    call,       \* what the innermost parse function does next
    frames,     \* the containers being read: what each has written so far
    outcome     \* what Transform returns

vars == <<jsonData, index, call, frames, outcome>>

NewFrame(kind) == [kind |-> kind, next |-> FALSE, name |-> <<>>, items |-> <<>>, list |-> <<>>]

Start(document) ==
    /\ jsonData = document
    /\ index = 0
    /\ call = "root"
    /\ frames = <<>>
    /\ outcome = [status |-> "writing"]

----------------------------------------------------------------------------
Ended == index = Len(jsonData)
Sees(kind) == ~Ended /\ jsonData[index + 1].kind = kind
Top == frames[Len(frames)]

(* setError: every loop ends, and Transform returns the first error. *)
SetError ==
    /\ outcome' = [status |-> "failed"]
    /\ call' = "done"
    /\ UNCHANGED <<jsonData, index, frames>>

(* scan() and testNextNonWhiteSpaceChar() skip whitespace before they look. *)
SkipWhiteSpace ==
    /\ call \in {"root", "element", "array", "object", "name", "colon", "rest"}
    /\ Sees("ws")
    /\ index' = index + 1
    /\ UNCHANGED <<jsonData, call, frames, outcome>>

(* parseArray or parseObject starts, with nothing written yet. *)
Enter(kind) ==
    /\ frames' = Append(frames, NewFrame(kind))
    /\ index' = index + 1
    /\ call' = kind
    /\ UNCHANGED <<jsonData, outcome>>

(* The members already in the list that key does not come before: the search  *)
(* from the front passes exactly these.                                      *)
Passed(list, key) ==
    Cardinality({i \in 1..Len(list) :
        \A j \in 1..i : ~Before(key, SortKey(list[j].name))})

(* lexicographicallyPrecedes reports an equal key among those it passes. *)
DuplicateKey(list, key) ==
    \E i \in 1..Passed(list, key) : SortKey(list[i].name) = key

InsertedLast(list, member) == Append(list, member)
Inserted(list, member) ==
    InsertAt(list, Passed(list, SortKey(member.name)) + 1, member)

(* A value is complete: it is written where its container has got to. *)
Give(value, outer) ==
    IF outer = <<>>
    THEN /\ call' = "rest"
         /\ frames' = <<>>
         /\ outcome' = [status |-> "writing", value |-> value]
    ELSE LET top == outer[Len(outer)]
         IN  IF top.kind = "array"
             THEN /\ frames' = [outer EXCEPT ![Len(outer)].items = Append(@, value)]
                  /\ call' = "array"
                  /\ UNCHANGED outcome
             ELSE IF DuplicateKey(top.list, SortKey(top.name))
                  THEN /\ call' = "done"
                       /\ outcome' = [status |-> "failed"]
                       /\ UNCHANGED frames
                  ELSE /\ frames' = [outer EXCEPT ![Len(outer)].list =
                                       Inserted(@, Member(top.name, value))]
                       /\ call' = "object"
                       /\ UNCHANGED outcome

----------------------------------------------------------------------------
(* The document is an array, or it has to be an object. *)
Root ==
    /\ call = "root"
    /\ ~Sees("ws")
    /\ IF Sees("openArray") THEN Enter("array")
       ELSE IF Sees("openObject") THEN Enter("object")
       ELSE SetError

(* parseElement *)
Nested ==
    /\ call = "element"
    /\ \/ Sees("openArray")  /\ Enter("array")
       \/ Sees("openObject") /\ Enter("object")

(* parseQuotedString: what it makes of a string lexeme.  Bytes that are not    *)
(* UTF-8 and surrogates that pair wrongly may pass, as some other string.     *)
QuotedString(lexeme) ==
    CASE lexeme.fault = "none"            -> {lexeme.name}
      [] lexeme.fault = "StringNotScalar" -> Names
      [] OTHER                            -> {}

ElementString ==
    /\ call = "element"
    /\ Sees("str")
    /\ \/ /\ \E name \in QuotedString(jsonData[index + 1]) : Give(<<"str", name>>, frames)
          /\ index' = index + 1
          /\ UNCHANGED jsonData
       \/ /\ jsonData[index + 1].fault # "none"
          /\ SetError

(* parseSimpleType: the token runs to the next comma, closing bracket or      *)
(* whitespace, and has to be a literal or something ParseFloat accepts, which *)
(* some tokens are that JSON does not know.  A document that ends in a token  *)
(* ends too early.                                                           *)
Delimiters == {"comma", "closeArray", "closeObject", "ws"}

TokenEnd ==
    LET ends == {i \in (index + 1)..Len(jsonData) : jsonData[i].kind \in Delimiters}
    IN  IF ends = {} THEN 0 ELSE CHOOSE i \in ends : \A j \in ends : i <= j

SimpleValues(lexeme) ==
    CASE lexeme.kind = "word" -> {<<"word", lexeme.word>>}
      [] lexeme.kind = "num"  -> IF lexeme.class.finite THEN {<<"num", lexeme.class>>} ELSE {}
      [] lexeme.kind = "bad"  -> {<<"num", "lenient">>}
      [] OTHER                -> {}

SimpleType ==
    /\ call = "element"
    /\ ~\E kind \in {"ws", "openArray", "openObject", "str"} : Sees(kind)
    /\ \/ /\ TokenEnd = index + 2
          /\ \E value \in SimpleValues(jsonData[index + 1]) : Give(value, frames)
          /\ index' = index + 1
          /\ UNCHANGED jsonData
       \/ /\ TokenEnd = index + 2 => \/ jsonData[index + 1].kind = "bad"
                                    \/ SimpleValues(jsonData[index + 1]) = {}
          /\ SetError

(* parseArray and parseObject: the loop ends at its own closing bracket.       *)
CloseContainer ==
    /\ call \in {"array", "object"}
    /\ Sees(IF call = "array" THEN "closeArray" ELSE "closeObject")
    /\ LET value == IF Top.kind = "array" THEN <<"array", Top.items>>
                                          ELSE <<"object", Top.list>>
       IN  Give(value, SubSeq(frames, 1, Len(frames) - 1))
    /\ index' = index + 1
    /\ UNCHANGED jsonData

(* Another round of the loop: a comma, but for the first, and the element. *)
Continue ==
    /\ call \in {"array", "object"}
    /\ ~Sees("ws")
    /\ ~Sees(IF call = "array" THEN "closeArray" ELSE "closeObject")
    /\ IF Ended \/ (Top.next /\ ~Sees("comma"))
       THEN SetError
       ELSE /\ index' = IF Top.next THEN index + 1 ELSE index
            /\ frames' = [frames EXCEPT ![Len(frames)].next = TRUE]
            /\ call' = IF call = "array" THEN "element" ELSE "name"
            /\ UNCHANGED <<jsonData, outcome>>

MemberName ==
    /\ call = "name"
    /\ ~Sees("ws")
    /\ \/ /\ Sees("str")
          /\ \E name \in QuotedString(jsonData[index + 1]) :
               frames' = [frames EXCEPT ![Len(frames)].name = name]
          /\ index' = index + 1
          /\ call' = "colon"
          /\ UNCHANGED <<jsonData, outcome>>
       \/ /\ Sees("str") => jsonData[index + 1].fault # "none"
          /\ SetError

Colon ==
    /\ call = "colon"
    /\ ~Sees("ws")
    /\ IF Sees("colon")
       THEN /\ index' = index + 1
            /\ call' = "element"
            /\ UNCHANGED <<jsonData, frames, outcome>>
       ELSE SetError

(* Only whitespace may follow the root. *)
Rest ==
    /\ call = "rest"
    /\ ~Sees("ws")
    /\ IF Ended
       THEN /\ outcome' = [status |-> "written", value |-> outcome.value]
            /\ call' = "done"
            /\ UNCHANGED <<jsonData, index, frames>>
       ELSE SetError

Next ==
    \/ SkipWhiteSpace \/ Root \/ Nested \/ ElementString \/ SimpleType
    \/ CloseContainer \/ Continue \/ MemberName \/ Colon \/ Rest

============================================================================
