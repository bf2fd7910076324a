----------------------------- MODULE JsonParser -----------------------------
(***************************************************************************)
(* Admission of one document: the byte cap of admit_with and the recursive  *)
(* descent of src/src/parse.rs, one step per decision of the parser.        *)
(*                                                                          *)
(* The document is a sequence of lexemes, each standing for one byte of     *)
(* input as far as offsets and the byte cap go.  A string lexeme carries    *)
(* what string() finds out about it, a number lexeme what number() and      *)
(* number::check find out; "bad" is a byte, or a run of bytes, with which   *)
(* no value can start ("tru", "-", "?").                                    *)
(*                                                                          *)
(* The call stack of value/array/object is explicit: open is one frame for  *)
(* each container being read, built the values each of them holds so far,   *)
(* and pc the point the innermost call has reached.                         *)
(***************************************************************************)
EXTENDS Options, Sequences, FiniteSets

CONSTANTS
    Names,      \* decoded member names and string values
    Spellings,  \* the ways one decoded string is written on the wire
    Inputs,     \* the documents a caller may submit
    Requests    \* the options a caller may ask for, before the depth clamp

PunctKinds == {"openObject", "closeObject", "openArray", "closeArray", "comma", "colon", "ws", "bad"}
StringFaults == {"none", "Syntax", "StringNotScalar"}

Lexeme ==
    [kind : PunctKinds]
      \cup [kind : {"word"}, word : {"null", "true", "false"}]
      \cup [kind : {"str"}, name : Names, spelling : Spellings,
            fault : StringFaults, nonchar : BOOLEAN]
      \cup [kind : {"num"}, class : NumberClass]

Request == [limit : Nat, opts : Policy]

ASSUME InputsAssumption == Inputs \subseteq Seq(Lexeme)
ASSUME RequestsAssumption == Requests \subseteq Request

(* The options admit_with runs under: the requested depth went through the   *)
(* builder, which saturates it.                                              *)
Configured(request) == WithMaxDepth(request.opts, request.limit)

VARIABLES
    input,   \* the document
    opts,    \* the options in force
    at,      \* Parser.at: how many lexemes have been consumed
    pc,      \* what the innermost call does next
    open,    \* the containers being read, outermost first
    built,   \* built[i]: the values open[i] holds so far
    result   \* what admission returns

vars == <<input, opts, at, pc, open, built, result>>

Frame == [kind : {"array", "object"}, seen : SUBSET Names, names : Seq(Names)]

PcValues == {"length", "value", "first", "name", "colon", "next", "end", "done"}

ErrorClasses == {"TooLarge", "Syntax", "TrailingContent", "TooDeep",
                 "DuplicateMember", "StringNotScalar",
                 "UnsafeInteger", "NonIntegerNumber", "NonFiniteNumber"}

----------------------------------------------------------------------------
(* Reading the input.                                                       *)

AtEnd == at = Len(input)

(* The current byte starts a lexeme of this kind. *)
Peek(kind) == at < Len(input) /\ input[at + 1].kind = kind

Depth == Len(open)

Innermost == open[Len(open)]

InArray  == Depth > 0 /\ Innermost.kind = "array"
InObject == Depth > 0 /\ Innermost.kind = "object"

(* enter(): the level a container about to open would sit at is past the cap. *)
DepthExhaustedLate == Depth > opts.max_depth
DepthExhausted == Depth >= opts.max_depth

(* The seen set: the decoded name, however it is spelled, came before. *)
RepeatsAsSpelled(lexeme) ==
    lexeme.spelling = "plain" /\ lexeme.name \in Innermost.seen
Repeats(lexeme) == lexeme.name \in Innermost.seen

(* string() on the current lexeme: the fault it stops at, or "none".  A      *)
(* noncharacter, when the profile refuses one, comes before lexeme.fault.    *)
StringFaultNoProfile(lexeme) == lexeme.fault
StringFault(lexeme) ==
    IF lexeme.nonchar /\ opts.reject_noncharacters THEN "StringNotScalar"
                                                   ELSE lexeme.fault

----------------------------------------------------------------------------
(* Returning from the calls.                                                *)

(* return Err(class), with the offset the variant carries, if any. *)
Refuse(class) ==
    /\ result' = [status |-> "refused", class |-> class]
    /\ pc' = "done"
    /\ UNCHANGED <<input, opts, at, open, built>>

RefuseAt(class) ==
    /\ result' = [status |-> "refused", class |-> class, offset |-> at]
    /\ pc' = "done"
    /\ UNCHANGED <<input, opts, at, open, built>>

(* value() returns node to the containers above it: document(), when none    *)
(* is open, or the loop of the innermost array or object.                    *)
Return(node, above, values) ==
    IF above = <<>>
    THEN /\ built' = <<node>>
         /\ open' = <<>>
         /\ pc' = "end"
    ELSE /\ built' = [values EXCEPT ![Len(values)] = Append(@, node)]
         /\ open' = above
         /\ pc' = "next"

(* A value that is one lexeme long. *)
ReturnScalar(node) ==
    /\ Return(node, open, built)
    /\ at' = at + 1
    /\ UNCHANGED <<input, opts, result>>

----------------------------------------------------------------------------
Init ==
    /\ input \in Inputs
    /\ \E request \in Requests : opts = Configured(request)
    /\ at = 0
    /\ pc = "length"
    /\ open = <<>>
    /\ built = <<>>
    /\ result = [status |-> "parsing"]

(* admit_with: the length is checked before the first byte is looked at. *)
CheckLength ==
    /\ pc = "length"
    /\ IF TooLong(opts, Len(input))
       THEN Refuse("TooLarge")
       ELSE /\ pc' = "value"
            /\ UNCHANGED <<input, opts, at, open, built, result>>

(* Every point the parser stops at between lexemes is behind a skip_ws. *)
SkipWs ==
    /\ pc \in PcValues \ {"length", "done"}
    /\ Peek("ws")
    /\ at' = at + 1
    /\ UNCHANGED <<input, opts, pc, open, built, result>>

(* value(): nothing, or a byte no value starts with. *)
NoValue ==
    /\ pc = "value"
    /\ AtEnd \/ \E kind \in {"closeObject", "closeArray", "comma", "colon", "bad"} : Peek(kind)
    /\ RefuseAt("Syntax")

Word ==
    /\ pc = "value"
    /\ Peek("word")
    /\ ReturnScalar(<<"word", input[at + 1].word>>)

Number ==
    /\ pc = "value"
    /\ Peek("num")
    /\ LET class == input[at + 1].class
           fault == NumberFault(class, opts)
       IN  IF fault = "none" THEN ReturnScalar(<<"num", class>>)
                             ELSE Refuse(fault)

StringValue ==
    /\ pc = "value"
    /\ Peek("str")
    /\ LET lexeme == input[at + 1]
           fault  == StringFault(lexeme)
       IN  IF fault = "none" THEN ReturnScalar(<<"str", lexeme.name>>)
                             ELSE RefuseAt(fault)

(* array() and object(): enter() charges the level before anything is read. *)
Open(opener, kind) ==
    /\ pc = "value"
    /\ Peek(opener)
    /\ IF DepthExhausted
       THEN RefuseAt("TooDeep")
       ELSE /\ open' = Append(open, [kind |-> kind, seen |-> {}, names |-> <<>>])
            /\ built' = Append(built, <<>>)
            /\ at' = at + 1
            /\ pc' = "first"
            /\ UNCHANGED <<input, opts, result>>

OpenArray == Open("openArray", "array")
OpenObject == Open("openObject", "object")

(* Whether the current lexeme closes the innermost container. *)
AtAnyCloser == Depth > 0 /\ (Peek("closeArray") \/ Peek("closeObject"))
AtCloser == \/ InArray  /\ Peek("closeArray")
            \/ InObject /\ Peek("closeObject")

(* The container is complete: its node goes to the container around it. *)
Close ==
    LET outer  == SubSeq(open, 1, Depth - 1)
        values == built[Depth]
        node   == IF InObject THEN <<"object", Innermost.names, values>>
                              ELSE <<"array", values>>
    IN  /\ Return(node, outer, SubSeq(built, 1, Depth - 1))
        /\ at' = at + 1
        /\ UNCHANGED <<input, opts, result>>

(* Just inside a container: it is empty, or its loop starts. *)
CloseEmpty ==
    /\ pc = "first"
    /\ AtCloser
    /\ Close

StartLoop ==
    /\ pc = "first"
    /\ ~AtCloser
    /\ ~Peek("ws")
    /\ pc' = IF InObject THEN "name" ELSE "value"
    /\ UNCHANGED <<input, opts, at, open, built, result>>

(* A member name: read, decoded, and compared with the names before it.      *)
Named(frame, name) ==
    [kind  |-> frame.kind,
     seen  |-> frame.seen \cup {name},
     names |-> Append(frame.names, name)]

NoName ==
    /\ pc = "name"
    /\ ~Peek("ws")
    /\ ~Peek("str")
    /\ RefuseAt("Syntax")

MemberName ==
    /\ pc = "name"
    /\ Peek("str")
    /\ LET lexeme == input[at + 1]
           fault  == StringFault(lexeme)
       IN  CASE fault # "none" -> RefuseAt(fault)
             [] fault = "none" /\ Repeats(lexeme) ->
                  RefuseAt("DuplicateMember")
             [] fault = "none" /\ ~Repeats(lexeme) ->
                  /\ open' = [open EXCEPT ![Depth] = Named(@, lexeme.name)]
                  /\ at' = at + 1
                  /\ pc' = "colon"
                  /\ UNCHANGED <<input, opts, built, result>>

Colon ==
    /\ pc = "colon"
    /\ ~Peek("ws")
    /\ IF Peek("colon")
       THEN /\ at' = at + 1
            /\ pc' = "value"
            /\ UNCHANGED <<input, opts, open, built, result>>
       ELSE RefuseAt("Syntax")

(* After a value inside a container: a comma, the closer, or an error. *)
Comma ==
    /\ pc = "next"
    /\ Peek("comma")
    /\ at' = at + 1
    /\ pc' = IF InObject THEN "name" ELSE "value"
    /\ UNCHANGED <<input, opts, open, built, result>>

CloseFull ==
    /\ pc = "next"
    /\ AtCloser
    /\ Close

NoSeparator ==
    /\ pc = "next"
    /\ ~Peek("ws")
    /\ ~Peek("comma")
    /\ ~AtCloser
    /\ RefuseAt("Syntax")

(* document(): the value must be all there is. *)
EndDocument ==
    /\ pc = "end"
    /\ ~Peek("ws")
    /\ IF AtEnd
       THEN /\ result' = [status |-> "parsed", node |-> built[1]]
            /\ pc' = "done"
            /\ UNCHANGED <<input, opts, at, open, built>>
       ELSE RefuseAt("TrailingContent")

Next ==
    \/ CheckLength \/ SkipWs \/ NoValue \/ Word \/ Number \/ StringValue
    \/ OpenArray \/ OpenObject \/ CloseEmpty \/ StartLoop
    \/ NoName \/ MemberName \/ Colon \/ Comma \/ CloseFull \/ NoSeparator
    \/ EndDocument

(* The call runs on the caller's thread until it returns. *)
Spec == Init /\ [][Next]_vars /\ WF_vars(Next)

----------------------------------------------------------------------------
(* What TLC checks on small documents and JsonParserProofs proves.           *)

(* The state has the shape the code gives it: in particular the options in   *)
(* force never carry a depth cap above the ceiling, whatever was requested.  *)
TypeOK ==
    /\ input \in Seq(Lexeme)
    /\ opts \in Policy
    /\ at \in 0..Len(input)
    /\ pc \in PcValues
    /\ open \in Seq(Frame)
    /\ result.status \in {"parsing", "parsed", "refused"}
    /\ result.status = "refused" => result.class \in ErrorClasses
    /\ result.status = "parsing" <=> pc # "done"

IsOpener(lexeme) == lexeme.kind \in {"openArray", "openObject"}
IsCloser(lexeme) == lexeme.kind \in {"closeArray", "closeObject"}

Openers(document, n) == Cardinality({i \in 1..n : IsOpener(document[i])})
Closers(document, n) == Cardinality({i \in 1..n : IsCloser(document[i])})

(* The recursion of value/array/object is never deeper than the cap, nor     *)
(* than the ceiling sized against the stack (lib.rs, MAX_SUPPORTED_DEPTH).   *)
StackBounded == Depth <= opts.max_depth /\ Depth <= MAX_SUPPORTED_DEPTH

(* An admitted document was read to its end, its brackets balance, and no    *)
(* point of it, an empty container included, is nested past the cap.         *)
AdmittedNesting ==
    result.status = "parsed" =>
      /\ AtEnd
      /\ Openers(input, Len(input)) = Closers(input, Len(input))
      /\ \A n \in 0..Len(input) :
           /\ Closers(input, n) <= Openers(input, n)
           /\ Openers(input, n) <= Closers(input, n) + opts.max_depth

(* No object under construction holds two members whose decoded names are    *)
(* equal, and the set it is compared with is exactly the names it holds.     *)
Distinct(frame) ==
    /\ \A j, k \in 1..Len(frame.names) : frame.names[j] = frame.names[k] => j = k
    /\ frame.seen = {frame.names[j] : j \in 1..Len(frame.names)}

MembersDistinct == \A i \in 1..Depth : Distinct(open[i])
============================================================================
