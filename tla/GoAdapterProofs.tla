-------------------------- MODULE GoAdapterProofs --------------------------
(***************************************************************************)
(* The Go consumer for any documents, calls and commands, and for any        *)
(* serializer: what it emits is agreed, and is the admission of the whole    *)
(* document.                                                                *)
(*                                                                          *)
(* The parser runs inside the command, so its invariants are those of        *)
(* JsonParserProofs: they hold when the command starts, and a step of the    *)
(* command is a step of the parser.  What is left to show is that the two    *)
(* bounded reads lose nothing that matters: a document within the cap        *)
(* arrives as it is, a longer one arrives longer than the cap.               *)
(***************************************************************************)
EXTENDS GoAdapter, SequenceTheorems, TLAPS

Admit == INSTANCE JsonParserProofs WITH Inputs <- Documents, Requests <- {}

(* The options the call asks for. *)
Asked == WithMaxBytes(WithMaxDepth(Profiles[flags.profile], flags.depth), flags.size)

----------------------------------------------------------------------------
(* The parser of the adapter is the one JsonParserProofs is about.           *)
LEMMA DocumentsFit == Documents \subseteq Seq(Admit!Lexeme)
BY DocumentsAssumption
   DEF Parser!Lexeme, Admit!Lexeme, Parser!PunctKinds, Admit!PunctKinds,
       Parser!StringFaults, Admit!StringFaults, Parser!NumberClass, Admit!NumberClass

LEMMA ParserSteps == Parser!Next => Admit!Next
<1> USE DEF Parser!AtEnd, Admit!AtEnd, Parser!Peek, Admit!Peek, Parser!Depth, Admit!Depth,
            Parser!Refuse, Admit!Refuse, Parser!RefuseAt, Admit!RefuseAt
<1>1. Parser!CheckLength => Admit!CheckLength
  BY DEF Parser!CheckLength, Admit!CheckLength, Parser!TooLong, Admit!TooLong
<1>2. Parser!SkipWs => Admit!SkipWs
  BY DEF Parser!SkipWs, Admit!SkipWs, Parser!PcValues, Admit!PcValues
<1>3. Parser!NoValue => Admit!NoValue
  BY DEF Parser!NoValue, Admit!NoValue
<1>4. \A node : Parser!ReturnScalar(node) => Admit!ReturnScalar(node)
  BY DEF Parser!ReturnScalar, Admit!ReturnScalar, Parser!Return, Admit!Return
<1>5. Parser!Word => Admit!Word
  BY <1>4 DEF Parser!Word, Admit!Word
<1>6. Parser!Number => Admit!Number
  BY <1>4 DEF Parser!Number, Admit!Number, Parser!NumberFault, Admit!NumberFault
<1>7. Parser!StringValue => Admit!StringValue
  BY <1>4 DEF Parser!StringValue, Admit!StringValue, Parser!StringFault, Admit!StringFault
<1>8. Parser!OpenArray \/ Parser!OpenObject => Admit!OpenArray \/ Admit!OpenObject
  BY DEF Parser!OpenArray, Parser!OpenObject, Parser!Open, Parser!DepthExhausted,
         Admit!OpenArray, Admit!OpenObject, Admit!Open, Admit!DepthExhausted
<1>9. Parser!InObject = Admit!InObject /\ Parser!InArray = Admit!InArray
  BY DEF Parser!InObject, Admit!InObject, Parser!InArray, Admit!InArray,
         Parser!Innermost, Admit!Innermost
<1>10. Parser!AtCloser = Admit!AtCloser
  BY <1>9 DEF Parser!AtCloser, Admit!AtCloser
<1>11. Parser!Close => Admit!Close
  BY <1>9 DEF Parser!Close, Admit!Close, Parser!Return, Admit!Return,
              Parser!Innermost, Admit!Innermost
<1>12. Parser!CloseEmpty \/ Parser!CloseFull => Admit!CloseEmpty \/ Admit!CloseFull
  BY <1>10, <1>11 DEF Parser!CloseEmpty, Admit!CloseEmpty, Parser!CloseFull, Admit!CloseFull
<1>13. Parser!StartLoop \/ Parser!Comma \/ Parser!NoSeparator
         => Admit!StartLoop \/ Admit!Comma \/ Admit!NoSeparator
  BY <1>9, <1>10 DEF Parser!StartLoop, Admit!StartLoop, Parser!Comma, Admit!Comma,
                     Parser!NoSeparator, Admit!NoSeparator
<1>14. Parser!NoName \/ Parser!Colon => Admit!NoName \/ Admit!Colon
  BY DEF Parser!NoName, Admit!NoName, Parser!Colon, Admit!Colon
<1>15. Parser!MemberName => Admit!MemberName
  BY DEF Parser!MemberName, Admit!MemberName, Parser!StringFault, Admit!StringFault,
         Parser!Repeats, Admit!Repeats, Parser!Innermost, Admit!Innermost,
         Parser!Named, Admit!Named
<1>16. Parser!EndDocument => Admit!EndDocument
  BY DEF Parser!EndDocument, Admit!EndDocument
<1> QED
  BY <1>1, <1>2, <1>3, <1>5, <1>6, <1>7, <1>8, <1>12, <1>13, <1>14, <1>15, <1>16
     DEF Parser!Next, Admit!Next

(* What the lemmas of JsonParserProofs come to here: a step of the command     *)
(* keeps what they say of the parser, and a verdict is exact.                *)
Healthy == Admit!IInv /\ Admit!Sound /\ Admit!Faithful

LEMMA ParserKeeps == Healthy /\ Parser!Next => Healthy'
<1> SUFFICES ASSUME Healthy, Parser!Next PROVE Healthy'
  OBVIOUS
<1>1. [Admit!Next]_(Admit!vars)
  BY ParserSteps
<1>2. UNCHANGED <<input, opts>>
  BY <1>1, Admit!Given, DocumentsFit, DepthConstants, ByteConstants
<1>3. Admit!IInv'
  BY <1>1, Admit!StepInv, DocumentsFit, DepthConstants, ByteConstants DEF Healthy
<1>4. Admit!Sound'
  BY <1>1, Admit!SoundNext, DocumentsFit, DepthConstants, ByteConstants DEF Healthy
<1>5. Admit!Faithful'
  <2> SUFFICES ASSUME NEW target, Admit!Denotes(input', opts', target)
               PROVE  Admit!Toward(target)'
    BY DEF Admit!Faithful
  <2>1. Admit!Denotes(input, opts, target)
    BY <1>2
  <2>2. Admit!Toward(target)
    BY <2>1 DEF Healthy, Admit!Faithful
  <2> QED
    BY <1>1, <2>1, <2>2, Admit!TowardNext, DocumentsFit, DepthConstants, ByteConstants DEF Healthy
<1> QED BY <1>3, <1>4, <1>5 DEF Healthy

LEMMA ParserUnchanged ==
    ASSUME Healthy, UNCHANGED parser
    PROVE  Healthy'
<1>1. UNCHANGED <<input, opts, at, pc, open, built, result>>
  BY DEF parser
<1>2. [Admit!Next]_(Admit!vars)
  BY <1>1 DEF Admit!vars
<1>3. Admit!IInv'
  BY <1>2, Admit!StepInv, DocumentsFit, DepthConstants, ByteConstants DEF Healthy
<1>4. Admit!Sound'
  BY <1>2, Admit!SoundNext, DocumentsFit, DepthConstants, ByteConstants DEF Healthy
<1>5. Admit!Faithful'
  <2> SUFFICES ASSUME NEW target, Admit!Denotes(input', opts', target)
               PROVE  Admit!Toward(target)'
    BY DEF Admit!Faithful
  <2>1. Admit!Denotes(input, opts, target)
    BY <1>1
  <2>2. Admit!Toward(target)
    BY <2>1 DEF Healthy, Admit!Faithful
  <2> QED
    BY <1>2, <2>1, <2>2, Admit!TowardNext, DocumentsFit, DepthConstants, ByteConstants DEF Healthy
<1> QED BY <1>3, <1>4, <1>5 DEF Healthy

(* A parser that has only just been given a document. *)
LEMMA ParserStarts ==
    ASSUME input' \in Seq(Admit!Lexeme), opts' \in Policy,
           at' = 0, pc' = "length", open' = <<>>, built' = <<>>, result' = [status |-> "parsing"]
    PROVE  Healthy'
<1>1. Admit!Depth' = 0
  BY DEF Admit!Depth
<1>2. Len(input') \in Nat /\ opts'.max_depth \in Nat /\ opts' \in Admit!Policy
  BY DepthConstants DEF Policy, Admit!Policy
<1>3. Admit!TypeOK'
  BY <1>2 DEF Admit!TypeOK, Admit!PcValues
<1>4. Admit!Control' /\ Admit!MembersDistinct' /\ Admit!Depth' <= opts'.max_depth
  BY <1>1, <1>2 DEF Admit!Control, Admit!MembersDistinct
<1>5. Admit!Openers(input', 0) = 0 /\ Admit!Closers(input', 0) = 0
  BY Admit!NoBrackets, DocumentsFit, DepthConstants, ByteConstants
<1>6. Admit!Tracked'
  BY <1>1, <1>2, <1>5 DEF Admit!Tracked, Admit!Within
<1>7. Admit!IInv'
  BY <1>3, <1>4, <1>6 DEF Admit!IInv
<1>8. Admit!Sound'
  BY DEF Admit!Sound, Admit!Reading
<1>9. Admit!Faithful'
  BY DEF Admit!Faithful, Admit!Toward, Admit!Reading
<1> QED BY <1>7, <1>8, <1>9 DEF Healthy

----------------------------------------------------------------------------
(* The bounded reads, and the options they are paired with.                  *)
LEMMA BoundedRead ==
    ASSUME NEW S, NEW bytes \in Seq(S), NEW size \in Nat
    PROVE  /\ Bounded(bytes, size) \in Seq(S)
           /\ Len(bytes) <= size => Bounded(bytes, size) = bytes
           /\ Len(bytes) > size => Len(Bounded(bytes, size)) = size + 1
<1>1. Len(bytes) \in Nat
  OBVIOUS
<1>2. CASE Len(bytes) <= size
  <2>1. Bounded(bytes, size) = SubSeq(bytes, 1, Len(bytes))
    BY <1>1, <1>2 DEF Bounded
  <2>2. SubSeq(bytes, 1, Len(bytes)) = bytes
    OBVIOUS
  <2> QED BY <1>1, <1>2, <2>1, <2>2
<1>3. CASE Len(bytes) > size
  <2>1. Bounded(bytes, size) = SubSeq(bytes, 1, size + 1)
    BY <1>1, <1>3 DEF Bounded
  <2>2. SubSeq(bytes, 1, size + 1) \in Seq(S) /\ Len(SubSeq(bytes, 1, size + 1)) = size + 1
    BY <1>1, <1>3
  <2> QED BY <1>1, <1>3, <2>1, <2>2
<1> QED BY <1>1, <1>2, <1>3

LEMMA AskedFits ==
    ASSUME flags \in Flags, CapsValid, flags.profile \in DOMAIN Profiles
    PROVE  Asked \in Policy /\ Asked.max_bytes = flags.size /\ flags.size \in Nat
<1>1. flags.size \in Nat /\ flags.depth \in 0..MAX_SUPPORTED_DEPTH
  BY FlagsAssumption, DepthConstants, ByteConstants DEF CapsValid
<1>2. Rfc8785 \in Policy
  BY DepthConstants, ByteConstants DEF Rfc8785, Policy
<1>3. Ijson \in Policy
  BY <1>2 DEF Ijson, Policy
<1>4. IjsonIntegers \in Policy
  BY <1>3 DEF IjsonIntegers, Policy
<1>5. Profiles[flags.profile] \in Policy
  BY <1>2, <1>3, <1>4 DEF Profiles
<1>6. PICK base \in Policy : base = Profiles[flags.profile]
  BY <1>5
<1>7. WithMaxDepth(base, flags.depth) \in Policy
  BY <1>1, DepthConstants DEF WithMaxDepth, Policy
<1>8. PICK capped \in Policy : capped = WithMaxDepth(base, flags.depth)
  BY <1>7
<1>9. Asked = [capped EXCEPT !.max_bytes = flags.size]
  BY <1>6, <1>8 DEF Asked, WithMaxBytes
<1>10. Asked \in Policy /\ Asked.max_bytes = flags.size
  BY <1>1, <1>9 DEF Policy
<1> QED BY <1>1, <1>10

----------------------------------------------------------------------------
(* The invariant.                                                           *)

(* What was read, and when. *)
Given ==
    /\ document \in Documents /\ flags \in Flags
    /\ phase \in {"validate", "command", "write", "writing"} =>
         CapsValid /\ raw = Bounded(document, flags.size)

(* The command works on what was read, under the options of the call; of a    *)
(* document that is too long it has seen nothing but the length.              *)
Commanded ==
    phase = "command" =>
      /\ flags.profile \in DOMAIN Profiles
      /\ input = Bounded(raw, flags.size) /\ opts = Asked
      /\ Healthy
      /\ Len(input) > flags.size =>
           \/ pc = "length"
           \/ pc = "done" /\ result = [status |-> "refused", class |-> "TooLarge"]

(* The installed command answers for the whole document. *)
Verdict(r) ==
    /\ r.status \in {"accepted", "refused"}
    /\ r.status = "accepted" =>
         /\ Len(document) <= flags.size
         /\ \E node : Admit!Denotes(document, Asked, node) /\ r.value = Serialized(node)
    /\ r.status = "refused" =>
         /\ ~\E node : Admit!Denotes(document, Asked, node)
         /\ Len(document) > flags.size => r.class = "TooLarge"

Judged == command = "installed" /\ response # Nothing => Verdict(response)

(* Where the adapter is, and what it has by then. *)
Phased ==
    /\ command \in {"installed", "substituted"}
    /\ phase \in {"flags", "validate"} => response = Nothing
    /\ phase # "done" => answer = Nothing
    /\ phase \in {"write", "writing"} /\ ~flags.bare => response.status = "accepted"
    /\ phase \in {"validate", "command"} => ~flags.bare
    /\ response = Nothing \/ response.status \in {"accepted", "refused", "incoherent"}
    /\ outcome.status \in {"writing", "failed", "written"}

(* Where an answer comes from. *)
Final ==
    phase = "done" /\ ~flags.bare =>
      \/ answer = Error
      \/ response.status = "refused" /\ answer = Refused("raw-admission", response.class)
      \/ /\ response.status = "accepted"
         /\ answer.status = "refused" /\ answer.stage # "raw-admission"
      \/ /\ response.status = "accepted" /\ outcome.status = "written"
         /\ answer = Accepted("byte-agreement", outcome.value)
         /\ response.value = outcome.value

Inv == Given /\ Commanded /\ Judged /\ Phased /\ Final

----------------------------------------------------------------------------
LEMMA InvInit == Init => Inv
BY DEF Init, Inv, Given, Commanded, Judged, Phased, Final, Nothing, Writer!Start

(* Steps that leave the command and what it was given alone.                 *)
LEMMA GivenKept ==
    ASSUME Given, UNCHANGED <<document, flags, raw>>,
           phase' \in {"validate", "command", "write", "writing"} =>
             phase \in {"validate", "command", "write", "writing"}
    PROVE  Given'
BY DEF Given, CapsValid

LEMMA JudgedKept ==
    ASSUME Judged, UNCHANGED <<document, flags, command, response>>
    PROVE  Judged'
BY DEF Judged, Verdict, Asked, Nothing

LEMMA WriterEnds ==
    ASSUME outcome.status \in {"writing", "failed", "written"}, Writer!Next
    PROVE  outcome'.status \in {"writing", "failed", "written"}
<1>1. \A value, outer : Writer!Give(value, outer) =>
        outcome' = outcome \/ outcome'.status \in {"writing", "failed"}
  BY DEF Writer!Give
<1>2. Writer!SetError => outcome'.status = "failed"
  BY DEF Writer!SetError
<1>3. \A kind : Writer!Enter(kind) => outcome' = outcome
  BY DEF Writer!Enter
<1>4. CASE Writer!SkipWhiteSpace \/ Writer!Root \/ Writer!Nested
  BY <1>2, <1>3, <1>4 DEF Writer!SkipWhiteSpace, Writer!Root, Writer!Nested
<1>5. CASE Writer!ElementString \/ Writer!SimpleType \/ Writer!CloseContainer
  BY <1>1, <1>2, <1>5 DEF Writer!ElementString, Writer!SimpleType, Writer!CloseContainer
<1>6. CASE Writer!Continue \/ Writer!MemberName \/ Writer!Colon \/ Writer!Rest
  BY <1>2, <1>6 DEF Writer!Continue, Writer!MemberName, Writer!Colon, Writer!Rest
<1> QED BY <1>4, <1>5, <1>6 DEF Writer!Next

----------------------------------------------------------------------------
(* The steps.                                                               *)
LEMMA ReadInputKeeps == ASSUME Inv, ReadInput PROVE Inv'
<1> USE DEF Inv
<1>1. UNCHANGED <<document, flags, response, command, parser, writer>> /\ phase = "flags"
  BY DEF ReadInput
<1>2. response = Nothing /\ UNCHANGED outcome
  BY <1>1 DEF Phased, writer
<1>3. Judged'
  BY <1>1, JudgedKept
<1>4. CASE ~CapsValid
  <2>1. answer' = Error /\ phase' = "done" /\ UNCHANGED raw
    BY <1>4 DEF ReadInput, Emit
  <2>2. Given' /\ Commanded'
    BY <1>1, <2>1 DEF Given, Commanded
  <2>3. Phased' /\ Final'
    BY <1>1, <1>2, <2>1 DEF Phased, Final
  <2> QED BY <1>3, <2>2, <2>3
<1>5. CASE CapsValid
  <2>1. /\ raw' = Bounded(document, flags.size) /\ UNCHANGED answer
        /\ phase' = IF flags.bare THEN "write" ELSE "validate"
    BY <1>5 DEF ReadInput
  <2>2. Given' /\ Commanded'
    BY <1>1, <1>5, <2>1 DEF Given, Commanded, CapsValid
  <2>3. Phased' /\ Final'
    BY <1>1, <1>2, <2>1 DEF Phased, Final
  <2> QED BY <1>3, <2>2, <2>3
<1> QED BY <1>4, <1>5

LEMMA RawRead ==
    ASSUME Given, phase \in {"validate", "command", "write", "writing"}
    PROVE  /\ flags.size \in Nat
           /\ Bounded(raw, flags.size) \in Seq(Admit!Lexeme)
           /\ Len(document) <= flags.size => Bounded(raw, flags.size) = document
           /\ Len(document) > flags.size => Len(Bounded(raw, flags.size)) > flags.size
           /\ Len(document) \in Nat
<1>1. flags.size \in Nat
  BY FlagsAssumption, ByteConstants DEF Given, CapsValid
<1>2. document \in Seq(Admit!Lexeme) /\ raw = Bounded(document, flags.size)
  BY DocumentsFit DEF Given
<1>3. Len(document) \in Nat
  BY <1>2
<1>4. PICK S : S = Admit!Lexeme
  OBVIOUS
<1>5. /\ raw \in Seq(S)
      /\ Len(document) <= flags.size => raw = document
      /\ Len(document) > flags.size => Len(raw) = flags.size + 1
  BY <1>1, <1>2, <1>4, BoundedRead
<1>6. PICK sent : sent = Bounded(raw, flags.size)
  OBVIOUS
<1>7. /\ sent \in Seq(S)
      /\ Len(raw) <= flags.size => sent = raw
      /\ Len(raw) > flags.size => Len(sent) = flags.size + 1
  BY <1>1, <1>5, <1>6, BoundedRead
<1>8. Len(document) <= flags.size => sent = document
  BY <1>3, <1>5, <1>7
<1>9. Len(document) > flags.size => Len(sent) > flags.size
  <2>1. Len(document) > flags.size => Len(raw) = flags.size + 1 /\ Len(raw) > flags.size
    BY <1>1, <1>5
  <2>2. Len(document) > flags.size => Len(sent) = flags.size + 1
    BY <1>7, <2>1
  <2> QED BY <1>1, <2>2
<1> QED BY <1>1, <1>3, <1>4, <1>6, <1>7, <1>8, <1>9

LEMMA StartCommandKeeps == ASSUME Inv, StartCommand PROVE Inv'
<1> USE DEF Inv
<1>1. UNCHANGED <<document, flags, raw, response, command, writer>> /\ phase = "validate"
  BY DEF StartCommand
<1>2. response = Nothing /\ UNCHANGED outcome
  BY <1>1 DEF Phased, writer
<1>3. Judged'
  BY <1>1, JudgedKept
<1>4. CASE flags.profile \notin DOMAIN Profiles
  <2>1. answer' = Error /\ phase' = "done"
    BY <1>4 DEF StartCommand, Emit
  <2>2. Given' /\ Commanded'
    BY <1>1, <2>1 DEF Given, Commanded
  <2>3. Phased' /\ Final'
    BY <1>1, <1>2, <2>1 DEF Phased, Final
  <2> QED BY <1>3, <2>2, <2>3
<1>5. CASE flags.profile \in DOMAIN Profiles
  <2>1. /\ phase' = "command" /\ UNCHANGED answer
        /\ input' = Bounded(raw, flags.size)
        /\ opts' = Asked
        /\ at' = 0 /\ pc' = "length" /\ open' = <<>> /\ built' = <<>>
        /\ result' = [status |-> "parsing"]
    BY <1>5 DEF StartCommand, Asked
  <2>2. CapsValid /\ flags \in Flags
    BY <1>1 DEF Given
  <2>3. Asked \in Policy
    BY <1>5, <2>2, AskedFits
  <2>4. Bounded(raw, flags.size) \in Seq(Admit!Lexeme)
    BY <1>1, RawRead
  <2>5. Healthy'
    BY <2>1, <2>3, <2>4, ParserStarts
  <2>6. Given'
    BY <1>1, <2>1, GivenKept
  <2>7. Commanded'
    <3>1. Bounded(raw', flags'.size) = Bounded(raw, flags.size) /\ Asked' = Asked
      BY <1>1 DEF Asked
    <3> QED BY <1>1, <1>5, <2>1, <2>5, <3>1 DEF Commanded
  <2>8. Phased' /\ Final'
    BY <1>1, <1>2, <2>1 DEF Phased, Final
  <2> QED BY <1>3, <2>6, <2>7, <2>8
<1> QED BY <1>4, <1>5

(* A document past the cap is refused before it is looked at. *)
LEMMA LongRefused ==
    ASSUME Admit!Next, pc = "length", Admit!TooLong(opts, Len(input))
    PROVE  pc' = "done" /\ result' = [status |-> "refused", class |-> "TooLarge"]
<1>1. Admit!CheckLength
  BY DEF Admit!Next, Admit!SkipWs, Admit!NoValue, Admit!Word, Admit!Number, Admit!StringValue,
         Admit!OpenArray, Admit!OpenObject, Admit!Open, Admit!CloseEmpty, Admit!StartLoop,
         Admit!NoName, Admit!MemberName, Admit!Colon, Admit!Comma, Admit!CloseFull,
         Admit!NoSeparator, Admit!EndDocument
<1> QED BY <1>1 DEF Admit!CheckLength, Admit!Refuse

LEMMA CommandParsesKeeps == ASSUME Inv, CommandParses PROVE Inv'
<1> USE DEF Inv
<1>1. /\ phase = "command" /\ response = Nothing /\ Parser!Next
      /\ UNCHANGED <<document, flags, raw, phase, response, answer, command>>
      /\ UNCHANGED outcome
  BY DEF CommandParses, adapter, writer
<1>2. Admit!Next /\ UNCHANGED <<input, opts>>
  <2>1. Admit!Next
    BY <1>1, ParserSteps
  <2> QED BY <2>1, Admit!Given, DocumentsFit, DepthConstants, ByteConstants
<1>3. Healthy'
  BY <1>1, ParserKeeps DEF Commanded
<1>4. /\ flags.profile \in DOMAIN Profiles
      /\ input = Bounded(raw, flags.size) /\ opts = Asked
      /\ Len(input) > flags.size =>
           \/ pc = "length"
           \/ pc = "done" /\ result = [status |-> "refused", class |-> "TooLarge"]
  BY <1>1 DEF Commanded
<1>5. opts.max_bytes = flags.size /\ flags.size \in Nat
  BY <1>1, <1>4, AskedFits DEF Given
<1>6. Len(input') > flags'.size =>
        pc' = "done" /\ result' = [status |-> "refused", class |-> "TooLarge"]
  <2> SUFFICES ASSUME Len(input) > flags.size
               PROVE  pc' = "done" /\ result' = [status |-> "refused", class |-> "TooLarge"]
    BY <1>1, <1>2
  <2>1. Admit!TooLong(opts, Len(input))
    BY <1>5, ByteConstants DEF Admit!TooLong
  <2>2. CASE pc = "length"
    BY <1>2, <2>1, <2>2, LongRefused
  <2>3. CASE pc = "done" /\ result = [status |-> "refused", class |-> "TooLarge"]
    <3>1. UNCHANGED Admit!vars
      BY <1>2, <2>3, Admit!Halted, DocumentsFit, DepthConstants, ByteConstants
    <3> QED BY <2>3, <3>1 DEF Admit!vars
  <2> QED BY <1>4, <2>2, <2>3
<1>7. Given' /\ Judged'
  BY <1>1, GivenKept, JudgedKept
<1>8. Commanded'
  <2>1. Bounded(raw', flags'.size) = Bounded(raw, flags.size) /\ Asked' = Asked
    BY <1>1 DEF Asked
  <2> QED BY <1>1, <1>2, <1>3, <1>4, <1>6, <2>1 DEF Commanded
<1>9. Phased' /\ Final'
  BY <1>1 DEF Phased, Final
<1> QED BY <1>7, <1>8, <1>9

(* The parser, when it has returned, says of the whole document what the rules *)
(* say of it.                                                                *)
LEMMA VerdictStands ==
    ASSUME Inv, phase = "command", pc = "done"
    PROVE  /\ result.status = "parsed" =>
                /\ Len(document) <= flags.size
                /\ Admit!Denotes(document, Asked, result.node)
           /\ result.status # "parsed" =>
                /\ ~\E node : Admit!Denotes(document, Asked, node)
                /\ Len(document) > flags.size => result.class = "TooLarge"
<1> USE DEF Inv
<1>1. /\ input = Bounded(raw, flags.size) /\ opts = Asked /\ Healthy
      /\ flags.profile \in DOMAIN Profiles
      /\ Len(input) > flags.size =>
           result = [status |-> "refused", class |-> "TooLarge"]
  BY DEF Commanded
<1>2. /\ flags.size \in Nat /\ Len(document) \in Nat
      /\ Len(document) <= flags.size => input = document
      /\ Len(document) > flags.size => Len(input) > flags.size
  BY <1>1, RawRead
<1>3. \A node : Admit!Denotes(input, opts, node)
                   <=> result.status = "parsed" /\ result.node = node
  BY <1>1, Admit!Exact, DocumentsFit, DepthConstants, ByteConstants DEF Healthy
<1>4. Asked.max_bytes = flags.size
  BY <1>1, AskedFits DEF Given
<1>5. CASE Len(document) <= flags.size
  BY <1>1, <1>2, <1>3, <1>5
<1>6. CASE Len(document) > flags.size
  <2>1. result = [status |-> "refused", class |-> "TooLarge"]
    BY <1>1, <1>2, <1>6
  <2>2. Admit!TooLong(Asked, Len(document))
    BY <1>2, <1>4, <1>6, ByteConstants DEF Admit!TooLong
  <2>3. ~\E node : Admit!Denotes(document, Asked, node)
    BY <2>2 DEF Admit!Denotes
  <2> QED BY <1>2, <1>6, <2>1, <2>3
<1> QED BY <1>2, <1>5, <1>6

LEMMA CommandAnswersKeeps == ASSUME Inv, CommandAnswers PROVE Inv'
<1> USE DEF Inv
<1>1. /\ phase = "command" /\ response = Nothing
      /\ UNCHANGED <<document, flags, raw, phase, answer, command, parser, outcome>>
  BY DEF CommandAnswers, writer
<1>2. Given'
  BY <1>1, GivenKept
<1>3. Commanded'
  <2>1. Healthy'
    BY <1>1, ParserUnchanged DEF Commanded
  <2>2. /\ Bounded(raw', flags'.size) = Bounded(raw, flags.size) /\ Asked' = Asked
        /\ UNCHANGED <<input, opts, pc, result>>
    BY <1>1 DEF Asked, parser
  <2> QED BY <1>1, <2>1, <2>2 DEF Commanded
<1>4. Judged' /\ response'.status \in {"accepted", "refused", "incoherent"}
  <2>1. CASE command = "substituted" /\ response' \in Responses
    BY <1>1, <2>1, ResponsesAssumption DEF Judged
  <2>2. CASE /\ command = "installed" /\ result.status = "refused"
             /\ response' = [status |-> "refused", class |-> result.class]
    <3>1. pc = "done"
      BY <1>1, <2>2 DEF Commanded, Healthy, Admit!IInv, Admit!TypeOK
    <3>2. /\ ~\E node : Admit!Denotes(document, Asked, node)
          /\ Len(document) > flags.size => response'.class = "TooLarge"
      BY <1>1, <2>2, <3>1, VerdictStands
    <3> QED BY <1>1, <2>2, <3>2 DEF Judged, Verdict, Asked
  <2>3. CASE /\ command = "installed" /\ result.status = "parsed"
             /\ response' = [status |-> "accepted", value |-> Serialized(result.node)]
    <3>1. pc = "done"
      BY <1>1, <2>3 DEF Commanded, Healthy, Admit!IInv, Admit!TypeOK
    <3>2. /\ Len(document) <= flags.size
          /\ Admit!Denotes(document, Asked, result.node)
          /\ response'.value = Serialized(result.node)
      BY <1>1, <2>3, <3>1, VerdictStands
    <3> QED BY <1>1, <2>3, <3>2 DEF Judged, Verdict, Asked
  <2> QED BY <2>1, <2>2, <2>3 DEF CommandAnswers
<1>5. Phased' /\ Final'
  BY <1>1, <1>4 DEF Phased, Final
<1> QED BY <1>2, <1>3, <1>4, <1>5

LEMMA CommandStoppedKeeps == ASSUME Inv, CommandStopped PROVE Inv'
<1> USE DEF Inv
<1>1. /\ phase = "command" /\ phase' = "done" /\ answer' = Error
      /\ UNCHANGED <<document, flags, raw, response, command, outcome>>
  BY DEF CommandStopped, Emit, writer
<1>2. Given' /\ Judged' /\ Commanded'
  BY <1>1, GivenKept, JudgedKept DEF Commanded
<1>3. Phased' /\ Final'
  BY <1>1 DEF Phased, Final
<1> QED BY <1>2, <1>3

LEMMA ResponseKeeps == ASSUME Inv, Response PROVE Inv'
<1> USE DEF Inv
<1>1. /\ phase = "command" /\ response # Nothing /\ ~flags.bare
      /\ UNCHANGED <<document, flags, raw, response, command, outcome>>
  BY DEF Response, writer, Phased
<1>2. /\ response.status \in {"accepted", "refused", "incoherent"}
      /\ answer = Nothing
  BY <1>1 DEF Phased
<1>3. Judged'
  BY <1>1, JudgedKept
<1>4. CASE response.status = "refused"
  <2>1. answer' = Refused("raw-admission", response.class) /\ phase' = "done"
    BY <1>4 DEF Response, Emit
  <2> QED BY <1>1, <1>2, <1>3, <1>4, <2>1 DEF Given, Commanded, Phased, Final
<1>5. CASE response.status = "incoherent"
  <2>1. answer' = Error /\ phase' = "done"
    BY <1>5 DEF Response, Emit
  <2> QED BY <1>1, <1>2, <1>3, <2>1 DEF Given, Commanded, Phased, Final
<1>6. CASE response.status = "accepted" /\ ~RootIsContainer
  <2>1. answer' = Refused("go-root-domain", "ObjectOrArrayRequired") /\ phase' = "done"
    BY <1>6 DEF Response, Emit
  <2>2. answer'.status = "refused" /\ answer'.stage # "raw-admission"
    BY <2>1 DEF Refused
  <2> QED BY <1>1, <1>2, <1>3, <1>6, <2>1, <2>2 DEF Given, Commanded, Phased, Final
<1>7. CASE response.status = "accepted" /\ RootIsContainer
  <2>1. phase' = "write" /\ UNCHANGED answer
    BY <1>7 DEF Response
  <2>2. Given'
    BY <1>1, <2>1, GivenKept
  <2> QED BY <1>1, <1>2, <1>3, <1>7, <2>1, <2>2 DEF Commanded, Phased, Final
<1> QED BY <1>2, <1>4, <1>5, <1>6, <1>7

LEMMA StartWriterKeeps == ASSUME Inv, StartWriter PROVE Inv'
<1> USE DEF Inv
<1>1. /\ phase = "write" /\ phase' = "writing" /\ outcome'.status = "writing"
      /\ UNCHANGED <<document, flags, raw, response, answer, command>>
  BY DEF StartWriter
<1>2. Given' /\ Judged' /\ Commanded'
  BY <1>1, GivenKept, JudgedKept DEF Commanded
<1>3. Phased' /\ Final'
  BY <1>1 DEF Phased, Final
<1> QED BY <1>2, <1>3

LEMMA WritesKeeps == ASSUME Inv, Writes PROVE Inv'
<1> USE DEF Inv
<1>1. /\ phase = "writing" /\ Writer!Next
      /\ UNCHANGED <<document, flags, raw, phase, response, answer, command>>
  BY DEF Writes, adapter
<1>2. outcome'.status \in {"writing", "failed", "written"}
  BY <1>1, WriterEnds DEF Phased
<1>3. Given' /\ Judged' /\ Commanded'
  BY <1>1, GivenKept, JudgedKept DEF Commanded
<1>4. Phased' /\ Final'
  BY <1>1, <1>2 DEF Phased, Final
<1> QED BY <1>3, <1>4

LEMMA CompareKeeps == ASSUME Inv, Compare PROVE Inv'
<1> USE DEF Inv
<1>1. /\ phase = "writing" /\ phase' = "done"
      /\ UNCHANGED <<document, flags, raw, response, command, outcome>>
      /\ outcome.status \in {"failed", "written"}
  BY DEF Compare, Emit, writer, Phased
<1>2. Given' /\ Judged' /\ Commanded' /\ Phased'
  BY <1>1, GivenKept, JudgedKept DEF Commanded, Phased
<1>3. Final'
  <2> SUFFICES ASSUME ~flags.bare PROVE Final'
    BY <1>1 DEF Final
  <2>1. response.status = "accepted"
    BY <1>1 DEF Phased
  <2>2. \/ answer' = Refused("go-transform", "GoTransform")
        \/ answer' = Refused("byte-agreement", "CanonicalDisagreement")
        \/ /\ outcome.status = "written" /\ outcome.value = response.value
           /\ answer' = Accepted("byte-agreement", outcome.value)
    BY <1>1 DEF Compare, Emit, Agrees
  <2> QED BY <1>1, <2>1, <2>2 DEF Final, Refused
<1> QED BY <1>2, <1>3

LEMMA InvNext == Inv /\ [Next]_vars => Inv'
<1> SUFFICES ASSUME Inv, [Next]_vars PROVE Inv'
  OBVIOUS
<1>1. CASE UNCHANGED vars
  <2>1. UNCHANGED <<document, flags, raw, phase, response, answer, command, parser, outcome>>
    BY <1>1 DEF vars, adapter, writer
  <2>2. UNCHANGED <<input, opts, pc, result>> /\ Asked' = Asked
    BY <2>1 DEF parser, Asked
  <2>3. Given' /\ Judged' /\ Phased' /\ Final'
    BY <2>1, GivenKept, JudgedKept DEF Inv, Phased, Final
  <2>4. Commanded'
    <3>1. phase = "command" => Healthy'
      BY <2>1, ParserUnchanged DEF Inv, Commanded
    <3>2. Bounded(raw', flags'.size) = Bounded(raw, flags.size)
      BY <2>1
    <3> QED BY <2>1, <2>2, <3>1, <3>2 DEF Inv, Commanded
  <2> QED BY <2>3, <2>4 DEF Inv
<1> QED
  BY <1>1, ReadInputKeeps, StartCommandKeeps, CommandParsesKeeps, CommandAnswersKeeps,
     CommandStoppedKeeps, ResponseKeeps, StartWriterKeeps, WritesKeeps, CompareKeeps
     DEF Next, Adapter

LEMMA Invariant == Spec => []Inv
BY InvInit, InvNext, PTL DEF Spec

----------------------------------------------------------------------------
(* Bytes are only emitted when the writer has written the document that was    *)
(* read and the command, whichever it is, has answered the same               *)
(* (adapter.go, Transform).                                                   *)
THEOREM AgreedBytesOnly == Spec => []OnlyAgreedBytes
<1>1. Inv => OnlyAgreedBytes
  <2> SUFFICES ASSUME Inv, answer.status = "accepted", ~flags.bare
               PROVE  /\ outcome.status = "written" /\ answer.value = outcome.value
                      /\ response.status = "accepted" /\ response.value = answer.value
    BY DEF OnlyAgreedBytes
  <2>1. phase = "done"
    BY DEF Inv, Phased, Nothing
  <2> QED BY <2>1 DEF Inv, Final, Error, Refused, Accepted
<1> QED BY <1>1, Invariant, PTL

(* The installed command's yes and no are those of admission, for the whole    *)
(* document and the options of the call, whatever the two processes read of    *)
(* it (adapter.go, Transform; main.rs): bytes that are emitted are a            *)
(* serialization of the value the rules give the document, and a document is   *)
(* refused as not admitted only if they give it none.                          *)
AnswersForDocument ==
    command = "installed" /\ ~flags.bare =>
      /\ answer.status = "accepted" =>
           \E node : Admit!Denotes(document, Asked, node) /\ answer.value = Serialized(node)
      /\ answer.status = "refused" /\ answer.stage = "raw-admission" =>
           ~\E node : Admit!Denotes(document, Asked, node)

THEOREM AdmittedAsAWhole == Spec => []AnswersForDocument
<1>1. Inv => AnswersForDocument
  <2> SUFFICES ASSUME Inv, command = "installed", ~flags.bare,
                      answer.status \in {"accepted", "refused"}
               PROVE  /\ answer.status = "accepted" =>
                           \E node : /\ Admit!Denotes(document, Asked, node)
                                     /\ answer.value = Serialized(node)
                      /\ answer.status = "refused" /\ answer.stage = "raw-admission" =>
                           ~\E node : Admit!Denotes(document, Asked, node)
    BY DEF AnswersForDocument
  <2>1. phase = "done" /\ answer # Error
    BY DEF Inv, Phased, Nothing, Error
  <2>2. Judged /\ (response = Nothing => response.status \notin {"accepted", "refused"})
    BY DEF Inv, Nothing
  <2>3. CASE response.status = "refused" /\ answer = Refused("raw-admission", response.class)
    BY <2>2, <2>3 DEF Judged, Verdict, Refused
  <2>4. CASE answer.status = "refused" /\ answer.stage # "raw-admission"
    BY <2>4
  <2>5. CASE /\ response.status = "accepted" /\ response.value = outcome.value
             /\ answer = Accepted("byte-agreement", outcome.value)
    BY <2>2, <2>5 DEF Judged, Verdict, Accepted
  <2> QED BY <2>1, <2>3, <2>4, <2>5 DEF Inv, Final
<1> QED BY <1>1, Invariant, PTL

(* A document longer than the cap is refused as too large, or not answered:    *)
(* neither bounded read lets its prefix be taken for it (main.go and main.rs). *)
THEOREM NothingTruncated == Spec => []NeverTruncated
<1>1. Inv => NeverTruncated
  <2> SUFFICES ASSUME Inv, command = "installed", ~flags.bare, Len(document) > flags.size,
                      answer.status \in {"accepted", "refused"}
               PROVE  answer.status = "refused" /\ answer.class = "TooLarge"
    BY DEF NeverTruncated
  <2>1. phase = "done" /\ answer # Error
    BY DEF Inv, Phased, Nothing, Error
  <2>2. flags.size \in Int /\ Len(document) \in Nat
    <3>1. document \in Seq(Admit!Lexeme) /\ flags \in Flags
      BY DocumentsFit DEF Inv, Given
    <3> QED BY <3>1, FlagsAssumption
  <2>3. response.status # "accepted"
    BY <2>2 DEF Inv, Judged, Verdict, Nothing
  <2>4. response.status = "refused" /\ answer = Refused("raw-admission", response.class)
    BY <2>1, <2>3 DEF Inv, Final
  <2>5. response.class = "TooLarge"
    BY <2>4 DEF Inv, Judged, Verdict, Nothing
  <2> QED BY <2>4, <2>5 DEF Refused
<1> QED BY <1>1, Invariant, PTL
============================================================================
