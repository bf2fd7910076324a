---------------------------- MODULE ByteBinding ----------------------------
(***************************************************************************)
(* One call of the core through a binding: from JavaScript, where the bytes *)
(* of the input lie in a buffer that other threads may write (api.mjs and   *)
(* npm/wasm), or from Python, where the interpreter is released and the     *)
(* bytes are read in place (jcs_binding.rs, errors.rs).                     *)
(*                                                                          *)
(* What the core answers for a sequence of bytes is the constant Outcome.   *)
(* It looks at a byte when it scans and again when it takes a lexeme, which *)
(* is all a change in the middle of a call could show: reading is two       *)
(* passes, one byte at a time.                                              *)
(***************************************************************************)
EXTENDS Rendering

CONSTANTS Byte,         \* values of a byte
          Size,         \* bytes in the buffer
          MaxBytes,     \* the cap of the options
          Writes,       \* bound: how often another thread writes
          CEILING,      \* what tests/refusal_messages.rs holds a message to
          Outcome(_)    \* what the core answers for the bytes it reads

ASSUME SizesAssumption == Size \in Nat /\ MaxBytes \in Nat /\ Writes \in Nat /\ Usize(Size)

\* A Result of the core: the bytes it writes, or a refusal.
Answers(s) == \/ Outcome(s).class = "bytes"
              \/ /\ Outcome(s) = [class |-> "payload", refusal |-> Outcome(s).refusal]
                 /\ Refusal(Outcome(s).refusal)
ASSUME OutcomeAssumption ==
    \A n \in 0 .. MaxBytes : n <= Size => \A s \in [1 .. n -> Byte] : Answers(s)

\* The ceiling is above the longest honest message.
ASSUME CeilingAssumption ==
    CEILING \in Nat /\ \A v \in DOMAIN Worded : Longest(v) <= CEILING

VARIABLES host,     \* "npm" or "python"
          op,       \* "admit" or "is_canonical", which npm does not have
          buffer,   \* the memory behind the input
          input,    \* the object passed: what it is, and what it says it is
          pc,       \* how far the call has come
          view,     \* the bytes the call is about: offset and length
          copy,     \* the copy in the memory of the module
          scanned,  \* the first pass
          taken,    \* the second pass
          answer,   \* what the core or the binding has answered
          raised,   \* what the caller gets
          writes,   \* how often another thread has written
          passed    \* every value each byte has had during the call

vars == <<host, op, buffer, input, pc, view, copy, scanned, taken, answer, raised,
          writes, passed>>
call == <<host, op, input>>

-----------------------------------------------------------------------------
Views == {v \in [offset : 0 .. Size, length : 0 .. Size] : v.offset + v.length <= Size}
Inputs == [bytes : BOOLEAN, shared : BOOLEAN, is : Views, says : Views]
Entire == [offset |-> 0, length |-> Size]
Nothing == [class |-> "none"]
At(mem, v) == [i \in 1 .. v.length |-> mem[v.offset + i]]

\* Only JavaScript has shared buffers and objects whose properties can be shadowed.
Plain(i) == ~i.shared /\ i.says = i.is

Init == /\ host \in {"npm", "python"}
        /\ op \in IF host = "npm" THEN {"admit"} ELSE {"admit", "is_canonical"}
        /\ buffer \in [1 .. Size -> Byte]
        /\ input \in {i \in Inputs : host = "python" => Plain(i)}
        /\ pc = "called"
        /\ view = Entire
        /\ copy = <<>> /\ scanned = <<>> /\ taken = <<>>
        /\ answer = Nothing /\ raised = Nothing
        /\ writes = 0
        /\ passed = [i \in 1 .. Size |-> {buffer[i]}]

\* Another thread of the program writes into a shared buffer.
Write ==
    /\ host = "npm" /\ input.shared /\ pc # "returned"
    /\ writes < Writes
    /\ \E i \in 1 .. Size, b \in Byte :
          /\ buffer[i] # b
          /\ buffer' = [buffer EXCEPT ![i] = b]
          /\ passed' = [passed EXCEPT ![i] = @ \cup {b}]
    /\ writes' = writes + 1
    /\ UNCHANGED <<call, pc, view, copy, scanned, taken, answer, raised>>

-----------------------------------------------------------------------------
Goto(point) == pc' = point /\ UNCHANGED <<buffer, writes, passed, call>>

Throw(error) == /\ answer' = error
                /\ Goto("thrown")
                /\ UNCHANGED <<view, copy, scanned, taken, raised>>

TypeError == [class |-> "TypeError"]
Refused(refusal) == [class |-> "payload", refusal |-> refusal]
TooLarge(length) == [variant |-> "TooLarge", number |-> Digits(length), text |-> <<>>]

\* localByteView: the intrinsic getters see the object and not what it says.
LocalView(i) == i.is

Accept ==
    /\ pc = "called"
    /\ IF ~input.bytes
       THEN Throw(TypeError)
       ELSE /\ view' = LocalView(input)
            /\ Goto("accepted")
            /\ UNCHANGED <<copy, scanned, taken, answer, raised>>

\* The module copies only what is not too long; Python has nothing to copy.
\* Mutant: the length is left to the core, which sees the copy.
CopyFirst ==
    /\ pc = "accepted"
    /\ Goto(IF host = "npm" THEN "copying" ELSE "reading")
    /\ UNCHANGED <<view, copy, scanned, taken, answer, raised>>

CheckInputLength ==
    /\ pc = "accepted"
    /\ IF view.length > MaxBytes
       THEN Throw(Refused(TooLarge(view.length)))
       ELSE /\ Goto(IF host = "npm" THEN "copying" ELSE "reading")
            /\ UNCHANGED <<view, copy, scanned, taken, answer, raised>>

Copy ==
    /\ pc = "copying"
    /\ IF Len(copy) < view.length
       THEN /\ copy' = Append(copy, At(buffer, view)[Len(copy) + 1])
            /\ Goto("copying")
       ELSE /\ Goto("reading")
            /\ UNCHANGED copy
    /\ UNCHANGED <<view, scanned, taken, answer, raised>>

\* The module may find no memory for the copy: a trap, which is not a refusal.
Trap == pc = "copying" /\ Throw([class |-> "RuntimeError"])

\* Mutant: the module reads the buffer itself.
InPlace == At(buffer, view)

Data == IF host = "npm" THEN copy ELSE At(buffer, view)

Scan ==
    /\ pc = "reading" /\ Len(scanned) < view.length
    /\ scanned' = Append(scanned, Data[Len(scanned) + 1])
    /\ Goto("reading")
    /\ UNCHANGED <<view, copy, taken, answer, raised>>

Take ==
    /\ pc = "reading" /\ Len(taken) < Len(scanned)
    /\ taken' = Append(taken, Data[Len(taken) + 1])
    /\ Goto("reading")
    /\ UNCHANGED <<view, copy, scanned, answer, raised>>

Torn == [class |-> "torn"]
CoreAnswer == IF scanned = taken THEN Outcome(taken) ELSE Torn

Answer ==
    /\ pc = "reading" /\ Len(taken) = view.length
    /\ IF CoreAnswer.class = "payload"
       THEN Throw(CoreAnswer)
       ELSE /\ answer' = IF op = "admit" THEN CoreAnswer
                         ELSE [class |-> "boolean", value |-> CoreAnswer.bytes = Data]
            /\ raised' = answer'
            /\ Goto("returned")
            /\ UNCHANGED <<view, copy, scanned, taken>>

-----------------------------------------------------------------------------
(* Errors on their way to the caller *)

JcsError(refusal) == [class |-> "JcsError", refusal |-> refusal,
                      message |-> Display(refusal)]

\* A question has no refusals: what is refused is not canonical.
Denied == [class |-> "boolean", value |-> FALSE]

\* Only an object with a variant, fields and a message becomes a JcsError.
Converted(error) == IF error.class # "payload" THEN error
                    ELSE IF op = "is_canonical" THEN Denied
                    ELSE JcsError(error.refusal)

Raise ==
    /\ pc = "thrown"
    /\ raised' = Converted(answer)
    /\ Goto("returned")
    /\ UNCHANGED <<view, copy, scanned, taken, answer>>

\* serde cannot write the refusal: an error of the host, without a variant.
Unwritable ==
    /\ pc = "thrown" /\ answer.class = "payload" /\ op = "admit"
    /\ raised' = [class |-> IF host = "npm" THEN "Error" ELSE "RuntimeError"]
    /\ Goto("returned")
    /\ UNCHANGED <<view, copy, scanned, taken, answer>>

Next == \/ Write \/ Accept \/ CheckInputLength \/ Copy \/ Trap
        \/ Scan \/ Take \/ Answer \/ Raise \/ Unwritable

Spec == Init /\ [][Next]_vars

-----------------------------------------------------------------------------
\* What a caller is promised for the bytes s.
Promise(s) ==
    LET o == IF Len(s) > MaxBytes
             THEN Refused(TooLarge(Len(s)))
             ELSE Outcome(s)
    IN  IF op = "is_canonical"
        THEN [class |-> "boolean", value |-> o.class = "bytes" /\ o.bytes = s]
        ELSE IF o.class = "bytes" THEN o
        ELSE [class |-> "JcsError", refusal |-> o.refusal]

\* The sequences a reader of the input can have seen, one value for each byte.
Seen(v) == {s \in [1 .. v.length -> Byte] :
              \A i \in 1 .. v.length : s[i] \in passed[v.offset + i]}

(* A call answers for one sequence of bytes, whose every byte has been at its *)
(* place in the object passed, and a refusal arrives with the core's variant  *)
(* and fields: no writer makes the core read two documents at once, and an    *)
(* object that lies about itself is read as what it is (npm/wasm: to_vec;     *)
(* api.mjs: localByteView, invoke; jcs_binding.rs: run).                      *)
AnswerIsOfInput ==
    pc = "returned" =>
        IF ~input.bytes THEN raised = TypeError
        ELSE \/ raised.class \in {"Error", "RuntimeError"}
             \/ \E s \in Seen(input.is) :
                   IF raised.class = "JcsError"
                   THEN [class |-> "JcsError", refusal |-> raised.refusal] = Promise(s)
                   ELSE raised = Promise(s)

(* Nothing longer than the cap is ever copied into the module, and of what is *)
(* no byte array, nothing is (npm/wasm: check_input_length before to_vec).    *)
CopyBounded == /\ Len(copy) <= MaxBytes
               /\ ~input.bytes => copy = <<>>

(* Whoever writes a document does not choose the length of the message that *)
(* refuses it: no name or token in it makes the message longer than the      *)
(* ceiling of tests/refusal_messages.rs, however much escaping multiplies it *)
(* (error.rs: clipped escapes first and measures afterwards).                *)
MessageBounded == raised.class = "JcsError" => raised.message.length <= CEILING

(* What a message calls elided are the bytes of the name or token that it    *)
(* does not show (error.rs: "... [{} bytes elided]").                        *)
ElidedIsMissing ==
    raised.class = "JcsError" /\ raised.message.clipped =>
        LET text == raised.refusal.text
            shown(n) == Sum(Escaped(SubSeq(text, 1, n))) - 1 <= raised.message.shown
            kept == Max({n \in 0 .. Len(text) : shown(n)})
        IN  raised.message.elided = Width(text) - Width(SubSeq(text, 1, kept))
=============================================================================
