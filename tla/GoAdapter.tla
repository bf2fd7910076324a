----------------------------- MODULE GoAdapter -----------------------------
(***************************************************************************)
(* The Go consumer (src/interop/go-jcs): cmd/qualify reads one document,     *)
(* the adapter has it admitted by an external command (admission/src/main.rs *)
(* around the parser), then writes it with the pinned Go writer, and only    *)
(* answers with bytes both agree on.                                         *)
(*                                                                          *)
(* Composes JsonParser, inside the command, with GoWriter.  The command is   *)
(* the installed one, or one that answers as it pleases; either may take too *)
(* long.                                                                     *)
(***************************************************************************)
EXTENDS Options, Integers, Sequences

CONSTANTS
    Names, Spellings,  \* of the parser's lexemes
    Documents,   \* what is piped into the command
    Flags,       \* how it is called
    Responses,   \* what a substituted command may answer
    Serialized(_) \* what the command prints for a tree: its canonical form

VARIABLES
    document, flags,
    raw,       \* what the adapter has read of the document
    phase,     \* where run() and Transform() are
    response,  \* what the command has answered
    answer,    \* what run() emits
    command,   \* which command runs: "installed" or "substituted"
    input, opts, at, pc, open, built, result,   \* the parser in the command
    jsonData, index, call, frames, outcome      \* the writer

adapter == <<document, flags, raw, phase, response, answer, command>>
parser  == <<input, opts, at, pc, open, built, result>>
writer  == <<jsonData, index, call, frames, outcome>>
vars    == <<adapter, parser, writer>>

Parser == INSTANCE JsonParser WITH Inputs <- Documents, Requests <- {}
Writer == INSTANCE GoWriter

ASSUME DocumentsAssumption == Documents \subseteq Seq(Parser!Lexeme)
ASSUME FlagsAssumption ==
    Flags \subseteq [profile : STRING, depth : Int, size : Int, bare : BOOLEAN]
ASSUME ResponsesAssumption ==
    \A r \in Responses : r.status \in {"refused", "accepted", "incoherent"}

Profiles == [rfc8785 |-> Rfc8785, ijson |-> Ijson, ijsonIntegers |-> IjsonIntegers]

Nothing == [status |-> "none"]
Error   == [status |-> "error"]
Refused(stage, class) == [status |-> "refused", stage |-> stage, class |-> class]
Accepted(stage, value) == [status |-> "accepted", stage |-> stage, value |-> value]

Init ==
    /\ document \in Documents
    /\ flags \in Flags
    /\ command \in {"installed", "substituted"}
    /\ raw = <<>> /\ phase = "flags"
    /\ response = Nothing /\ answer = Nothing
    /\ input = <<>> /\ opts = Rfc8785 /\ at = 0 /\ pc = "done"
    /\ open = <<>> /\ built = <<>> /\ result = Nothing
    /\ Writer!Start(<<>>)

Emit(out) ==
    /\ answer' = out
    /\ phase' = "done"

CapsValid == flags.size \in 0..DEFAULT_MAX_BYTES /\ flags.depth \in 0..DEFAULT_MAX_DEPTH

(* No more than one byte past the cap is read: enough to tell that there is   *)
(* one.                                                                      *)
BoundedShort(bytes, size) == SubSeq(bytes, 1, IF Len(bytes) < size THEN Len(bytes) ELSE size)
Bounded(bytes, size) ==
    SubSeq(bytes, 1, IF Len(bytes) < size + 1 THEN Len(bytes) ELSE size + 1)

ReadInput ==
    /\ phase = "flags"
    /\ IF ~CapsValid
       THEN Emit(Error) /\ UNCHANGED raw
       ELSE /\ raw' = Bounded(document, flags.size)
            /\ phase' = IF flags.bare THEN "write" ELSE "validate"
            /\ UNCHANGED answer
    /\ UNCHANGED <<document, flags, response, command, parser, writer>>

(* validPolicy, then the command starts and reads its standard input.         *)
StartCommand ==
    /\ phase = "validate"
    /\ IF flags.profile \notin DOMAIN Profiles
       THEN Emit(Error) /\ UNCHANGED parser
       ELSE /\ phase' = "command"
            /\ input' = Bounded(raw, flags.size)
            /\ opts' = WithMaxBytes(WithMaxDepth(Profiles[flags.profile], flags.depth), flags.size)
            /\ at' = 0 /\ pc' = "length" /\ open' = <<>> /\ built' = <<>>
            /\ result' = [status |-> "parsing"]
            /\ UNCHANGED answer
    /\ UNCHANGED <<document, flags, raw, response, command, writer>>

CommandParses ==
    /\ phase = "command" /\ response = Nothing
    /\ command = "installed"
    /\ Parser!Next
    /\ UNCHANGED <<adapter, writer>>

(* What the command prints. *)
CommandAnswers ==
    /\ phase = "command" /\ response = Nothing
    /\ \/ /\ command = "installed" /\ result.status = "refused"
          /\ response' = [status |-> "refused", class |-> result.class]
       \/ /\ command = "installed" /\ result.status = "parsed"
          /\ response' = [status |-> "accepted", value |-> Serialized(result.node)]
       \/ /\ command = "substituted"
          /\ response' \in Responses
    /\ UNCHANGED <<document, flags, raw, phase, answer, command, parser, writer>>

(* The ten seconds are over, or the command failed. *)
CommandFailed ==
    /\ phase = "command" /\ response = Nothing
    /\ command = "substituted"
    /\ Emit(Error)
    /\ UNCHANGED <<document, flags, raw, response, command, parser, writer>>
CommandStopped ==
    /\ phase = "command" /\ response = Nothing
    /\ Emit(Error)
    /\ UNCHANGED <<document, flags, raw, response, command, parser, writer>>

RootIsContainer ==
    LET trimmed == SelectSeq(raw, LAMBDA lexeme : lexeme.kind # "ws")
    IN  trimmed # <<>> /\ trimmed[1].kind \in {"openArray", "openObject"}

Response ==
    /\ phase = "command" /\ response # Nothing
    /\ CASE response.status = "refused"    -> Emit(Refused("raw-admission", response.class))
         [] response.status = "incoherent" -> Emit(Error)
         [] response.status = "accepted"   ->
              IF ~RootIsContainer
              THEN Emit(Refused("go-root-domain", "ObjectOrArrayRequired"))
              ELSE phase' = "write" /\ UNCHANGED answer
    /\ UNCHANGED <<document, flags, raw, response, command, parser, writer>>

(* jsoncanonicalizer.Transform is given the bytes that were admitted. *)
StartWriter ==
    /\ phase = "write"
    /\ phase' = "writing"
    /\ jsonData' = raw /\ index' = 0 /\ call' = "root" /\ frames' = <<>>
    /\ outcome' = [status |-> "writing"]
    /\ UNCHANGED <<document, flags, raw, response, answer, command, parser>>

Writes ==
    /\ phase = "writing"
    /\ Writer!Next
    /\ UNCHANGED <<adapter, parser>>

AgreesUnchecked(value) == TRUE
Agrees(value) == value = response.value

Compare ==
    /\ phase = "writing"
    /\ outcome.status # "writing"
    /\ IF outcome.status = "failed" THEN Emit(Refused("go-transform", "GoTransform"))
       ELSE IF flags.bare THEN Emit(Accepted("go-transform", outcome.value))
       ELSE IF Agrees(outcome.value) THEN Emit(Accepted("byte-agreement", outcome.value))
       ELSE Emit(Refused("byte-agreement", "CanonicalDisagreement"))
    /\ UNCHANGED <<document, flags, raw, response, command, parser, writer>>

(* The adapter's own steps; the command's are CommandParses, CommandAnswers.  *)
Adapter == ReadInput \/ StartCommand \/ CommandStopped \/ Response \/ StartWriter \/ Writes \/ Compare

Next == Adapter \/ CommandParses \/ CommandAnswers

(* The adapter does not stop, and the deadline of a command that does not      *)
(* answer passes; the command itself may hang.                               *)
Spec == Init /\ [][Next]_vars /\ WF_vars(Adapter)

----------------------------------------------------------------------------
(* The two implementations never come apart: a document the installed command  *)
(* admits and whose root is a container is written by Go, with the same value. *)
WritersAgree ==
    answer.status = "refused" /\ command = "installed" /\ ~flags.bare =>
      answer.stage \in {"raw-admission", "go-root-domain"}

(* Whichever command is installed: bytes are only emitted for what the writer  *)
(* made of the document that was read, and the command answered the same.    *)
OnlyAgreedBytes ==
    answer.status = "accepted" /\ ~flags.bare =>
      /\ outcome.status = "written" /\ answer.value = outcome.value
      /\ response.status = "accepted" /\ response.value = answer.value

(* A document longer than the cap is never taken for its prefix: neither the   *)
(* reader nor the command may mistake the end of its buffer for the end.       *)
NeverTruncated ==
    command = "installed" /\ ~flags.bare /\ Len(document) > flags.size =>
      /\ answer.status # "accepted"
      /\ answer.status = "refused" => answer.class = "TooLarge"

(* A command that never answers does not keep the adapter from answering. *)
AlwaysAnswers == <>(phase = "done")
============================================================================
