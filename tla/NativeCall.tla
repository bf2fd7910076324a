----------------------------- MODULE NativeCall -----------------------------
(***************************************************************************)
(* Admission.document of the trace reader                                   *)
(* (src/interop/mintid-trace-records-v2/mintid_trace/reader.py): one        *)
(* document at a time is handed to a child process that admits it; the      *)
(* input, both output streams and a receipt are retained in the capture     *)
(* directory, and everything kept there is charged to the host's limits.    *)
(*                                                                          *)
(* The child and the pipes are the environment: it writes to either stream  *)
(* in any order, closes them, and exits when it likes.                      *)
(***************************************************************************)
EXTENDS Integers, Sequences, FiniteSets

CONSTANTS
    Limits,          \* the host's Limits
    MAX_BYTES,       \* the input ceiling of one document
    CHUNK_BYTES,     \* the most one read takes from a pipe
    Expansion,       \* the reserved response is Expansion * len + Envelope
    Envelope,
    Digits(_),       \* how many digits a byte count takes in a receipt
    ReceiptBase,     \* the widths of a receipt's other fields: those every
    ExitWidth,       \*   receipt has, the exit code, the note of a
    KillWidth,       \*   termination and the error of a failed spawn
    SpawnWidth,
    Lengths,         \* how long the documents are
    PipeBound,       \* the capacity of a pipe
    Plans            \* what children write to either stream

Streams == {"stdout", "stderr"}

ASSUME LimitsAssumption ==
    Limits \in [native_calls : Nat \ {0}, native_output_bytes : Nat \ {0},
                capture_bytes : Nat \ {0}, capture_files : Nat \ {0}]
ASSUME SizeAssumption ==
    /\ MAX_BYTES \in Nat /\ CHUNK_BYTES \in Nat \ {0}
    /\ Expansion \in Nat /\ Envelope \in Nat
    /\ ReceiptBase \in Nat \ {0} /\ ExitWidth \in Nat /\ KillWidth \in Nat /\ SpawnWidth \in Nat
    /\ Lengths \subseteq Nat /\ PipeBound \in Nat \ {0}
    /\ Plans \subseteq [Streams -> Nat]
ASSUME DigitsAssumption ==
    \A m, n \in 0..Limits.native_output_bytes :
       Digits(m) \in Nat /\ (m <= n => Digits(m) <= Digits(n))

VARIABLES
    ledger,   \* the counters of class Admission
    disk,     \* what the capture directory holds
    calls,    \* self.calls, the receipts
    pc,       \* where document() is
    len,      \* len(raw)
    allowance, complete, registered, ready,  \* locals of document()
    got,      \* what stdout.bin and stderr.bin hold
    child,    \* the child process
    pipe,     \* what it wrote that was not read
    wrote,    \* what it wrote
    refusal   \* the class of the refusal that ended the reading, or "none"

charges == <<ledger, disk, calls>>
locals  == <<len, allowance, complete, registered, ready, got>>
process == <<child, pipe, wrote>>
vars    == <<charges, pc, locals, process, refusal>>

Total(f) == f["stdout"] + f["stderr"]
Least(m, n) == IF m < n THEN m ELSE n

NoBytes == [s \in Streams |-> 0]
NoChild == [started |-> FALSE, alive |-> FALSE, killed |-> FALSE, open |-> {}, exit |-> 0,
            says |-> "nothing", plan |-> NoBytes]
Started(plan) == [started |-> TRUE, alive |-> TRUE, killed |-> FALSE, open |-> Streams, exit |-> 0,
                  says |-> "nothing", plan |-> plan]

ReceiptSize(sizes, started, killed) ==
    ReceiptBase + Digits(sizes["stdout"]) + Digits(sizes["stderr"])
      + (IF started THEN ExitWidth ELSE SpawnWidth) + (IF killed THEN KillWidth ELSE 0)

(* receipt_reserve: every field of the receipt at its widest. *)
ReceiptReserveExited == ReceiptBase + 2 * Digits(Limits.native_output_bytes) + ExitWidth
ReceiptReserve ==
    ReceiptBase + 2 * Digits(Limits.native_output_bytes) + ExitWidth + KillWidth + SpawnWidth

----------------------------------------------------------------------------
(* Admission.__init__: the capture directory itself counts as a file.       *)
Init ==
    /\ ledger = [files |-> 1, bytes |-> 0, output |-> 0]
    /\ disk = [files |-> 1, bytes |-> 0]
    /\ calls = <<>>
    /\ pc = "idle"
    /\ len = 0 /\ allowance = 0 /\ complete = TRUE
    /\ registered = {} /\ ready = {}
    /\ got = NoBytes
    /\ child = NoChild /\ pipe = NoBytes /\ wrote = NoBytes
    /\ refusal = "none"

Goto(label) == pc' = label

Refuse(class) ==
    /\ refusal' = class
    /\ Goto("refused")

(* expected_output: the response the call reserves. *)
Expected(n) == Expansion * n + Envelope

(* The checks of document() before any work. *)
ReservationNoBytes(n) ==
    IF ledger.files + 5 > Limits.capture_files THEN "CaptureBudget" ELSE "none"
Reservation(n) ==
    IF n > MAX_BYTES THEN "TooLarge"
    ELSE IF Len(calls) >= Limits.native_calls THEN "NativeCallBudget"
    ELSE IF ledger.output + Expected(n) > Limits.native_output_bytes THEN "NativeOutputBudget"
    ELSE IF \/ ledger.files + 5 > Limits.capture_files
            \/ ledger.bytes + n + Expected(n) + ReceiptReserve > Limits.capture_bytes
         THEN "CaptureBudget"
    ELSE "none"

Begin(n) ==
    /\ pc = "idle"
    /\ len' = n
    /\ IF Reservation(n) = "none"
       THEN Goto("directory") /\ UNCHANGED refusal
       ELSE Refuse(Reservation(n))
    /\ UNCHANGED <<charges, allowance, complete, registered, ready, got, process>>

(* One more file of n bytes, counted once it is written.  path.mkdir and      *)
(* path.write_bytes may raise: what they wrote stays, uncounted, and the      *)
(* OSError leaves the reader.                                                *)
Keep(n, fits, label) ==
    /\ IF ~fits
       THEN Refuse("CaptureBudget") /\ UNCHANGED <<ledger, disk>>
       ELSE \/ /\ ledger' = [files  |-> ledger.files + 1,
                             bytes  |-> ledger.bytes + n,
                             output |-> ledger.output]
               /\ disk' = [files |-> disk.files + 1, bytes |-> disk.bytes + n]
               /\ Goto(label)
               /\ UNCHANGED refusal
            \/ /\ \E written \in 0..n :
                    disk' = [files |-> disk.files + 1, bytes |-> disk.bytes + written]
               /\ Goto("crashed")
               /\ UNCHANGED <<ledger, refusal>>
    /\ UNCHANGED <<locals, process>>

(* Admission.directory and Admission.retain. *)
Directory(label) == Keep(0, ledger.files + 1 <= Limits.capture_files, label)
Retain(n, label) == Keep(n, /\ ledger.files + 1 <= Limits.capture_files
                            /\ ledger.bytes + n <= Limits.capture_bytes, label)

MakeDirectory == pc = "directory" /\ Directory("stdin") /\ UNCHANGED calls

RetainInput == pc = "stdin" /\ Retain(len, "spawn") /\ UNCHANGED calls

AllowanceOfCapture == Limits.capture_bytes - ledger.bytes - ReceiptReserve
Allowance == Least(Limits.native_output_bytes - ledger.output,
                   Limits.capture_bytes - ledger.bytes - ReceiptReserve)

(* stdout.bin and stderr.bin are created, then the child, or not.            *)
Spawn ==
    /\ pc = "spawn"
    /\ disk' = [files |-> disk.files + 2, bytes |-> disk.bytes]
    /\ allowance' = Allowance
    /\ got' = NoBytes /\ pipe' = NoBytes /\ wrote' = NoBytes
    /\ ready' = {}
    /\ \/ /\ \E plan \in Plans :
               child' = Started(plan)
          /\ complete' = TRUE
          /\ registered' = Streams
          /\ Goto("select")
       \/ /\ child' = NoChild
          /\ complete' = FALSE
          /\ registered' = {}
          /\ Goto("account")
    /\ UNCHANGED <<ledger, calls, len, refusal>>

\* One of the three files of the call cannot be opened or created.
OpenFails ==
    /\ pc = "spawn"
    /\ \E made \in 0..1 : disk' = [files |-> disk.files + made, bytes |-> disk.bytes]
    /\ Goto("crashed")
    /\ UNCHANGED <<ledger, calls, locals, process, refusal>>

----------------------------------------------------------------------------
(* The selector loop.  A stream is readable when something is in its pipe or  *)
(* the child has closed it.                                                  *)

ReadableInOrder(s) ==
    (s = "stdout" \/ "stdout" \notin registered) /\ (pipe[s] > 0 \/ s \notin child.open)
Readable(s) == pipe[s] > 0 \/ s \notin child.open

Select ==
    /\ pc = "select"
    /\ IF registered = {}
       THEN Goto("wait") /\ UNCHANGED ready
       ELSE /\ ready' = {s \in registered : Readable(s)}
            /\ ready' # {}
            /\ Goto("read")
    /\ UNCHANGED <<charges, len, allowance, complete, registered, got, process, refusal>>

ReadSizeChunk(s) == Least(pipe[s], CHUNK_BYTES)
ReadSize(s) == Least(pipe[s], Least(CHUNK_BYTES, allowance + 1))

EndOfStream(s) ==
    /\ ReadSize(s) = 0
    /\ registered' = registered \ {s}
    /\ ready' = ready \ {s}
    /\ UNCHANGED <<disk, allowance, complete, got, process>>

Killed == [started |-> TRUE, alive |-> FALSE, killed |-> TRUE, open |-> {},
           exit |-> IF child.alive THEN -9 ELSE child.exit,
           says |-> child.says, plan |-> child.plan]

(* A block that fits is written whole; of one that does not, what fits, and  *)
(* the child's process group is killed and both pipes are closed.           *)
Block(s) ==
    LET retained == Least(ReadSize(s), allowance)
        over     == retained < ReadSize(s)
    IN  /\ ReadSize(s) > 0
        /\ disk' = [files |-> disk.files, bytes |-> disk.bytes + retained]
        /\ got' = [got EXCEPT ![s] = @ + retained]
        /\ allowance' = allowance - retained
        /\ complete' = (complete /\ ~over)
        /\ registered' = IF over THEN {} ELSE registered
        /\ ready' = IF over THEN {} ELSE ready \ {s}
        /\ pipe' = [pipe EXCEPT ![s] = @ - ReadSize(s)]
        /\ child' = IF over THEN Killed ELSE child
        /\ UNCHANGED wrote

ReadBlock ==
    /\ pc = "read"
    /\ \E s \in ready : EndOfStream(s) \/ Block(s)
    /\ Goto(IF ready' = {} THEN "select" ELSE "read")
    /\ UNCHANGED <<ledger, calls, len, refusal>>

(* The write of a block may raise: the OSError leaves the reader, the child   *)
(* still running and what was written uncounted.                             *)
WriteFails ==
    /\ pc = "read"
    /\ \E s \in ready :
         /\ ReadSize(s) > 0
         /\ \E written \in 0..Least(ReadSize(s), allowance) :
              disk' = [files |-> disk.files, bytes |-> disk.bytes + written]
    /\ Goto("crashed")
    /\ UNCHANGED <<ledger, calls, locals, process, refusal>>

Wait ==
    /\ pc = "wait"
    /\ ~child.alive
    /\ Goto("account")
    /\ UNCHANGED <<charges, locals, process, refusal>>

(* The streams' sizes are read back and charged. *)
Account ==
    /\ pc = "account"
    /\ ledger' = [files  |-> ledger.files + 2,
                  bytes  |-> ledger.bytes + Total(got),
                  output |-> ledger.output + Total(got)]
    /\ Goto("receipt")
    /\ UNCHANGED <<disk, calls, locals, process, refusal>>

Receipt == [started |-> child.started, exit |-> child.exit, complete |-> complete,
            sizes |-> got]

WriteReceipt ==
    /\ pc = "receipt"
    /\ Retain(ReceiptSize(got, child.started, child.killed), "judge")
    /\ calls' = IF pc' = "judge" THEN Append(calls, Receipt) ELSE calls

(* What document() makes of the receipt and of the response. *)
Verdict ==
    CASE ~child.started -> "CommandUnavailable"
      [] child.started /\ ~complete -> "NativeOutputBudget"
      [] child.started /\ complete /\ got["stdout"] > Expected(len) -> "CommandProtocol"
      [] OTHER -> IF child.exit # 0 \/ got["stderr"] # 0 THEN "CommandFailed"
                  ELSE CASE got["stdout"] = 0         -> "InvalidJSON"
                         [] child.says = "malformed"  -> "InvalidJSON"
                         [] child.says = "misshapen"  -> "CommandProtocol"
                         [] child.says = "refused"    -> "Native"
                         [] OTHER                     -> "none"

Judge ==
    /\ pc = "judge"
    /\ IF Verdict = "none"
       THEN Goto("idle") /\ UNCHANGED refusal
       ELSE Refuse(Verdict)
    /\ UNCHANGED <<charges, locals, process>>

----------------------------------------------------------------------------
(* The child writes what it has to, blocking on a full pipe, may close a       *)
(* stream early, and exits.                                                 *)

Says == {"accepted", "refused", "malformed", "misshapen"}

ChildWrites(s) ==
    /\ child.alive
    /\ wrote[s] < child.plan[s]
    /\ pipe[s] < PipeBound
    /\ pipe' = [pipe EXCEPT ![s] = @ + 1]
    /\ wrote' = [wrote EXCEPT ![s] = @ + 1]
    /\ UNCHANGED <<charges, pc, locals, child, refusal>>

ChildCloses(s) ==
    /\ child.alive
    /\ s \in child.open
    /\ wrote[s] = child.plan[s]
    /\ child' = [started |-> TRUE, alive |-> TRUE, killed |-> FALSE, open |-> child.open \ {s},
                 exit |-> 0, says |-> "nothing", plan |-> child.plan]
    /\ UNCHANGED <<charges, pc, locals, pipe, wrote, refusal>>

ChildExits ==
    /\ child.alive
    /\ wrote = child.plan
    /\ \E code \in {0, 2}, says \in Says :
         child' = [started |-> TRUE, alive |-> FALSE, killed |-> FALSE, open |-> {},
                   exit |-> code, says |-> says, plan |-> child.plan]
    /\ UNCHANGED <<charges, pc, locals, pipe, wrote, refusal>>

ChildProceeds == ChildExits \/ \E s \in Streams : ChildWrites(s)

Child == ChildProceeds \/ \E s \in Streams : ChildCloses(s)

Reader ==
    \/ MakeDirectory \/ RetainInput \/ Spawn \/ OpenFails
    \/ Select \/ ReadBlock \/ WriteFails \/ Wait \/ Account \/ WriteReceipt \/ Judge

Next == Reader \/ Child \/ \E n \in Lengths : Begin(n)

(* Neither the reader nor a child that can write or exit stops on its own; a   *)
(* child need not close a stream before it exits.                            *)
Spec == Init /\ [][Next]_vars /\ WF_vars(Reader) /\ WF_vars(ChildProceeds)

----------------------------------------------------------------------------
PcValues == {"idle", "directory", "stdin", "spawn", "select", "read", "wait",
             "account", "receipt", "judge", "refused", "crashed"}

Refusals == {"none", "TooLarge", "NativeCallBudget", "NativeOutputBudget", "CaptureBudget",
             "CommandUnavailable", "CommandProtocol", "CommandFailed", "InvalidJSON", "Native"}

TypeOK ==
    /\ ledger \in [files : Nat, bytes : Nat, output : Nat]
    /\ disk \in [files : Nat, bytes : Nat]
    /\ calls \in Seq([started : BOOLEAN, exit : Int, complete : BOOLEAN,
                      sizes : [Streams -> Nat]])
    /\ pc \in PcValues
    /\ len \in Nat /\ allowance \in Nat /\ complete \in BOOLEAN
    /\ ready \subseteq registered /\ registered \subseteq Streams
    /\ got \in [Streams -> Nat]
    /\ child \in [started : BOOLEAN, alive : BOOLEAN, killed : BOOLEAN,
                  open : SUBSET Streams, exit : Int,
                  says : Says \cup {"nothing"}, plan : [Streams -> Nat]]
    /\ pipe \in [Streams -> Nat] /\ wrote \in [Streams -> Nat]
    /\ refusal \in Refusals

(* What two streams have brought in and the ledger does not count yet. *)
Uncounted == IF pc \in {"select", "read", "wait", "account"} THEN Total(got) ELSE 0

(* The host's limits hold at every moment for what is really on disk, also    *)
(* while two streams are being written that no counter has seen, and after a  *)
(* write that failed half way.                                               *)
WithinLimits ==
    /\ disk.files <= Limits.capture_files
    /\ disk.bytes <= Limits.capture_bytes
    /\ ledger.output + Uncounted <= Limits.native_output_bytes

(* Whenever document() has answered, the counters are what the directory      *)
(* holds, and every call that touched it has left its five entries, receipt   *)
(* included: the space reserved for the receipt was enough.                   *)
EveryCallRecorded ==
    pc \in {"idle", "refused"} =>
      /\ disk = [files |-> ledger.files, bytes |-> ledger.bytes]
      /\ ledger.files = 1 + 5 * Len(calls)

(* A receipt that says complete stands for all a child wrote that ended by    *)
(* itself; one that does not, for a child that was killed with something      *)
(* unretained, of which exactly one byte had been read.                       *)
ReceiptIsHonest ==
    pc \in {"receipt", "judge"} /\ child.started =>
      IF complete
      THEN ~child.killed /\ got = wrote /\ child.exit \in {0, 2}
      ELSE /\ child.killed
           /\ Total(wrote) - Total(pipe) = Total(got) + 1

(* A child that writes to both streams blocks neither itself nor the reader:   *)
(* every call of document() ends.                                             *)
CallEnds == pc = "directory" ~> pc \in {"idle", "refused", "crashed"}

----------------------------------------------------------------------------
(* The call as its caller sees it: it happens when the receipt is written.     *)
CountedOutput == IF pc = "receipt" THEN Total(got) ELSE 0
CountedBytes ==
    CountedOutput + (IF pc \in {"spawn", "select", "read", "wait", "account", "receipt"}
                     THEN len ELSE 0)

Committed ==
    IF pc = "crashed"
    THEN [files |-> disk.files, bytes |-> disk.bytes, output |-> ledger.output]
    ELSE [files |-> 1 + 5 * Len(calls), bytes |-> ledger.bytes - CountedBytes,
          output |-> ledger.output - CountedOutput]

Ended == IF pc = "crashed" THEN "crashed"
         ELSE IF pc = "refused" \/ (pc = "judge" /\ Verdict # "none") THEN "refused" ELSE "open"

L == INSTANCE CallLedger WITH used <- Committed, done <- Len(calls), status <- Ended

(* However the child, the pipes and the file system interleave with it, a call  *)
(* of document() is refused before any work or charged whole, inside the      *)
(* limits, with its receipt.                                                 *)
ImplementsLedger == L!LedgerSpec
============================================================================
