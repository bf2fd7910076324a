----------------------------- MODULE CallLedger -----------------------------
(***************************************************************************)
(* What Admission.document promises its caller (src/interop/                 *)
(* mintid-trace-records-v2/mintid_trace/reader.py; PROFILE.md, "Before each  *)
(* child, the reader reserves ..."): a call is refused before it has touched *)
(* anything, or it is charged whole, with five entries in the capture        *)
(* directory and one receipt, inside the host's limits.  Only an error of    *)
(* the file system leaves part of a call behind, and never more than five     *)
(* entries or than the limits allow.                                         *)
(***************************************************************************)
EXTENDS Naturals, FiniteSets

CONSTANTS
    Limits, MAX_BYTES,
    Expected(_),      \* the response reserved for a document of some length
    ReceiptReserve,   \* the room reserved for a receipt
    Lengths           \* how long the documents are

VARIABLES
    used,     \* [files, bytes, output]: what is kept in the capture directory
    done,     \* how many calls have left a receipt
    status    \* "open", or how the reading ended

ledgerVars == <<used, done, status>>

Fresh == [files |-> 1, bytes |-> 0, output |-> 0]

LedgerInit == used = Fresh /\ done = 0 /\ status = "open"

Within(u) ==
    /\ u.files <= Limits.capture_files
    /\ u.bytes <= Limits.capture_bytes
    /\ u.output <= Limits.native_output_bytes

(* What there has to be room for before a document of n bytes is admitted. *)
Reserved(n) ==
    [files  |-> used.files + 5,
     bytes  |-> used.bytes + n + Expected(n) + ReceiptReserve,
     output |-> used.output + Expected(n)]

Admissible(n) ==
    /\ n <= MAX_BYTES
    /\ done < Limits.native_calls
    /\ Within(Reserved(n))

Charged(n, out, receipt) ==
    [files  |-> used.files + 5,
     bytes  |-> used.bytes + n + out + receipt,
     output |-> used.output + out]

Outputs == 0..(Limits.native_output_bytes - used.output)
Receipts == 1..ReceiptReserve

(* A call with a receipt; the document is admitted or refused. *)
Call(n, verdict) ==
    /\ status = "open"
    /\ Admissible(n)
    /\ \E out \in Outputs, receipt \in Receipts :
         /\ used' = Charged(n, out, receipt)
         /\ Within(Charged(n, out, receipt))
    /\ done' = done + 1
    /\ status' = verdict

(* A call refused before any work. *)
Declined(n) ==
    /\ status = "open"
    /\ ~Admissible(n)
    /\ status' = "refused"
    /\ UNCHANGED <<used, done>>

Crash ==
    /\ status = "open"
    /\ status' = "crashed"
    /\ used' \in [files  : used.files..used.files + 5,
                 bytes  : used.bytes..Limits.capture_bytes,
                 output : used.output..Limits.native_output_bytes]
    /\ Within(used')
    /\ UNCHANGED done

LedgerNext ==
    \/ \E n \in Lengths : (\E verdict \in {"open", "refused"} : Call(n, verdict)) \/ Declined(n)
    \/ Crash

LedgerSpec == LedgerInit /\ [][LedgerNext]_ledgerVars
============================================================================
