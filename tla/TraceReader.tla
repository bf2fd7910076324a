---------------------------- MODULE TraceReader ----------------------------
(***************************************************************************)
(* One record of the trace reader (src/interop/mintid-trace-records-v2/      *)
(* mintid_trace/reader.py, _read_record and read_member): the manifest, the  *)
(* events and the summary are read once each, into memory and into the       *)
(* capture directory; then the manifest, and the rows of the events one by   *)
(* one, go through Admission.document, which is the CallLedger here.         *)
(*                                                                          *)
(* Whoever owns the record directory may replace or remove a member at any   *)
(* moment.  The projection of the events (TraceProjection) is one decision:  *)
(* a manifest states the rows it was derived from.                           *)
(***************************************************************************)
EXTENDS CallLedger, Sequences

CONSTANTS
    Contents,   \* Contents[name]: what the file of that name may hold
    Size(_),    \* how many bytes a content or a row takes
    Gone,       \* the file is not there, or is not a regular file
    Replacements,  \* bound: how often the record directory changes meanwhile
    NotRead

Names == <<"manifest", "events", "summary">>
NameSet == {"manifest", "events", "summary"}
RowsOf(events) == {events.rows[i] : i \in DOMAIN events.rows}

ASSUME LimitsAssumption ==
    /\ Limits.input_bytes \in Nat \ {0} /\ Limits.events \in Nat \ {0}
    /\ Limits.native_calls \in Nat \ {0} /\ Limits.native_output_bytes \in Nat \ {0}
    /\ Limits.capture_bytes \in Nat \ {0} /\ Limits.capture_files \in Nat \ {0}
ASSUME SizeAssumption ==
    /\ MAX_BYTES \in Nat /\ ReceiptReserve \in Nat
    /\ \A name \in NameSet : \A content \in Contents[name] : Size(content) \in Nat
    /\ \A events \in Contents["events"] :
         /\ events.rows \in Seq(RowsOf(events))
         /\ \A text \in RowsOf(events) : Size(text) \in Nat

VARIABLES
    files,      \* the record directory
    replaced,   \* how often it has changed
    pc,
    member,     \* which of the three members is being read
    stream,     \* the file that was opened, after fstat
    raw,        \* what was read, in memory
    captured,   \* what the capture directory's members/ holds
    remaining,  \* what is left of the input budget
    row,        \* which row of the events is next
    admitted,   \* what was put to the native commands, in order
    refusal     \* why the record was refused

reader == <<pc, member, stream, raw, captured, remaining, row, admitted, refusal>>
directory == <<files, replaced>>
vars == <<ledgerVars, directory, reader>>

Nowhere == [name \in NameSet |-> NotRead]

Init ==
    /\ LedgerInit
    /\ \E manifest \in Contents["manifest"] \cup {Gone}, events \in Contents["events"] \cup {Gone},
          summary \in Contents["summary"] \cup {Gone} :
         files = [manifest |-> manifest, events |-> events, summary |-> summary]
    /\ replaced = 0
    /\ pc = "start" /\ member = 1 /\ stream = NotRead
    /\ raw = Nowhere /\ captured = Nowhere
    /\ remaining = Limits.input_bytes
    /\ row = 1 /\ admitted = <<>> /\ refusal = "none"

Name == Names[member]

Refuse(class) ==
    /\ pc' = "refused"
    /\ refusal' = class
    /\ UNCHANGED <<member, stream, raw, captured, remaining, row, admitted>>

Refused(class) == Refuse(class) /\ UNCHANGED <<ledgerVars, directory>>

----------------------------------------------------------------------------
(* Reading the members.                                                     *)

\* Mutant: a member that is kept is counted together with its directory.
EntryTwice(bytes) ==
    [files |-> used.files + 2, bytes |-> used.bytes + bytes, output |-> used.output]

(* Admission.directory and Admission.retain. *)
Entry(bytes) ==
    [files |-> used.files + 1, bytes |-> used.bytes + bytes, output |-> used.output]

MakeMembers ==
    /\ pc = "start"
    /\ IF used.files + 1 <= Limits.capture_files
       THEN /\ used' = Entry(0)
            /\ pc' = "open"
            /\ UNCHANGED <<done, status, directory, member, stream, raw, captured, remaining, row,
                           admitted, refusal>>
       ELSE Refused("CaptureBudget")

AllowedWhole == IF MAX_BYTES < Limits.input_bytes THEN MAX_BYTES ELSE Limits.input_bytes
Allowed == IF MAX_BYTES < remaining THEN MAX_BYTES ELSE remaining

(* read_member opens the file and looks at its size ... *)
Open ==
    /\ pc = "open"
    /\ IF remaining = 0 THEN Refused("InputBudget")
       ELSE IF files[Name] = Gone THEN Refused("MemberUnavailable")
       ELSE IF Size(files[Name]) > Allowed THEN Refused("TooLarge")
       ELSE /\ pc' = "read"
            /\ stream' = files[Name]
            /\ UNCHANGED <<ledgerVars, directory, member, raw, captured, remaining, row, admitted,
                           refusal>>

(* ... then reads it to its end, which may have moved: the bytes are those it  *)
(* had when it was opened, or those written into it since.                    *)
Read ==
    /\ pc = "read"
    /\ \E content \in {stream} \cup ({files[Name]} \ {Gone}) :
         IF Size(content) > Allowed
         THEN Refused("TooLarge")
         ELSE /\ raw' = [raw EXCEPT ![Name] = content]
              /\ remaining' = remaining - Size(content)
              /\ stream' = NotRead
              /\ pc' = "keep"
              /\ UNCHANGED <<ledgerVars, directory, member, captured, row, admitted, refusal>>

Keep ==
    /\ pc = "keep"
    /\ IF Within(Entry(Size(raw[Name])))
       THEN /\ used' = Entry(Size(raw[Name]))
            /\ captured' = [captured EXCEPT ![Name] = raw[Name]]
            /\ member' = IF member = 3 THEN member ELSE member + 1
            /\ pc' = IF member = 3 THEN "count" ELSE "open"
            /\ UNCHANGED <<done, status, directory, stream, raw, remaining, row, admitted, refusal>>
       ELSE Refused("CaptureBudget")

----------------------------------------------------------------------------
(* Admitting what was read.                                                 *)

Rows == raw["events"].rows

CallsFitRows == Len(Rows) <= Limits.native_calls
CallsFit == Len(Rows) + 1 <= Limits.native_calls

Count ==
    /\ pc = "count"
    /\ IF Len(Rows) > Limits.events THEN Refused("EventBudget")
       ELSE IF ~CallsFit THEN Refused("NativeCallBudget")
       ELSE /\ pc' = "manifest"
            /\ UNCHANGED <<ledgerVars, directory, member, stream, raw, captured, remaining, row,
                           admitted, refusal>>

(* document(): the call happens as the ledger says, or is declined.  Only a    *)
(* document the commands find good is ever admitted; that they refuse a good  *)
(* one (they fail, or print too much) is possible too.                        *)
Document(document, good, next, accepted, class) ==
    /\ \/ /\ \E verdict \in {"open", "refused"} :
               /\ good \/ verdict = "refused"
               /\ Call(Size(document), verdict)
          /\ admitted' = Append(admitted, document)
       \/ Declined(Size(document)) /\ UNCHANGED admitted
    /\ CASE status' # "open"              -> pc' = "refused" /\ refusal' = "Native"
         [] status' = "open" /\ accepted  -> pc' = next /\ UNCHANGED refusal
         [] status' = "open" /\ ~accepted -> pc' = "refused" /\ refusal' = class
    /\ UNCHANGED <<directory, member, stream, raw, captured, remaining>>

(* Whether the manifest names the bytes that were read: the hash map is exact. *)
HashedAgain(name) == files[name]
Hashed(name) == raw[name]

BindsMembers ==
    raw["manifest"].files = [name \in {"events", "summary"} |-> Hashed(name)]

Manifest ==
    /\ pc = "manifest"
    /\ LET manifest == raw["manifest"]
       IN  Document(manifest, manifest.good, "rows",
                    manifest.shaped /\ BindsMembers,
                    IF manifest.shaped THEN "MemberHashMismatch" ELSE "ManifestShape")
    /\ UNCHANGED row

Row ==
    /\ pc = "rows"
    /\ row <= Len(Rows)
    /\ IF Rows[row].is = "blank"
       THEN Refused("BlankEvent")
       ELSE /\ Document(Rows[row], Rows[row].is # "malformed", "rows",
                        Rows[row].is # "foreign", "EventShape")
            /\ row' = row + 1

(* derive(), the comparison with the manifest, and the summary's disclosure.   *)
Finish ==
    /\ pc = "rows"
    /\ row > Len(Rows)
    /\ IF Rows = <<>> THEN Refused("EmptyRecord")
       ELSE IF raw["manifest"].derived # Rows THEN Refused("ManifestEventMismatch")
       ELSE IF ~raw["summary"].discloses THEN Refused("SummaryDisclosure")
       ELSE /\ pc' = "accepted"
            /\ UNCHANGED <<ledgerVars, directory, member, stream, raw, captured, remaining, row,
                           admitted, refusal>>

(* An OSError of mkdir, write_bytes or a stream is not a Refused, nor one of    *)
(* the classes read_record turns into one: it leaves the reader, and the call  *)
(* that was under way half done.                                             *)
Submitting == pc = "manifest" \/ (pc = "rows" /\ row <= Len(Rows) /\ Rows[row].is # "blank")

FileSystemError ==
    /\ \/ pc \in {"start", "keep"} /\ UNCHANGED ledgerVars
       \/ Submitting /\ Crash
    /\ pc' = "crashed"
    /\ UNCHANGED <<directory, member, stream, raw, captured, remaining, row, admitted, refusal>>

(* Another process replaces a member, writes into it or removes it. *)
Replace ==
    /\ replaced < Replacements
    /\ pc \notin {"accepted", "refused", "crashed"}
    /\ \E name \in NameSet :
         \E content \in Contents[name] \cup {Gone} :
           files' = [files EXCEPT ![name] = content]
    /\ replaced' = replaced + 1
    /\ UNCHANGED <<ledgerVars, reader>>

ReadRecord ==
    MakeMembers \/ Open \/ Read \/ Keep \/ Count \/ Manifest \/ Row \/ Finish \/ FileSystemError

Next == ReadRecord \/ Replace

Spec == Init /\ [][Next]_vars

----------------------------------------------------------------------------
(* An accepted record is one thing: the manifest names exactly the bytes that  *)
(* are kept in the capture directory, and what was admitted, in order and     *)
(* once each, is that manifest and the rows of those very bytes, whatever     *)
(* happened to the files meanwhile.                                          *)
AcceptedIsBound ==
    pc = "accepted" =>
      /\ captured = raw
      /\ captured["manifest"].files = [name \in {"events", "summary"} |-> captured[name]]
      /\ captured["manifest"].derived = captured["events"].rows
      /\ admitted = <<captured["manifest"]>> \o captured["events"].rows

(* What was taken in stays within the input budget, and what is kept within    *)
(* the capture budget, whatever a member grows to between its size check and   *)
(* its last byte.                                                            *)
Taken(name) == IF raw[name] = NotRead THEN 0 ELSE Size(raw[name])

InputBudgetHeld ==
    /\ Taken("manifest") + Taken("events") + Taken("summary") <= Limits.input_bytes
    /\ Within(used)

(* How many entries the rest of a record will take, the largest one that the    *)
(* call budget lets through as long as its rows are not known.                *)
Ahead ==
    CASE pc = "start"                    -> 4 + 5 * Limits.native_calls
      [] pc \in {"open", "read", "keep"} -> 4 - member + 5 * Limits.native_calls
      [] pc = "count"                    -> 5 * Limits.native_calls
      [] pc = "manifest"                 -> 5 * (Len(Rows) + 1)
      [] pc = "rows"                     -> 5 * (Len(Rows) - row + 1)
      [] OTHER                           -> 0

(* Five entries for each call and five more are entries enough: no record that *)
(* the call budget lets through is refused for want of them, in whatever state *)
(* it is, the last row of the largest one included.  The profile's limits are  *)
(* just that, 1000 entries for 199 calls (PROFILE.md; reader.py, retain and    *)
(* document).                                                                *)
EntriesSuffice ==
    Limits.capture_files >= 5 * (Limits.native_calls + 1) /\ status = "open" =>
      used.files + Ahead <= Limits.capture_files

(* The call budget checked up front suffices for the whole record: once the    *)
(* first document is submitted no call is declined for want of calls.         *)
CallsSuffice ==
    pc \in {"manifest", "rows"} /\ status = "open" =>
      done + (IF pc = "manifest" THEN 1 ELSE 0) + (Len(Rows) - row + 1) <= Limits.native_calls
============================================================================
