---------------------------- MODULE TraceProofs ----------------------------
(* Proofs about Trace: what an accepted record is and what it has used,       *)
(* whatever happens to the files, for any contents and any limits; and what   *)
(* is concluded from any events, in any order, and any summary.               *)
EXTENDS Trace, SequenceTheorems, FiniteSetTheorems, FunctionTheorems, WellFoundedInduction, TLAPS

(***************************************************************************)
(* The record.                                                             *)
(***************************************************************************)

Reading == {"open", "read", "keep"}
Judging == {"manifest", "rows", "accepted"}
Ending  == {"refused", "crashed"}

RowCount == Len(Rows)

FilesTyped == \A name \in NameSet : files[name] \in Contents[name] \cup {Gone}

(* What there is in memory is what a file of that name may hold. *)
Typed ==
    /\ pc \in {"start", "count"} \cup Reading \cup Judging \cup Ending
    /\ member \in 1..3
    /\ remaining \in Nat
    /\ row \in Nat \ {0}
    /\ done \in Nat
    /\ used \in [files : Nat, bytes : Nat, output : Nat]
    /\ raw = [name \in NameSet |-> raw[name]]
    /\ captured = [name \in NameSet |-> captured[name]]
    /\ FilesTyped
    /\ \A name \in NameSet : raw[name] \in Contents[name] \cup {NotRead}

(* The members are read in their order, once each, and kept as they were read. *)
HasRead(name) == raw[name] \in Contents[name]
HasKept(name) == captured[name] = raw[name]
Untouched(name) == raw[name] = NotRead

Ordered ==
    /\ pc \in {"start", "open", "read"} =>
         /\ member = 1 => Untouched("manifest")
         /\ member \in {1, 2} => Untouched("events")
         /\ Untouched("summary")
    /\ pc \in Reading =>
         /\ member \in {2, 3} => HasRead("manifest") /\ HasKept("manifest")
         /\ member = 3 => HasRead("events") /\ HasKept("events")
    /\ pc = "keep" =>
         /\ HasRead(Name)
         /\ member = 1 => Untouched("events")
         /\ member \in {1, 2} => Untouched("summary")
    /\ pc = "read" => stream \in Contents[Name]
    /\ pc = "start" => member = 1
    /\ pc \in {"count"} \cup Judging => \A name \in NameSet : HasRead(name) /\ HasKept(name)

(* Where the input budget has gone. *)
Budgeted ==
    /\ Taken("manifest") + Taken("events") + Taken("summary") + remaining <= Limits.input_bytes
    /\ Within(used)

(* The entries and the calls, as the record goes along. *)
Entered ==
    /\ pc = "start" => used.files = 1
    /\ pc \in Reading => used.files = member + 1
    /\ pc \in {"count", "manifest"} => used.files = 5
    /\ pc \in {"rows", "accepted"} => used.files = 5 + 5 * row

Called ==
    /\ pc \in {"start", "count", "manifest"} \cup Reading =>
         done = 0 /\ row = 1 /\ admitted = <<>>
    /\ pc \in {"rows", "accepted"} => done = row
    /\ pc \in Judging => row <= RowCount + 1 /\ RowCount + 1 <= Limits.native_calls
    /\ pc = "accepted" => row = RowCount + 1

(* What has been put to the commands is the manifest and the rows so far. *)
Admitted ==
    pc \in {"rows", "accepted"} =>
      /\ raw["manifest"].files = [name \in {"events", "summary"} |-> raw[name]]
      /\ admitted = <<raw["manifest"]>> \o SubSeq(Rows, 1, row - 1)
      /\ pc = "accepted" => raw["manifest"].derived = Rows

IInv == Typed /\ Ordered /\ Budgeted /\ Entered /\ Called /\ Admitted

----------------------------------------------------------------------------
(* The names, in the order in which they are read. *)
LEMMA NameByMember ==
    /\ member = 1 => Name = "manifest"
    /\ member = 2 => Name = "events"
    /\ member = 3 => Name = "summary"
    /\ member \in 1..3 => Name \in NameSet
BY DEF Name, Names, NameSet

LEMMA LimitsAreNat ==
    /\ Limits.input_bytes \in Nat /\ Limits.native_calls \in Nat /\ Limits.native_output_bytes \in Nat
    /\ Limits.capture_files \in Nat /\ Limits.capture_bytes \in Nat
BY LimitsAssumption

LEMMA TakenIsNat ==
    ASSUME Typed, NEW name \in NameSet
    PROVE  Taken(name) \in Nat
BY SizeAssumption DEF Typed, Taken

(* The rows that were read are a sequence. *)
LEMMA RowsAreSequence ==
    ASSUME HasRead("events")
    PROVE  /\ Rows \in Seq(RowsOf(raw["events"]))
           /\ RowCount \in Nat
           /\ \A i \in 1..RowCount : Rows[i] \in RowsOf(raw["events"]) /\ Size(Rows[i]) \in Nat
<1>1. Rows \in Seq(RowsOf(raw["events"]))
  BY SizeAssumption DEF HasRead, Rows
<1>2. RowCount \in Nat
  BY <1>1, LenProperties DEF RowCount
<1>3. \A i \in 1..RowCount : Rows[i] \in RowsOf(raw["events"])
  BY <1>1, ElementOfSeq DEF RowCount
<1> QED BY <1>1, <1>2, <1>3, SizeAssumption DEF HasRead

LEMMA InitInv == Init => IInv
<1> SUFFICES ASSUME Init PROVE IInv
  OBVIOUS
<1> USE DEF Init, LedgerInit, Fresh, Nowhere
<1>1. Typed
  <2>1. PICK manifest \in Contents["manifest"] \cup {Gone}, text \in Contents["events"] \cup {Gone},
             summary \in Contents["summary"] \cup {Gone} :
          files = [manifest |-> manifest, events |-> text, summary |-> summary]
    OBVIOUS
  <2>2. \A name \in NameSet : files[name] \in Contents[name] \cup {Gone}
    BY <2>1 DEF NameSet
  <2>3. raw = [name \in NameSet |-> raw[name]] /\ captured = [name \in NameSet |-> captured[name]]
    OBVIOUS
  <2>4. \A name \in NameSet : raw[name] = NotRead
    OBVIOUS
  <2>5. used \in [files : Nat, bytes : Nat, output : Nat]
    OBVIOUS
  <2> QED BY <2>2, <2>3, <2>4, <2>5, LimitsAreNat DEF Typed, FilesTyped
<1>2. Ordered
  BY DEF Ordered, Untouched, NameSet, Reading, Judging
<1>3. Budgeted
  <2>1. Taken("manifest") = 0 /\ Taken("events") = 0 /\ Taken("summary") = 0
    BY DEF Taken, NameSet
  <2>2. Within(used)
    BY LimitsAssumption DEF Within
  <2> QED BY <2>1, <2>2, LimitsAreNat DEF Budgeted
<1>4. Entered /\ Called /\ Admitted
  BY DEF Entered, Called, Admitted, Reading, Judging
<1> QED BY <1>1, <1>2, <1>3, <1>4 DEF IInv

(* A record that is given up keeps what it has taken and used. *)
LEMMA EndedInv ==
    ASSUME IInv, pc' \in Ending, Typed', Within(used'), UNCHANGED <<raw, remaining>>
    PROVE  IInv'
<1>1. Budgeted'
  BY DEF IInv, Budgeted, Taken
<1>2. Ordered' /\ Entered' /\ Called' /\ Admitted'
  BY DEF Ordered, Entered, Called, Admitted, Ending, Reading, Judging
<1> QED BY <1>1, <1>2 DEF IInv

LEMMA RefusedInv == ASSUME IInv, NEW class, Refused(class) PROVE IInv'
<1>1. /\ pc' = "refused"
      /\ UNCHANGED <<ledgerVars, directory, member, stream, raw, captured, remaining, row, admitted>>
  BY DEF Refused, Refuse
<1>2. Typed'
  BY <1>1 DEF IInv, Typed, FilesTyped, ledgerVars, directory, Ending
<1>3. Within(used')
  BY <1>1 DEF IInv, Budgeted, ledgerVars
<1> QED BY <1>1, <1>2, <1>3, EndedInv DEF Ending

LEMMA MakeMembersInv == ASSUME IInv, MakeMembers PROVE IInv'
<1>1. CASE Refused("CaptureBudget")
  BY <1>1, RefusedInv
<1>2. CASE /\ pc = "start" /\ used.files + 1 <= Limits.capture_files
           /\ used' = Entry(0) /\ pc' = "open"
           /\ UNCHANGED <<done, directory, member, stream, raw, captured, remaining, row, admitted>>
  <2>1. /\ used' \in [files : Nat, bytes : Nat, output : Nat]
        /\ used'.files = used.files + 1 /\ used'.bytes = used.bytes /\ used'.output = used.output
    BY <1>2 DEF Entry, IInv, Typed
  <2>2. Typed'
    BY <1>2, <2>1 DEF IInv, Typed, FilesTyped, directory, Reading
  <2>3. Ordered'
    BY <1>2 DEF IInv, Ordered, Untouched, HasRead, HasKept, Reading, Judging
  <2>4. Budgeted'
    BY <1>2, <2>1 DEF IInv, Budgeted, Taken, Within
  <2>5. Entered'
    BY <1>2, <2>1 DEF IInv, Ordered, Entered, Reading, Judging
  <2>6. Called' /\ Admitted'
    BY <1>2 DEF IInv, Called, Admitted, Reading, Judging
  <2> QED BY <2>2, <2>3, <2>4, <2>5, <2>6 DEF IInv
<1> QED BY <1>1, <1>2 DEF MakeMembers

LEMMA OpenInv == ASSUME IInv, Open PROVE IInv'
<1>1. CASE \E class : Refused(class)
  BY <1>1, RefusedInv
<1>2. CASE /\ pc = "open" /\ files[Name] # Gone /\ pc' = "read" /\ stream' = files[Name]
           /\ UNCHANGED <<ledgerVars, directory, member, raw, captured, remaining, row, admitted>>
  <2>1. Typed'
    BY <1>2 DEF IInv, Typed, FilesTyped, ledgerVars, directory, Reading
  <2>2. stream' \in Contents[Name]
    BY <1>2, NameByMember DEF IInv, Typed, FilesTyped
  <2>3. Ordered'
    BY <1>2, <2>2 DEF IInv, Ordered, Untouched, HasRead, HasKept, Reading, Judging, Name
  <2>4. Budgeted'
    BY <1>2 DEF IInv, Budgeted, Taken, Within, ledgerVars
  <2>5. Entered' /\ Called' /\ Admitted'
    BY <1>2 DEF IInv, Entered, Called, Admitted, Reading, Judging, ledgerVars
  <2> QED BY <2>1, <2>3, <2>4, <2>5 DEF IInv
<1> QED BY <1>1, <1>2 DEF Open

LEMMA AllowedIsLeft ==
    ASSUME remaining \in Nat, NEW n \in Nat, n <= Allowed
    PROVE  remaining - n \in Nat
BY SizeAssumption DEF Allowed

(* What is read takes the place of nothing. *)
LEMMA TakenOnce ==
    ASSUME Typed, NEW name \in NameSet, NEW content \in Contents[name], Untouched(name),
           raw' = [raw EXCEPT ![name] = content]
    PROVE  /\ \A other \in NameSet \ {name} : raw'[other] = raw[other]
           /\ raw'[name] = content
           /\ Taken("manifest")' + Taken("events")' + Taken("summary")'
                <= Taken("manifest") + Taken("events") + Taken("summary") + Size(content)
<1>1. /\ \A other \in NameSet \ {name} : raw'[other] = raw[other]
      /\ raw'[name] = content
  BY DEF Typed
<1>2. \A other \in NameSet \ {name} : Taken(other)' = Taken(other)
  BY <1>1 DEF Taken
<1>3. /\ Size(content) \in Nat
      /\ Taken(name) = 0 /\ Taken(name)' \in Nat /\ Taken(name)' <= Size(content)
  BY <1>1, SizeAssumption DEF Taken, Untouched
<1>4. Taken("manifest") \in Nat /\ Taken("events") \in Nat /\ Taken("summary") \in Nat
  BY TakenIsNat DEF NameSet
<1>5. CASE name = "manifest"
  <2>1. Taken("events")' = Taken("events") /\ Taken("summary")' = Taken("summary")
    BY <1>2, <1>5 DEF NameSet
  <2> QED BY <1>1, <1>3, <1>4, <1>5, <2>1
<1>6. CASE name = "events"
  <2>1. Taken("manifest")' = Taken("manifest") /\ Taken("summary")' = Taken("summary")
    BY <1>2, <1>6 DEF NameSet
  <2> QED BY <1>1, <1>3, <1>4, <1>6, <2>1
<1>7. CASE name = "summary"
  <2>1. Taken("manifest")' = Taken("manifest") /\ Taken("events")' = Taken("events")
    BY <1>2, <1>7 DEF NameSet
  <2> QED BY <1>1, <1>3, <1>4, <1>7, <2>1
<1> QED BY <1>1, <1>5, <1>6, <1>7 DEF NameSet

LEMMA ReadInv == ASSUME IInv, Read PROVE IInv'
<1>1. CASE Refused("TooLarge")
  BY <1>1, RefusedInv
<1>2. ASSUME NEW content \in {stream} \cup ({files[Name]} \ {Gone}),
             pc = "read", ~(Size(content) > Allowed),
             raw' = [raw EXCEPT ![Name] = content], remaining' = remaining - Size(content),
             pc' = "keep",
             UNCHANGED <<ledgerVars, directory, member, captured, row, admitted>>
      PROVE  IInv'
  <2>1. Name \in NameSet /\ content \in Contents[Name] /\ Size(content) \in Nat
    BY <1>2, NameByMember, SizeAssumption DEF IInv, Typed, FilesTyped, Ordered
  <2>2. Untouched(Name)
    BY <1>2, NameByMember DEF IInv, Typed, Ordered
  <2>3. /\ \A other \in NameSet \ {Name} : raw'[other] = raw[other]
        /\ raw'[Name] = content
        /\ Taken("manifest")' + Taken("events")' + Taken("summary")'
             <= Taken("manifest") + Taken("events") + Taken("summary") + Size(content)
    BY <1>2, <2>1, <2>2, TakenOnce DEF IInv
  <2>4. remaining' \in Nat
    BY <1>2, <2>1, AllowedIsLeft, SizeAssumption DEF IInv, Typed, Allowed
  <2>5. Typed'
    <3>1. raw' = [name \in NameSet |-> raw'[name]]
      BY <1>2 DEF IInv, Typed
    <3>2. \A name \in NameSet : raw'[name] \in Contents[name] \cup {NotRead}
      BY <2>1, <2>3 DEF IInv, Typed
    <3> QED BY <1>2, <2>4, <3>1, <3>2 DEF IInv, Typed, FilesTyped, ledgerVars, directory, Reading
  <2>6. Ordered'
    <3>1. HasRead(Name)'
      BY <1>2, <2>1, <2>3 DEF HasRead, Name
    <3>2. /\ member = 1 => Untouched("events")' /\ Untouched("summary")'
          /\ member = 2 => Untouched("summary")'
          /\ member \in {2, 3} => HasRead("manifest")' /\ HasKept("manifest")'
          /\ member = 3 => HasRead("events")' /\ HasKept("events")'
      BY <1>2, <2>3, NameByMember DEF IInv, Ordered, Untouched, HasRead, HasKept, NameSet, Reading
    <3> QED BY <1>2, <3>1, <3>2 DEF Ordered, Reading, Judging
  <2>7. Budgeted'
    <3>1. /\ Taken("manifest") \in Nat /\ Taken("events") \in Nat /\ Taken("summary") \in Nat
          /\ Taken("manifest")' \in Nat /\ Taken("events")' \in Nat /\ Taken("summary")' \in Nat
      BY <2>5, TakenIsNat, SizeAssumption DEF IInv, NameSet, Typed, Taken
    <3>2. Taken("manifest")' + Taken("events")' + Taken("summary")' + remaining'
            <= Limits.input_bytes
      BY <1>2, <2>1, <2>3, <3>1, LimitsAreNat DEF IInv, Budgeted, Typed
    <3> QED BY <1>2, <3>2 DEF IInv, Budgeted, Within, ledgerVars
  <2>8. Entered' /\ Called' /\ Admitted'
    BY <1>2 DEF IInv, Entered, Called, Admitted, Reading, Judging, ledgerVars
  <2> QED BY <2>5, <2>6, <2>7, <2>8 DEF IInv
<1> QED BY <1>1, <1>2 DEF Read

LEMMA KeepInv == ASSUME IInv, Keep PROVE IInv'
<1>1. CASE Refused("CaptureBudget")
  BY <1>1, RefusedInv
<1>2. CASE /\ pc = "keep" /\ Within(Entry(Size(raw[Name])))
           /\ used' = Entry(Size(raw[Name]))
           /\ captured' = [captured EXCEPT ![Name] = raw[Name]]
           /\ member' = IF member = 3 THEN member ELSE member + 1
           /\ pc' = IF member = 3 THEN "count" ELSE "open"
           /\ UNCHANGED <<done, directory, stream, raw, remaining, row, admitted>>
  <2>1. /\ Name \in NameSet /\ raw[Name] \in Contents[Name] /\ Size(raw[Name]) \in Nat
        /\ member \in 1..3
    BY <1>2, NameByMember, SizeAssumption DEF IInv, Typed, Ordered, HasRead
  <2>2. /\ used' \in [files : Nat, bytes : Nat, output : Nat]
        /\ used'.files = used.files + 1
    BY <1>2, <2>1 DEF Entry, IInv, Typed
  <2>3. /\ captured' = [name \in NameSet |-> captured'[name]]
        /\ captured'[Name] = raw[Name]
        /\ \A other \in NameSet \ {Name} : captured'[other] = captured[other]
    BY <1>2, <2>1 DEF IInv, Typed
  <2>4. member' \in 1..3 /\ (pc' = "open" => member' = member + 1)
    BY <1>2, <2>1
  <2>5. Typed'
    BY <1>2, <2>2, <2>3, <2>4 DEF IInv, Typed, FilesTyped, directory, Reading
  <2>6. Ordered'
    <3>1. CASE member = 1
      BY <1>2, <2>3, <3>1, NameByMember
         DEF IInv, Ordered, Untouched, HasRead, HasKept, NameSet, Reading, Judging
    <3>2. CASE member = 2
      BY <1>2, <2>3, <3>2, NameByMember
         DEF IInv, Ordered, Untouched, HasRead, HasKept, NameSet, Reading, Judging
    <3>3. CASE member = 3
      BY <1>2, <2>3, <3>3, NameByMember
         DEF IInv, Ordered, Untouched, HasRead, HasKept, NameSet, Reading, Judging
    <3> QED BY <2>1, <3>1, <3>2, <3>3
  <2>7. Budgeted'
    BY <1>2 DEF IInv, Budgeted, Taken
  <2>8. Entered'
    <3>1. used.files = member + 1
      BY <1>2 DEF IInv, Entered, Reading
    <3> QED BY <1>2, <2>1, <2>2, <3>1 DEF Entered, Reading, Judging
  <2>9. Called' /\ Admitted'
    BY <1>2 DEF IInv, Called, Admitted, Reading, Judging
  <2> QED BY <2>5, <2>6, <2>7, <2>8, <2>9 DEF IInv
<1> QED BY <1>1, <1>2 DEF Keep

LEMMA CountInv == ASSUME IInv, Count PROVE IInv'
<1>1. CASE \E class : Refused(class)
  BY <1>1, RefusedInv
<1>2. CASE /\ pc = "count" /\ CallsFit /\ pc' = "manifest"
           /\ UNCHANGED <<ledgerVars, directory, member, stream, raw, captured, remaining, row,
                          admitted>>
  <2>1. Typed'
    BY <1>2 DEF IInv, Typed, FilesTyped, ledgerVars, directory, Judging
  <2>2. Ordered'
    BY <1>2 DEF IInv, Ordered, HasRead, HasKept, Reading, Judging
  <2>3. Budgeted'
    BY <1>2 DEF IInv, Budgeted, Taken, Within, ledgerVars
  <2>4. Entered' /\ Admitted'
    BY <1>2 DEF IInv, Entered, Admitted, Reading, ledgerVars
  <2>5. Called'
    <3>1. HasRead("events")
      BY <1>2 DEF IInv, Ordered, NameSet
    <3>2. RowCount \in Nat /\ RowCount + 1 <= Limits.native_calls /\ RowCount' = RowCount
      BY <1>2, <3>1, RowsAreSequence DEF CallsFit, RowCount, Rows
    <3>3. done = 0 /\ row = 1 /\ admitted = <<>>
      BY <1>2 DEF IInv, Called
    <3> QED BY <1>2, <3>2, <3>3 DEF Called, Judging, ledgerVars
  <2> QED BY <2>1, <2>2, <2>3, <2>4, <2>5 DEF IInv
<1> QED BY <1>1, <1>2 DEF Count

(* What document() leaves behind: a refusal, or a document put to the          *)
(* commands, charged, and found to be what the reader accepts.               *)
LEMMA DocumentOutcome ==
    ASSUME IInv, NEW document, NEW good, NEW next, NEW accepted, NEW class,
           Document(document, good, next, accepted, class), Size(document) \in Nat
    PROVE  /\ used' \in [files : Nat, bytes : Nat, output : Nat] /\ Within(used') /\ done' \in Nat
           /\ UNCHANGED <<directory, member, stream, raw, captured, remaining>>
           /\ \/ pc' = "refused"
              \/ /\ pc' = next /\ accepted
                 /\ used'.files = used.files + 5 /\ done' = done + 1
                 /\ admitted' = Append(admitted, document)
<1>0. /\ used \in [files : Nat, bytes : Nat, output : Nat] /\ Within(used) /\ done \in Nat
      /\ used.files \in Nat /\ used.bytes \in Nat /\ used.output \in Nat
      /\ used.output <= Limits.native_output_bytes
  BY DEF IInv, Typed, Budgeted, Within
<1>1. UNCHANGED <<directory, member, stream, raw, captured, remaining>>
  BY DEF Document
<1>2. CASE \E verdict \in {"open", "refused"} : Call(Size(document), verdict)
  <2>1. PICK verdict \in {"open", "refused"} : Call(Size(document), verdict)
    BY <1>2
  <2>2. PICK printed \in Outputs, receipt \in Receipts :
          /\ used' = Charged(Size(document), printed, receipt)
          /\ Within(Charged(Size(document), printed, receipt))
    BY <2>1 DEF Call
  <2>3. printed \in Nat /\ receipt \in Nat
    BY <1>0, <2>2, LimitsAreNat, SizeAssumption DEF Outputs, Receipts
  <2>4. /\ used' \in [files : Nat, bytes : Nat, output : Nat] /\ Within(used')
        /\ used'.files = used.files + 5
    BY <1>0, <2>2, <2>3 DEF Charged
  <2>5. done' = done + 1
    BY <2>1 DEF Call
  <2>6. CASE admitted' = Append(admitted, document)
    <3>1. pc' = "refused" \/ (pc' = next /\ accepted)
      BY DEF Document
    <3> QED BY <1>0, <1>1, <2>4, <2>5, <2>6, <3>1
  <2>7. CASE Declined(Size(document)) /\ UNCHANGED admitted
    BY <1>0, <1>1, <2>7 DEF Document, Declined
  <2> QED BY <2>6, <2>7 DEF Document
<1>3. CASE Declined(Size(document))
  BY <1>0, <1>1, <1>3 DEF Document, Declined
<1> QED BY <1>2, <1>3 DEF Document

LEMMA ManifestInv == ASSUME IInv, Manifest PROVE IInv'
<1> DEFINE manifest == raw["manifest"]
<1>0. /\ pc = "manifest" /\ row' = row
      /\ \A name \in NameSet : HasRead(name) /\ HasKept(name)
      /\ done = 0 /\ row = 1 /\ admitted = <<>> /\ used.files = 5
      /\ row <= RowCount + 1 /\ RowCount + 1 <= Limits.native_calls
  BY DEF Manifest, IInv, Ordered, Called, Entered, Judging
<1>1. Size(manifest) \in Nat
  BY <1>0, SizeAssumption DEF HasRead, NameSet
<1>2. PICK class : Document(manifest, manifest.good, "rows", manifest.shaped /\ BindsMembers, class)
  BY DEF Manifest
<1>3. /\ used' \in [files : Nat, bytes : Nat, output : Nat] /\ Within(used') /\ done' \in Nat
      /\ UNCHANGED <<directory, member, stream, raw, captured, remaining>>
      /\ \/ pc' = "refused"
         \/ /\ pc' = "rows" /\ BindsMembers
            /\ used'.files = used.files + 5 /\ done' = done + 1
            /\ admitted' = Append(admitted, manifest)
  BY <1>1, <1>2, DocumentOutcome
<1>4. Typed'
  BY <1>0, <1>3 DEF IInv, Typed, FilesTyped, directory, Judging, Ending
<1>5. CASE pc' = "refused"
  BY <1>3, <1>4, <1>5, EndedInv DEF Ending
<1>6. CASE /\ pc' = "rows" /\ BindsMembers
           /\ used'.files = used.files + 5 /\ done' = done + 1
           /\ admitted' = Append(admitted, manifest)
  <2>1. Ordered'
    BY <1>0, <1>3, <1>6 DEF Ordered, HasRead, HasKept, Reading, Judging
  <2>2. Budgeted'
    BY <1>3 DEF IInv, Budgeted, Taken
  <2>3. Entered'
    BY <1>0, <1>6 DEF Entered, Reading
  <2>4. Called'
    BY <1>0, <1>3, <1>6 DEF Called, Reading, Judging, RowCount, Rows
  <2>5. Admitted'
    <3>1. admitted' = <<manifest>>
      BY <1>0, <1>6
    <3>2. SubSeq(Rows, 1, 0) = <<>>
      BY SubSeqEmpty
    <3>3. <<manifest>> \o <<>> = <<manifest>>
      OBVIOUS
    <3>4. admitted' = <<raw'["manifest"]>> \o SubSeq(Rows', 1, row' - 1)
      BY <1>0, <1>3, <3>1, <3>2, <3>3 DEF Rows
    <3> QED BY <1>3, <1>6, <3>4 DEF Admitted, BindsMembers, Hashed
  <2> QED BY <1>4, <2>1, <2>2, <2>3, <2>4, <2>5 DEF IInv
<1> QED BY <1>3, <1>5, <1>6

(* One more row behind those admitted so far. *)
LEMMA NextRowAdmitted ==
    ASSUME HasRead("events"), row \in 1..RowCount, NEW first
    PROVE  Append(<<first>> \o SubSeq(Rows, 1, row - 1), Rows[row])
             = <<first>> \o SubSeq(Rows, 1, row)
<1> DEFINE S == RowsOf(raw["events"]) \cup {first}
<1>1. RowCount \in Nat /\ row \in Nat /\ RowCount = Len(Rows) /\ Rows \in Seq(S)
  <2>1. Rows \in Seq(RowsOf(raw["events"])) /\ RowCount \in Nat
    BY RowsAreSequence
  <2> QED BY <2>1, SeqMonotonic DEF RowCount
<1>2. SubSeq(Rows, 1, row) = SubSeq(Rows, 1, row - 1) \o <<Rows[row]>>
  BY <1>1, SubSeqRecursiveSecond
<1>3. SubSeq(Rows, 1, row - 1) \in Seq(S) /\ Rows[row] \in S
  <2>1. \A i \in 1..(row - 1) : Rows[i] \in S
    BY <1>1, ElementOfSeq
  <2> QED BY <1>1, <2>1, SubSeqProperties, ElementOfSeq
<1>4. <<first>> \in Seq(S) /\ <<Rows[row]>> \in Seq(S)
  BY <1>3
<1>5. (<<first>> \o SubSeq(Rows, 1, row - 1)) \in Seq(S)
  BY <1>3, <1>4, ConcatProperties
<1>6. Append(<<first>> \o SubSeq(Rows, 1, row - 1), Rows[row])
        = (<<first>> \o SubSeq(Rows, 1, row - 1)) \o <<Rows[row]>>
  BY <1>3, <1>5, AppendIsConcat
<1> QED BY <1>2, <1>3, <1>4, <1>6, ConcatAssociative

LEMMA RowInv == ASSUME IInv, Row PROVE IInv'
<1>0. /\ pc = "rows" /\ \A name \in NameSet : HasRead(name) /\ HasKept(name)
      /\ done = row /\ used.files = 5 + 5 * row /\ row \in Nat \ {0}
      /\ RowCount + 1 <= Limits.native_calls
      /\ raw["manifest"].files = [name \in {"events", "summary"} |-> raw[name]]
      /\ admitted = <<raw["manifest"]>> \o SubSeq(Rows, 1, row - 1)
  BY DEF Row, IInv, Typed, Ordered, Called, Entered, Admitted, Judging
<1>1. RowCount \in Nat /\ row \in 1..RowCount /\ Size(Rows[row]) \in Nat
  <2>1. RowCount \in Nat /\ \A i \in 1..RowCount : Size(Rows[i]) \in Nat
    BY <1>0, RowsAreSequence DEF NameSet
  <2>2. row <= RowCount
    BY DEF Row, RowCount
  <2> QED BY <1>0, <2>1, <2>2
<1>2. CASE Refused("BlankEvent")
  BY <1>2, RefusedInv
<1>3. ASSUME NEW good, NEW accepted, NEW class, row' = row + 1,
             Document(Rows[row], good, "rows", accepted, class)
      PROVE  IInv'
  <2>1. /\ used' \in [files : Nat, bytes : Nat, output : Nat] /\ Within(used') /\ done' \in Nat
        /\ UNCHANGED <<directory, member, stream, raw, captured, remaining>>
        /\ \/ pc' = "refused"
           \/ /\ pc' = "rows"
              /\ used'.files = used.files + 5 /\ done' = done + 1
              /\ admitted' = Append(admitted, Rows[row])
    BY <1>1, <1>3, DocumentOutcome
  <2>2. Typed'
    BY <1>0, <1>3, <2>1 DEF IInv, Typed, FilesTyped, directory, Judging, Ending
  <2>3. CASE pc' = "refused"
    BY <2>1, <2>2, <2>3, EndedInv DEF Ending
  <2>4. CASE /\ pc' = "rows"
             /\ used'.files = used.files + 5 /\ done' = done + 1
             /\ admitted' = Append(admitted, Rows[row])
    <3>1. Ordered'
      BY <1>0, <2>1, <2>4 DEF Ordered, HasRead, HasKept, Reading, Judging
    <3>2. Budgeted'
      BY <2>1 DEF IInv, Budgeted, Taken
    <3>3. Entered'
      BY <1>0, <1>3, <2>4 DEF Entered, Reading
    <3>4. Called'
      <4>1. RowCount' = RowCount /\ row' <= RowCount + 1
        BY <1>0, <1>1, <1>3, <2>1 DEF RowCount, Rows
      <4> QED BY <1>0, <1>3, <2>4, <4>1 DEF Called, Reading, Judging
    <3>5. Admitted'
      <4>1. admitted' = <<raw["manifest"]>> \o SubSeq(Rows, 1, row)
        BY <1>0, <1>1, <2>4, NextRowAdmitted DEF NameSet
      <4>2. row' - 1 = row /\ Rows' = Rows
        BY <1>0, <1>3, <2>1 DEF Rows
      <4> QED BY <1>0, <2>1, <2>4, <4>1, <4>2 DEF Admitted
    <3> QED BY <2>2, <3>1, <3>2, <3>3, <3>4, <3>5 DEF IInv
  <2> QED BY <2>1, <2>3, <2>4
<1> QED BY <1>2, <1>3 DEF Row

LEMMA FinishInv == ASSUME IInv, Finish PROVE IInv'
<1>1. CASE \E class : Refused(class)
  BY <1>1, RefusedInv
<1>2. CASE /\ pc = "rows" /\ row > Len(Rows) /\ raw["manifest"].derived = Rows
           /\ pc' = "accepted"
           /\ UNCHANGED <<ledgerVars, directory, member, stream, raw, captured, remaining, row,
                          admitted>>
  <2>1. Typed'
    BY <1>2 DEF IInv, Typed, FilesTyped, ledgerVars, directory, Judging
  <2>2. Ordered'
    BY <1>2 DEF IInv, Ordered, HasRead, HasKept, Reading, Judging
  <2>3. Budgeted'
    BY <1>2 DEF IInv, Budgeted, Taken, Within, ledgerVars
  <2>4. Entered'
    BY <1>2 DEF IInv, Entered, Reading, ledgerVars
  <2>5. Called'
    <3>1. /\ RowCount \in Nat /\ row \in Nat
          /\ row <= RowCount + 1 /\ RowCount + 1 <= Limits.native_calls /\ done = row
      BY <1>2, RowsAreSequence DEF IInv, Typed, Called, Ordered, Judging, NameSet
    <3>2. row > RowCount /\ RowCount' = RowCount
      BY <1>2 DEF RowCount, Rows
    <3>3. row = RowCount + 1
      BY <3>1, <3>2
    <3> QED BY <1>2, <3>1, <3>2, <3>3 DEF Called, Reading, Judging, ledgerVars
  <2>6. Admitted'
    BY <1>2 DEF IInv, Admitted, Rows
  <2> QED BY <2>1, <2>2, <2>3, <2>4, <2>5, <2>6 DEF IInv
<1> QED BY <1>1, <1>2 DEF Finish

LEMMA FileSystemErrorInv == ASSUME IInv, FileSystemError PROVE IInv'
<1>0. /\ pc' = "crashed"
      /\ UNCHANGED <<directory, member, stream, raw, captured, remaining, row, admitted>>
      /\ UNCHANGED ledgerVars \/ Crash
  BY DEF FileSystemError
<1>1. /\ used' \in [files : Nat, bytes : Nat, output : Nat] /\ Within(used') /\ done' = done
  <2>1. /\ used \in [files : Nat, bytes : Nat, output : Nat] /\ Within(used)
        /\ used.files \in Nat /\ used.bytes \in Nat /\ used.output \in Nat
    BY DEF IInv, Typed, Budgeted
  <2>2. CASE UNCHANGED ledgerVars
    BY <2>1, <2>2 DEF ledgerVars
  <2>3. CASE Crash
    <3>1. used' \in [files : used.files..used.files + 5, bytes : used.bytes..Limits.capture_bytes,
                     output : used.output..Limits.native_output_bytes]
      BY <2>3 DEF Crash
    <3>2. used' \in [files : Nat, bytes : Nat, output : Nat]
      BY <2>1, <3>1, LimitsAreNat
    <3> QED BY <2>3, <3>2 DEF Crash
  <2> QED BY <1>0, <2>2, <2>3
<1>2. Typed'
  BY <1>0, <1>1 DEF IInv, Typed, FilesTyped, directory, Ending
<1> QED BY <1>0, <1>1, <1>2, EndedInv DEF Ending

(* Nothing that was read depends on what becomes of the files. *)
LEMMA OthersInv ==
    ASSUME IInv, UNCHANGED <<ledgerVars, reader>>,
           FilesTyped'
    PROVE  IInv'
<1>1. Typed'
  BY DEF IInv, Typed, ledgerVars, reader
<1>2. Ordered'
  BY DEF IInv, Ordered, HasRead, HasKept, Untouched, Name, reader
<1>3. Budgeted'
  BY DEF IInv, Budgeted, Taken, Within, ledgerVars, reader
<1>4. Entered' /\ Called' /\ Admitted'
  BY DEF IInv, Entered, Called, Admitted, RowCount, Rows, ledgerVars, reader
<1> QED BY <1>1, <1>2, <1>3, <1>4 DEF IInv

LEMMA ReplaceInv == ASSUME IInv, Replace PROVE IInv'
<1>1. PICK name \in NameSet : \E content \in Contents[name] \cup {Gone} :
        files' = [files EXCEPT ![name] = content]
  BY DEF Replace
<1>2. FilesTyped'
  BY <1>1 DEF IInv, Typed, FilesTyped
<1> QED BY <1>2, OthersInv DEF Replace

LEMMA Inductive == Spec => []IInv
<1>1. IInv /\ [Next]_vars => IInv'
  <2> SUFFICES ASSUME IInv, [Next]_vars PROVE IInv'
    OBVIOUS
  <2>1. CASE ReadRecord
    BY <2>1, MakeMembersInv, OpenInv, ReadInv, KeepInv, CountInv, ManifestInv, RowInv, FinishInv,
       FileSystemErrorInv DEF ReadRecord
  <2>2. CASE Replace
    BY <2>2, ReplaceInv
  <2>3. CASE UNCHANGED vars
    BY <2>3, OthersInv DEF vars, directory, IInv, Typed, FilesTyped
  <2> QED BY <2>1, <2>2, <2>3 DEF Next
<1> QED BY <1>1, InitInv, PTL DEF Spec

----------------------------------------------------------------------------
(* However the files are replaced, written into or removed while they are    *)
(* read, the manifest of an accepted record names exactly what is kept, and   *)
(* that manifest and those rows, in order, are what the commands were given.  *)
THEOREM AcceptedBound == Spec => []AcceptedIsBound
<1>1. IInv => AcceptedIsBound
  <2> SUFFICES ASSUME IInv, pc = "accepted"
               PROVE  /\ captured = raw
                      /\ raw["manifest"].files = [name \in {"events", "summary"} |-> raw[name]]
                      /\ raw["manifest"].derived = raw["events"].rows
                      /\ admitted = <<raw["manifest"]>> \o raw["events"].rows
    BY DEF AcceptedIsBound
  <2>1. captured = raw
    BY DEF IInv, Typed, Ordered, HasKept, Judging
  <2>2. SubSeq(Rows, 1, row - 1) = Rows
    <3>1. Rows \in Seq(RowsOf(raw["events"])) /\ RowCount \in Nat
      BY RowsAreSequence DEF IInv, Ordered, Judging, NameSet
    <3>2. row - 1 = RowCount
      BY <3>1 DEF IInv, Called
    <3> QED BY <3>1, <3>2, SubSeqFull DEF RowCount
  <2> QED BY <2>1, <2>2 DEF IInv, Admitted, Rows
<1> QED BY <1>1, Inductive, PTL

(* Whatever a member grows to between its size check and its last byte, what  *)
(* was taken in is within the input budget and what is kept within the        *)
(* capture budget.                                                           *)
THEOREM BudgetsHeld == Spec => []InputBudgetHeld
<1>1. IInv => InputBudgetHeld
  <2> SUFFICES ASSUME IInv PROVE InputBudgetHeld
    OBVIOUS
  <2>1. Taken("manifest") \in Nat /\ Taken("events") \in Nat /\ Taken("summary") \in Nat
    BY TakenIsNat DEF IInv, NameSet
  <2> QED BY <2>1, LimitsAreNat DEF IInv, Budgeted, Typed, InputBudgetHeld
<1> QED BY <1>1, Inductive, PTL

(* Where the profile gives five entries for each call and five more, no record  *)
(* that fits the call budget is refused for want of entries, whatever its rows *)
(* (PROFILE.md, 1000 entries for 199 calls; reader.py, retain and document).   *)
THEOREM EntriesAreEnough == Spec => []EntriesSuffice
<1>1. IInv => EntriesSuffice
  <2> SUFFICES ASSUME IInv, Limits.capture_files >= 5 * (Limits.native_calls + 1)
               PROVE  used.files + Ahead <= Limits.capture_files \/ status # "open"
    BY DEF EntriesSuffice
  <2> DEFINE calls == Limits.native_calls
  <2>1. Limits.capture_files \in Nat /\ calls \in Nat
    BY LimitsAreNat
  <2> HIDE DEF calls
  <2>2. Limits.capture_files >= 5 * (calls + 1)
    BY DEF calls
  <2>3. CASE pc = "start"
    BY <2>1, <2>2, <2>3 DEF IInv, Entered, Ahead, calls
  <2>4. CASE pc \in {"open", "read", "keep"}
    <3>1. used.files = member + 1 /\ member \in 1..3
      BY <2>4 DEF IInv, Entered, Reading, Typed
    <3>2. Ahead = 4 - member + 5 * calls
      BY <2>4 DEF Ahead, calls
    <3> QED BY <2>1, <2>2, <3>1, <3>2
  <2>5. CASE pc = "count"
    <3>1. used.files = 5 /\ Ahead = 5 * calls
      BY <2>5 DEF IInv, Entered, Ahead, calls
    <3> QED BY <2>1, <2>2, <3>1
  <2>6. CASE pc \in {"manifest", "rows"}
    <3>1. /\ RowCount \in Nat /\ RowCount + 1 <= calls
          /\ pc = "manifest" => used.files = 5 /\ Ahead = 5 * (RowCount + 1)
          /\ pc = "rows" => /\ used.files = 5 + 5 * row /\ row \in Nat
                           /\ Ahead = 5 * (RowCount - row + 1)
      BY <2>6, RowsAreSequence DEF IInv, Typed, Ordered, Judging, NameSet, Called, Entered,
         Ahead, RowCount, calls
    <3> QED BY <2>1, <2>2, <2>6, <3>1
  <2>7. CASE pc \in Ending \/ pc = "accepted"
    <3>1. Ahead = 0 /\ Within(used) /\ used.files \in Nat
      BY <2>7 DEF Ahead, Ending, IInv, Budgeted, Typed
    <3> QED BY <3>1, LimitsAreNat DEF Within
  <2> QED BY <2>3, <2>4, <2>5, <2>6, <2>7 DEF IInv, Typed, Ending, Reading, Judging
<1> QED BY <1>1, Inductive, PTL

(* Once the first document is submitted, no call is declined for want of calls. *)
THEOREM CallsAreEnough == Spec => []CallsSuffice
<1>1. IInv => CallsSuffice
  <2> SUFFICES ASSUME IInv, pc \in {"manifest", "rows"}
               PROVE  done + (IF pc = "manifest" THEN 1 ELSE 0) + (Len(Rows) - row + 1)
                        <= Limits.native_calls
    BY DEF CallsSuffice
  <2>1. /\ RowCount \in Nat /\ RowCount + 1 <= Limits.native_calls
        /\ pc = "manifest" => done = 0 /\ row = 1
        /\ pc = "rows" => done = row /\ row \in Nat
    BY RowsAreSequence DEF IInv, Typed, Ordered, Judging, NameSet, Called
  <2>2. done + (IF pc = "manifest" THEN 1 ELSE 0) + (RowCount - row + 1) <= Limits.native_calls
    BY <2>1, LimitsAreNat
  <2> QED BY <2>2 DEF RowCount
<1> QED BY <1>1, Inductive, PTL

(***************************************************************************)
(* The projection.                                                         *)
(***************************************************************************)
(* The library states that numbers are well-founded as a relation.            *)
LEMMA Less == OpToRel(<, Nat) = {ss \in Nat \X Nat : ss[1] < ss[2]}
BY Zenon DEF OpToRel

LEMMA Least ==
    ASSUME NEW T, T \subseteq Nat, T # {}
    PROVE  \E n \in T : \A m \in T : n <= m
<1> DEFINE R == {ss \in Nat \X Nat : ss[1] < ss[2]}
<1>1. IsWellFoundedOn(R, Nat)
  BY NatLessThanWellFounded, Less, Zenon
<1>2. PICK n \in T : \A m \in T : ~(<<m, n>> \in R)
  <2> HIDE DEF R
  <2> QED BY <1>1, WFMin
<1>3. ASSUME NEW m \in T PROVE n <= m
  <2>1. ~(m < n)
    BY <1>2, <1>3
  <2> QED BY <2>1
<1> QED BY <1>3

(* Min picks one of the rows. *)
LEMMA FirstIsOne ==
    ASSUME NEW T, T \subseteq Nat, T # {}
    PROVE  Projection!Min(T) \in T
BY Least DEF Projection!Min

(* What a list of checks comes to: none of them refuses.                      *)
LEMMA NoneFails ==
    ASSUME NEW checks, DOMAIN checks \subseteq Nat
    PROVE  Projection!FirstOf(checks) = "none" <=> \A i \in DOMAIN checks : checks[i] = "none"
<1> DEFINE failed == {i \in DOMAIN checks : checks[i] # "none"}
<1>1. Projection!FirstOf(checks)
        = IF failed = {} THEN "none" ELSE checks[Projection!Min(failed)]
  BY DEF Projection!FirstOf
<1>2. CASE failed = {}
  BY <1>1, <1>2
<1>3. CASE failed # {}
  <2>1. Projection!Min(failed) \in failed
    BY <1>3, FirstIsOne
  <2> QED BY <1>1, <1>3, <2>1
<1> QED BY <1>2, <1>3

(* The same of the lists there are, by their length. *)
LEMMA TwoChecks ==
    ASSUME NEW c1, NEW c2
    PROVE  Projection!FirstOf(<<c1, c2>>) = "none" <=> c1 = "none" /\ c2 = "none"
<1> DEFINE checks == <<c1, c2>>
<1>1. DOMAIN checks = {1, 2} /\ checks[1] = c1 /\ checks[2] = c2
  OBVIOUS
<1> HIDE DEF checks
<1>2. DOMAIN checks \subseteq Nat
  BY <1>1
<1>3. Projection!FirstOf(checks) = "none" <=> \A i \in DOMAIN checks : checks[i] = "none"
  BY <1>2, NoneFails
<1>4. Projection!FirstOf(checks) = "none" <=> c1 = "none" /\ c2 = "none"
  BY <1>1, <1>3
<1> QED BY <1>4 DEF checks

LEMMA ThreeChecks ==
    ASSUME NEW c1, NEW c2, NEW c3
    PROVE  Projection!FirstOf(<<c1, c2, c3>>) = "none" <=> c1 = "none" /\ c2 = "none" /\ c3 = "none"
<1> DEFINE checks == <<c1, c2, c3>>
<1>1. DOMAIN checks = {1, 2, 3} /\ checks[1] = c1 /\ checks[2] = c2 /\ checks[3] = c3
  OBVIOUS
<1> HIDE DEF checks
<1>2. DOMAIN checks \subseteq Nat
  BY <1>1
<1>3. Projection!FirstOf(checks) = "none" <=> \A i \in DOMAIN checks : checks[i] = "none"
  BY <1>2, NoneFails
<1>4. Projection!FirstOf(checks) = "none" <=> c1 = "none" /\ c2 = "none" /\ c3 = "none"
  BY <1>1, <1>3
<1> QED BY <1>4 DEF checks

LEMMA FourChecks ==
    ASSUME NEW c1, NEW c2, NEW c3, NEW c4
    PROVE  Projection!FirstOf(<<c1, c2, c3, c4>>) = "none"
             <=> c1 = "none" /\ c2 = "none" /\ c3 = "none" /\ c4 = "none"
<1> DEFINE checks == <<c1, c2, c3, c4>>
<1>1. /\ DOMAIN checks = {1, 2, 3, 4}
      /\ checks[1] = c1 /\ checks[2] = c2 /\ checks[3] = c3 /\ checks[4] = c4
  OBVIOUS
<1> HIDE DEF checks
<1>2. DOMAIN checks \subseteq Nat
  BY <1>1
<1>3. Projection!FirstOf(checks) = "none" <=> \A i \in DOMAIN checks : checks[i] = "none"
  BY <1>2, NoneFails
<1>4. Projection!FirstOf(checks) = "none"
        <=> c1 = "none" /\ c2 = "none" /\ c3 = "none" /\ c4 = "none"
  BY <1>1, <1>3
<1> QED BY <1>4 DEF checks

LEMMA FiveChecks ==
    ASSUME NEW c1, NEW c2, NEW c3, NEW c4, NEW c5
    PROVE  Projection!FirstOf(<<c1, c2, c3, c4, c5>>) = "none"
             <=> c1 = "none" /\ c2 = "none" /\ c3 = "none" /\ c4 = "none" /\ c5 = "none"
<1> DEFINE checks == <<c1, c2, c3, c4, c5>>
<1>1. /\ DOMAIN checks = {1, 2, 3, 4, 5}
      /\ checks[1] = c1 /\ checks[2] = c2 /\ checks[3] = c3 /\ checks[4] = c4 /\ checks[5] = c5
  OBVIOUS
<1> HIDE DEF checks
<1>2. DOMAIN checks \subseteq Nat
  BY <1>1
<1>3. Projection!FirstOf(checks) = "none" <=> \A i \in DOMAIN checks : checks[i] = "none"
  BY <1>2, NoneFails
<1>4. Projection!FirstOf(checks) = "none"
        <=> c1 = "none" /\ c2 = "none" /\ c3 = "none" /\ c4 = "none" /\ c5 = "none"
  BY <1>1, <1>3
<1> QED BY <1>4 DEF checks

(* The rows of a kind and a session that were met so far. *)
Met(kind, s) == {i \in Projection!At(kind, s) : i < position}

(* What inspect_events has collected is what it has met: of each session one   *)
(* decision and one line of the log at most, each of them in its shape.        *)
Collected ==
    /\ events \in Files
    /\ position \in 1..(Len(events) + 1)
    /\ decisions = [s \in Sessions |-> decisions[s]]
    /\ logs = [s \in Sessions |-> logs[s]]
    /\ \A i \in DOMAIN events : i < position => ~Projection!Unidentified(events[i])
    /\ \A s \in Sessions :
         \/ decisions[s] = Nobody /\ Met("decision", s) = {}
         \/ \E i \in DOMAIN events :
              Met("decision", s) = {i} /\ decisions[s] = events[i] /\ events[i].shaped
    /\ \A s \in Sessions :
         \/ logs[s] = Nobody /\ Met("decision_log_line", s) = {}
         \/ \E i \in DOMAIN events :
              /\ Met("decision_log_line", s) = {i} /\ logs[s] = events[i].line
              /\ events[i].line.session = s /\ events[i].line.shaped

(* It goes on past the last row only with every line bound, and a row it has   *)
(* refused is refused with reason.                                             *)
Decided ==
    /\ at \in {"events", "derive", "results", "derived", "refused"}
    /\ at \in {"derive", "results", "derived"} =>
         position = Len(events) + 1 /\ \A s \in Sessions : Projection!Bound(s)
    /\ at = "refused" /\ position <= Len(events) => ~Projection!Sound

(* What a file is assumed to be, of the one that is read. *)
LEMMA EventsAreRows ==
    ASSUME events \in Files
    PROVE  /\ Len(events) \in Nat /\ DOMAIN events = 1..Len(events)
           /\ \A i \in DOMAIN events :
                /\ events[i] # Nobody
                /\ events[i].kind \in {"decision", "decision_log_line"} =>
                     events[i].session \in Sessions \cup {Nobody}
                /\ events[i].kind = "decision_log_line" => events[i].line # Nobody
<1>1. /\ events \in Seq(Projection!ToSet(events))
      /\ \A e \in Projection!ToSet(events) :
           /\ e # Nobody
           /\ e.kind \in {"decision", "decision_log_line"} => e.session \in Sessions \cup {Nobody}
           /\ e.kind = "decision_log_line" => e.line # Nobody
  BY FilesAssumption DEF Projection!FilesFit
<1>2. Len(events) \in Nat /\ DOMAIN events = 1..Len(events)
  BY <1>1, LenProperties
<1>3. \A i \in DOMAIN events : events[i] \in Projection!ToSet(events)
  BY DEF Projection!ToSet
<1> QED BY <1>1, <1>2, <1>3

LEMMA SameCardinality == \A S : Projection!Cardinality(S) = Cardinality(S)
BY DEF Projection!Cardinality, Cardinality

(* At most one, of some rows of the file. *)
LEMMA AtMostOne ==
    ASSUME events \in Files, NEW rows, rows \subseteq DOMAIN events
    PROVE  Projection!Cardinality(rows) <= 1 <=> \A i, j \in rows : i = j
<1>1. IsFiniteSet(rows)
  <2>1. Len(events) \in Nat /\ DOMAIN events = 1..Len(events)
    BY EventsAreRows
  <2>2. IsFiniteSet(1..Len(events))
    BY <2>1, FS_Interval
  <2> QED BY <2>1, <2>2, FS_Subset
<1>2. Cardinality(rows) \in Nat
  BY <1>1, FS_CardinalityType
<1>3. Cardinality(rows) = 0 <=> rows = {}
  BY <1>1, FS_EmptySet
<1>4. Cardinality(rows) = 1 <=> \E i : rows = {i}
  BY <1>1, FS_Singleton
<1>5. (\A i, j \in rows : i = j) <=> rows = {} \/ \E i : rows = {i}
  OBVIOUS
<1>6. Cardinality(rows) <= 1 <=> Cardinality(rows) = 0 \/ Cardinality(rows) = 1
  BY <1>2
<1> QED BY <1>3, <1>4, <1>5, <1>6, SameCardinality
(* What has been met of a whole file is all there is. *)
LEMMA WholeFile ==
    ASSUME Collected, position = Len(events) + 1
    PROVE  (\A s \in Sessions : Projection!Bound(s)) <=> Projection!Sound
<1>0. events \in Files
  BY DEF Collected
<1>1. /\ Len(events) \in Nat /\ DOMAIN events = 1..Len(events)
      /\ \A i \in DOMAIN events :
           /\ events[i] # Nobody
           /\ events[i].kind = "decision_log_line" => events[i].line # Nobody
  BY <1>0, EventsAreRows
<1>2. \A kind, s : Met(kind, s) = Projection!At(kind, s)
  BY <1>1 DEF Met, Projection!At
<1>3. \A kind, s : Projection!At(kind, s) \subseteq DOMAIN events
  BY DEF Projection!At
<1>4. \A s \in Sessions : \A kind \in {"decision", "decision_log_line"} :
        Projection!Cardinality(Projection!At(kind, s)) <= 1
  <2> SUFFICES ASSUME NEW s \in Sessions, NEW kind \in {"decision", "decision_log_line"}
               PROVE  Projection!Cardinality(Projection!At(kind, s)) <= 1
    OBVIOUS
  <2>1. Projection!At(kind, s) = {} \/ \E i : Projection!At(kind, s) = {i}
    <3>1. CASE kind = "decision"
      BY <1>2, <3>1 DEF Collected
    <3>2. CASE kind = "decision_log_line"
      BY <1>2, <3>2 DEF Collected
    <3> QED BY <3>1, <3>2
  <2>2. \A i, j \in Projection!At(kind, s) : i = j
    BY <2>1
  <2> QED BY <1>0, <1>3, <2>2, AtMostOne
<1>5. ASSUME NEW s \in Sessions
      PROVE  /\ \A i \in Projection!At("decision", s) : decisions[s] = events[i] /\ events[i].shaped
             /\ decisions[s] # Nobody => \E i \in Projection!At("decision", s) : TRUE
             /\ \A i \in Projection!At("decision_log_line", s) :
                  /\ logs[s] = events[i].line /\ logs[s] # Nobody
                  /\ events[i].line.session = s /\ events[i].line.shaped
             /\ logs[s] # Nobody => \E i \in Projection!At("decision_log_line", s) : TRUE
  <2>1. \/ decisions[s] = Nobody /\ Projection!At("decision", s) = {}
        \/ \E i \in DOMAIN events :
             /\ Projection!At("decision", s) = {i} /\ decisions[s] = events[i]
             /\ events[i].shaped
    BY <1>2 DEF Collected
  <2>2. \/ logs[s] = Nobody /\ Projection!At("decision_log_line", s) = {}
        \/ \E i \in DOMAIN events :
             /\ Projection!At("decision_log_line", s) = {i} /\ logs[s] = events[i].line
             /\ events[i].line.session = s /\ events[i].line.shaped
    BY <1>2 DEF Collected
  <2>3. \A i \in Projection!At("decision_log_line", s) : events[i].line # Nobody
    BY <1>1 DEF Projection!At
  <2> QED BY <2>1, <2>2, <2>3
<1>6. ASSUME NEW s \in Sessions, Projection!Bound(s), NEW i \in Projection!At("decision_log_line", s)
      PROVE  \E j \in Projection!At("decision", s) :
               /\ events[i].line.accepted = events[j].accepted
               /\ events[i].line.reason = events[j].reason
  BY <1>5, <1>6 DEF Projection!Bound
<1>7. ASSUME NEW s \in Sessions, logs[s] # Nobody,
             \A i \in Projection!At("decision_log_line", s) : \E j \in Projection!At("decision", s) :
               /\ events[i].line.accepted = events[j].accepted
               /\ events[i].line.reason = events[j].reason
      PROVE  Projection!Bound(s)
  <2>1. PICK i \in Projection!At("decision_log_line", s) : logs[s] = events[i].line
    BY <1>5, <1>7
  <2>2. PICK j \in Projection!At("decision", s) :
          /\ events[i].line.accepted = events[j].accepted
          /\ events[i].line.reason = events[j].reason
    BY <1>7
  <2>3. decisions[s] = events[j] /\ events[j] # Nobody
    BY <1>1, <1>3, <1>5
  <2> QED BY <2>1, <2>2, <2>3 DEF Projection!Bound
<1>8. ASSUME \A s \in Sessions : Projection!Bound(s) PROVE Projection!Sound
  BY <1>1, <1>4, <1>5, <1>6, <1>8 DEF Projection!Sound, Collected
<1>9. ASSUME Projection!Sound PROVE \A s \in Sessions : Projection!Bound(s)
  <2> SUFFICES ASSUME NEW s \in Sessions PROVE Projection!Bound(s)
    OBVIOUS
  <2>1. CASE logs[s] = Nobody
    BY <2>1 DEF Projection!Bound
  <2>2. CASE logs[s] # Nobody
    BY <1>7, <1>9, <2>2 DEF Projection!Sound
  <2> QED BY <2>1, <2>2
<1> QED BY <1>8, <1>9

(* A row that inspect_events refuses shows that the file is not sound. *)
LEMMA RefusedRow ==
    ASSUME Collected, position <= Len(events), NEW s \in Sessions,
           NEW kind \in {"decision", "decision_log_line"},
           events[position].kind = kind, events[position].session = s,
           Met(kind, s) # {}
    PROVE  ~Projection!Sound
<1>0. events \in Files /\ position \in Nat \ {0}
  BY EventsAreRows DEF Collected
<1>1. DOMAIN events = 1..Len(events) /\ Len(events) \in Nat
  BY <1>0, EventsAreRows
<1>2. PICK i \in Projection!At(kind, s) : i < position
  BY DEF Met
<1>3. position \in Projection!At(kind, s)
  BY <1>0, <1>1 DEF Projection!At
<1>4. i # position
  BY <1>0, <1>1, <1>2 DEF Projection!At
<1>5. Projection!At(kind, s) \subseteq DOMAIN events
  BY DEF Projection!At
<1>6. ~(Projection!Cardinality(Projection!At(kind, s)) <= 1)
  BY <1>0, <1>2, <1>3, <1>4, <1>5, AtMostOne
<1> QED BY <1>6 DEF Projection!Sound
(* So does one that is not in its shape. *)
LEMMA UnsoundRow ==
    ASSUME Collected, position <= Len(events),
           \/ Projection!Unidentified(events[position])
           \/ /\ events[position].kind = "decision" /\ events[position].session \in Sessions
              /\ ~events[position].shaped
           \/ /\ events[position].kind = "decision_log_line" /\ events[position].session \in Sessions
              /\ ~(/\ events[position].line.session = events[position].session
                   /\ events[position].line.shaped)
    PROVE  ~Projection!Sound
<1>1. position \in DOMAIN events
  BY EventsAreRows DEF Collected
<1>2. \A kind, s : events[position].kind = kind /\ events[position].session = s =>
        position \in Projection!At(kind, s)
  BY <1>1 DEF Projection!At
<1> QED BY <1>1, <1>2 DEF Projection!Sound

(* One row more is met. *)
LEMMA MetNext ==
    ASSUME Collected, position' = position + 1, events' = events, NEW kind, NEW s
    PROVE  /\ events[position].kind = kind /\ events[position].session = s /\ position <= Len(events) =>
                Met(kind, s)' = Met(kind, s) \cup {position}
           /\ ~(events[position].kind = kind /\ events[position].session = s) =>
                Met(kind, s)' = Met(kind, s)
<1>1. /\ position \in Nat \ {0} /\ DOMAIN events = 1..Len(events) /\ Len(events) \in Nat
  BY EventsAreRows DEF Collected
<1>2. Met(kind, s)' = {i \in Projection!At(kind, s) : i < position + 1}
  BY DEF Met, Projection!At
<1>3. Projection!At(kind, s) \subseteq 1..Len(events)
  BY <1>1 DEF Projection!At
<1>4. position \in Projection!At(kind, s) <=>
        position <= Len(events) /\ events[position].kind = kind /\ events[position].session = s
  BY <1>1 DEF Projection!At
<1>5. \A i \in Projection!At(kind, s) : i < position + 1 <=> i < position \/ i = position
  BY <1>1, <1>3
<1> QED BY <1>2, <1>4, <1>5 DEF Met

LEMMA RefuseRow ==
    ASSUME Collected, position <= Len(events), NEW class, Projection!Refuse(class), ~Projection!Sound
    PROVE  (Collected /\ Decided)'
BY DEF Projection!Refuse, Collected, Decided, Met, Projection!At, Projection!Unidentified,
       Projection!Sound

(* One row of each kind. *)
LEMMA DecisionRow ==
    ASSUME Collected, Decided, at = "events", position <= Len(events),
           ~Projection!Unidentified(events[position]), Projection!Decision(events[position])
    PROVE  (Collected /\ Decided)'
<1> DEFINE e == events[position]
<1>0. /\ position \in Nat \ {0} /\ position \in DOMAIN events /\ Len(events) \in Nat
      /\ e # Nobody /\ e.kind = "decision" /\ e.session \in Sessions
  BY EventsAreRows DEF Collected, Projection!Unidentified, Projection!Decision
<1>1. Projection!CheckDecision(e) = "none" <=> decisions[e.session] = Nobody /\ e.shaped
  BY TwoChecks DEF Projection!CheckDecision, Projection!Check
<1>s. PICK session \in Sessions : session = e.session
  BY <1>0
<1>2. CASE Projection!CheckDecision(e) # "none"
  <2>1. Projection!Refuse(Projection!CheckDecision(e))
    BY <1>2 DEF Projection!Decision
  <2>2. decisions[e.session] # Nobody => Met("decision", e.session) # {}
    BY <1>0 DEF Collected
  <2>3. ~Projection!Sound
    BY <1>0, <1>1, <1>2, <2>2, RefusedRow, UnsoundRow
  <2> QED BY <2>1, <2>3, RefuseRow
<1>3. CASE Projection!CheckDecision(e) = "none"
  <2>1. /\ decisions' = [decisions EXCEPT ![e.session] = e] /\ position' = position + 1
        /\ at' = at /\ events' = events /\ logs' = logs
    BY <1>3 DEF Projection!Decision
  <2>2. decisions[session] = Nobody /\ e.shaped
    BY <1>s, <1>1, <1>3
  <2>3. Met("decision", session)' = {position}
    <3>1. Met("decision", session) = {}
      BY <1>0, <1>s, <2>2, EventsAreRows DEF Collected
    <3>2. Met("decision", session)' = Met("decision", session) \cup {position}
      BY <1>0, <2>1, <1>s, MetNext
    <3> QED BY <3>1, <3>2
  <2>4. \A s \in Sessions : s # session => Met("decision", s)' = Met("decision", s)
    BY <1>0, <2>1, <1>s, MetNext
  <2>5. \A s \in Sessions : Met("decision_log_line", s)' = Met("decision_log_line", s)
    BY <1>0, <2>1, <1>s, MetNext
  <2>6. \A s \in Sessions : decisions'[s] = IF s = session THEN e ELSE decisions[s]
    BY <1>s, <2>1 DEF Collected
  <2>7. Collected'
    <3>1. /\ events' \in Files /\ position' \in 1..(Len(events') + 1)
          /\ decisions' = [s \in Sessions |-> decisions'[s]] /\ logs' = [s \in Sessions |-> logs'[s]]
      BY <1>0, <2>1 DEF Collected
    <3>2. \A i \in DOMAIN events : i < position + 1 => ~Projection!Unidentified(events[i])
      BY <1>0, EventsAreRows DEF Collected
    <3>3. \A s \in Sessions :
            \/ decisions'[s] = Nobody /\ Met("decision", s)' = {}
            \/ \E i \in DOMAIN events :
                 Met("decision", s)' = {i} /\ decisions'[s] = events[i] /\ events[i].shaped
      <4> TAKE s \in Sessions
      <4>1. CASE s = session
        BY <1>0, <1>s, <2>2, <2>3, <2>6, <4>1
      <4>2. CASE s # session
        BY <2>4, <2>6, <4>2 DEF Collected
      <4> QED BY <4>1, <4>2
    <3>4. \A s \in Sessions :
            \/ logs[s] = Nobody /\ Met("decision_log_line", s)' = {}
            \/ \E i \in DOMAIN events :
                 /\ Met("decision_log_line", s)' = {i} /\ logs[s] = events[i].line
                 /\ events[i].line.session = s /\ events[i].line.shaped
      BY <2>5 DEF Collected
    <3> QED BY <2>1, <3>1, <3>2, <3>3, <3>4 DEF Collected, Projection!Unidentified
  <2> QED BY <2>1, <2>7 DEF Decided
<1> QED BY <1>2, <1>3

LEMMA LogRow ==
    ASSUME Collected, Decided, at = "events", position <= Len(events),
           ~Projection!Unidentified(events[position]), Projection!DecisionLogLine(events[position])
    PROVE  (Collected /\ Decided)'
<1> DEFINE e == events[position]
<1>0. /\ position \in Nat \ {0} /\ position \in DOMAIN events /\ Len(events) \in Nat
      /\ e.kind = "decision_log_line" /\ e.session \in Sessions /\ e.line # Nobody
  BY EventsAreRows DEF Collected, Projection!Unidentified, Projection!DecisionLogLine
<1>1. Projection!CheckLog(e) = "none" <=>
        logs[e.session] = Nobody /\ e.line.session = e.session /\ e.line.shaped
  BY TwoChecks DEF Projection!CheckLog, Projection!Check
<1>s. PICK session \in Sessions : session = e.session
  BY <1>0
<1>2. CASE Projection!CheckLog(e) # "none"
  <2>1. Projection!Refuse(Projection!CheckLog(e))
    BY <1>2 DEF Projection!DecisionLogLine
  <2>2. logs[e.session] # Nobody => Met("decision_log_line", e.session) # {}
    BY <1>0 DEF Collected
  <2>3. ~Projection!Sound
    BY <1>0, <1>1, <1>2, <2>2, RefusedRow, UnsoundRow
  <2> QED BY <2>1, <2>3, RefuseRow
<1>3. CASE Projection!CheckLog(e) = "none"
  <2>1. /\ logs' = [logs EXCEPT ![e.session] = e.line] /\ position' = position + 1
        /\ at' = at /\ events' = events /\ decisions' = decisions
    BY <1>3 DEF Projection!DecisionLogLine
  <2>2. logs[session] = Nobody /\ e.line.session = session /\ e.line.shaped
    BY <1>s, <1>1, <1>3
  <2>3. Met("decision_log_line", session)' = {position}
    <3>1. Met("decision_log_line", session) = {}
      <4>1. \/ Met("decision_log_line", session) = {}
            \/ \E i \in DOMAIN events :
                 Met("decision_log_line", session) = {i} /\ logs[session] = events[i].line
        BY DEF Collected
      <4>2. \A i \in Met("decision_log_line", session) :
              i \in DOMAIN events /\ events[i].kind = "decision_log_line"
        BY DEF Met, Projection!At
      <4> QED BY <2>2, <4>1, <4>2, EventsAreRows DEF Collected
    <3>2. Met("decision_log_line", session)' = Met("decision_log_line", session) \cup {position}
      BY <1>0, <2>1, <1>s, MetNext
    <3> QED BY <3>1, <3>2
  <2>4. \A s \in Sessions :
          s # session => Met("decision_log_line", s)' = Met("decision_log_line", s)
    BY <1>0, <2>1, <1>s, MetNext
  <2>5. \A s \in Sessions : Met("decision", s)' = Met("decision", s)
    BY <1>0, <2>1, <1>s, MetNext
  <2>6. \A s \in Sessions : logs'[s] = IF s = session THEN e.line ELSE logs[s]
    BY <1>s, <2>1 DEF Collected
  <2>7. Collected'
    <3>1. /\ events' \in Files /\ position' \in 1..(Len(events') + 1)
          /\ decisions' = [s \in Sessions |-> decisions'[s]] /\ logs' = [s \in Sessions |-> logs'[s]]
      BY <1>0, <2>1 DEF Collected
    <3>2. \A i \in DOMAIN events : i < position + 1 => ~Projection!Unidentified(events[i])
      BY <1>0, EventsAreRows DEF Collected
    <3>3. \A s \in Sessions :
            \/ decisions[s] = Nobody /\ Met("decision", s)' = {}
            \/ \E i \in DOMAIN events :
                 Met("decision", s)' = {i} /\ decisions[s] = events[i] /\ events[i].shaped
      BY <2>5 DEF Collected
    <3>4. \A s \in Sessions :
            \/ logs'[s] = Nobody /\ Met("decision_log_line", s)' = {}
            \/ \E i \in DOMAIN events :
                 /\ Met("decision_log_line", s)' = {i} /\ logs'[s] = events[i].line
                 /\ events[i].line.session = s /\ events[i].line.shaped
      <4> TAKE s \in Sessions
      <4>1. CASE s = session
        BY <1>0, <1>s, <2>2, <2>3, <2>6, <4>1
      <4>2. CASE s # session
        BY <2>4, <2>6, <4>2 DEF Collected
      <4> QED BY <4>1, <4>2
    <3> QED BY <2>1, <3>1, <3>2, <3>3, <3>4 DEF Collected, Projection!Unidentified
  <2> QED BY <2>1, <2>7 DEF Decided
<1> QED BY <1>2, <1>3

LEMMA OtherRow ==
    ASSUME Collected, Decided, at = "events", position <= Len(events),
           ~Projection!Unidentified(events[position]), Projection!Other(events[position])
    PROVE  (Collected /\ Decided)'
<1>0. /\ position \in Nat \ {0} /\ Len(events) \in Nat
      /\ events[position].kind \notin {"decision", "decision_log_line"}
  BY EventsAreRows DEF Collected, Projection!Other
<1>1. UNCHANGED <<at, events, decisions, logs>> /\ position' = position + 1
  BY DEF Projection!Other
<1>2. \A s \in Sessions : /\ Met("decision", s)' = Met("decision", s)
                          /\ Met("decision_log_line", s)' = Met("decision_log_line", s)
  BY <1>0, <1>1, MetNext
<1>3. \A i \in DOMAIN events : i < position + 1 => ~Projection!Unidentified(events[i])
  BY <1>0, EventsAreRows DEF Collected
<1>4. Collected'
  BY <1>0, <1>1, <1>2, <1>3 DEF Collected, Projection!Unidentified
<1> QED BY <1>1, <1>4 DEF Decided

LEMMA InspectRow ==
    ASSUME Collected, Decided, Projection!Inspect
    PROVE  (Collected /\ Decided)'
<1>1. at = "events" /\ position <= Len(events)
  BY DEF Projection!Inspect
<1>2. CASE Projection!Unidentified(events[position])
  BY <1>1, <1>2, UnsoundRow, RefuseRow DEF Projection!Inspect
<1>3. CASE ~Projection!Unidentified(events[position])
  BY <1>1, <1>3, DecisionRow, LogRow, OtherRow DEF Projection!Inspect
<1> QED BY <1>2, <1>3

(* A step after the last row leaves what was collected. *)
LEMMA AfterRows ==
    ASSUME Collected, Decided, Projection!BindLogs \/ Projection!Derive \/ Projection!Result
                               \/ Projection!Derived
    PROVE  (Collected /\ Decided)'
<1>0. position \in Nat /\ Len(events) \in Nat
  BY EventsAreRows DEF Collected
<1>1. position = Len(events) + 1 /\ at # "refused"
  BY <1>0 DEF Collected, Decided, Projection!BindLogs, Projection!Derive, Projection!Result,
     Projection!Derived
<1>2. /\ UNCHANGED <<events, position, decisions, logs>>
      /\ at' \in {"derive", "results", "derived", "refused"}
      /\ at' = "refused" \/ \A s \in Sessions : Projection!Bound(s)
  BY DEF Decided, Projection!BindLogs, Projection!Derive, Projection!Result, Projection!Derived,
     Projection!Skipped, Projection!Revocation, Projection!Outage, Projection!Project,
     Projection!Refuse
<1>3. Collected'
  BY <1>2 DEF Collected, Met, Projection!At, Projection!Unidentified
<1>4. Decided'
  BY <1>0, <1>1, <1>2 DEF Decided, Projection!Bound
<1> QED BY <1>3, <1>4
----------------------------------------------------------------------------
(* What one row of the projection says, and what it says of the refresh.      *)
History(r) ==
    /\ \A selected \in {r.last, r.no} \ {Nobody} :
         /\ selected \in Projection!ToSet(events)
         /\ selected.path = r.path /\ selected.agent = r.agent
    /\ r.last # Nobody => r.last.accepted
    /\ r.no # Nobody => ~r.no.accepted
    /\ r.key \in {Nobody, r.agent}
    /\ r.root # Nobody =>
         /\ r.no # Nobody
         /\ \E i \in DOMAIN events :
              /\ {j \in DOMAIN events : /\ events[j].kind = "ring_at_denial"
                                       /\ events[j].path = r.path
                                       /\ events[j].agent = r.agent} = {i}
              /\ r.root = Projection!Last(events[i].ring)

Subject(r) ==
    /\ {r.last, r.no} = {Nobody} => r.agent = Nobody /\ r.refresh = "not_recorded"
    /\ r.refresh # "not_recorded" =>
         \E e \in Projection!ToSet(events), d \in {r.last, r.no} \ {Nobody} :
           e.kind = "holder_refresh" /\ e.agent = d.agent /\ e.path = d.path

(* A decision the summary names is the recorded one.                          *)
LEMMA DecidedIsRecorded ==
    ASSUME Collected, NEW named, named # Nobody, named.session \in Sessions,
           NEW path, NEW clock, NEW agents, NEW outcomes,
           Projection!Decide(named, path, clock, agents, outcomes) = "none"
    PROVE  /\ named \in Projection!ToSet(events) /\ decisions[named.session] = named
           /\ named.path = path /\ named.agent \in agents /\ named.accepted \in outcomes
<1> DEFINE recorded == decisions[named.session]
<1>1. /\ recorded # Nobody
      /\ Projection!FirstOf(<<Projection!Check(named = recorded, "SummaryDecisionMismatch"),
                              Projection!Check(recorded.path = path, "DecisionPathMismatch"),
                              Projection!Check(recorded.agent \in agents, "DecisionAgentMismatch"),
                              Projection!Check(recorded.accepted \in outcomes, "DecisionOutcomeMismatch"),
                              Projection!Delta(named.unix, clock)>>) = "none"
  BY DEF Projection!Decide
<1>2. /\ Projection!Check(named = recorded, "SummaryDecisionMismatch") = "none"
      /\ Projection!Check(recorded.path = path, "DecisionPathMismatch") = "none"
      /\ Projection!Check(recorded.agent \in agents, "DecisionAgentMismatch") = "none"
      /\ Projection!Check(recorded.accepted \in outcomes, "DecisionOutcomeMismatch") = "none"
  BY <1>1, FiveChecks
<1>3. /\ named = recorded /\ recorded.path = path /\ recorded.agent \in agents
      /\ recorded.accepted \in outcomes
  BY <1>2 DEF Projection!Check
<1>4. \E i \in DOMAIN events : recorded = events[i]
  BY <1>1 DEF Collected
<1> QED BY <1>3, <1>4 DEF Projection!ToSet

(* An item that passes is the history of one holder. *)
LEMMA ItemHistory ==
    ASSUME Collected, NEW result, NEW item, Projection!ItemFits(item),
           Projection!CheckHistory(result, item) = "none"
    PROVE  /\ \A selected \in {item.last, item.no} \ {Nobody} :
                /\ selected \in Projection!ToSet(events) /\ selected.path = result.path
                /\ selected.agent = Projection!Label(item)
           /\ item.last # Nobody => item.last.accepted
           /\ item.no # Nobody => ~item.no.accepted
           /\ item.key \in {Nobody, Projection!Label(item)}
           /\ {item.last, item.no} = {Nobody} => Projection!Label(item) = Nobody
<1> DEFINE agents == IF item.key = Nobody THEN Projection!Anyone ELSE {item.key}
<1>1. /\ Projection!CheckItemAlone(result, item) = "none"
      /\ item.last # Nobody =>
           Projection!Check(decisions[item.last.session].agent = Projection!Label(item),
                            "DecisionAgentMismatch") = "none"
  BY DEF Projection!CheckHistory
<1>2. /\ Projection!Check(item.key = Nobody \/ Projection!Selected(item) # Nobody,
                          "AgentBindingUnavailable") = "none"
      /\ Projection!Decide(item.last, result.path, result.t0, agents, {TRUE}) = "none"
      /\ Projection!Decide(item.no, result.path, result.t0, agents, {FALSE}) = "none"
  BY <1>1, ThreeChecks DEF Projection!CheckItemAlone
<1>3. item.key = Nobody \/ Projection!Selected(item) # Nobody
  BY <1>2 DEF Projection!Check
<1>4. item.last # Nobody =>
        /\ item.last \in Projection!ToSet(events) /\ decisions[item.last.session] = item.last
        /\ item.last.path = result.path /\ item.last.accepted
  <2> SUFFICES ASSUME item.last # Nobody
               PROVE  /\ item.last \in Projection!ToSet(events)
                      /\ decisions[item.last.session] = item.last
                      /\ item.last.path = result.path /\ item.last.accepted \in {TRUE}
    OBVIOUS
  <2>1. item.last.session \in Sessions
    BY DEF Projection!ItemFits
  <2> DEFINE outcomes == {TRUE}
  <2>2. Projection!Decide(item.last, result.path, result.t0, agents, outcomes) = "none"
    BY <1>2
  <2> HIDE DEF agents, outcomes
  <2>3. /\ item.last \in Projection!ToSet(events) /\ decisions[item.last.session] = item.last
        /\ item.last.path = result.path /\ item.last.agent \in agents /\ item.last.accepted \in outcomes
    BY <2>1, <2>2, DecidedIsRecorded
  <2> QED BY <2>3 DEF outcomes
<1>5. item.no # Nobody =>
        /\ item.no \in Projection!ToSet(events) /\ decisions[item.no.session] = item.no
        /\ item.no.path = result.path /\ item.no.agent \in agents /\ ~item.no.accepted
  <2> SUFFICES ASSUME item.no # Nobody
               PROVE  /\ item.no \in Projection!ToSet(events)
                      /\ decisions[item.no.session] = item.no
                      /\ item.no.path = result.path /\ item.no.agent \in agents
                      /\ item.no.accepted \in {FALSE}
    OBVIOUS
  <2>1. item.no.session \in Sessions
    BY DEF Projection!ItemFits
  <2> DEFINE outcomes == {FALSE}
  <2>2. Projection!Decide(item.no, result.path, result.t0, agents, outcomes) = "none"
    BY <1>2
  <2> HIDE DEF agents, outcomes
  <2>3. /\ item.no \in Projection!ToSet(events) /\ decisions[item.no.session] = item.no
        /\ item.no.path = result.path /\ item.no.agent \in agents /\ item.no.accepted \in outcomes
    BY <2>1, <2>2, DecidedIsRecorded
  <2> QED BY <2>3 DEF outcomes
<1>6. item.last # Nobody => item.last.agent = Projection!Label(item)
  BY <1>1, <1>4 DEF Projection!Check
<1>7. item.no # Nobody => item.no.agent = Projection!Label(item)
  BY <1>5 DEF Projection!Label, Projection!Selected
<1>8. item.key \in {Nobody, Projection!Label(item)}
  BY DEF Projection!Label
<1>9. {item.last, item.no} = {Nobody} => Projection!Label(item) = Nobody
  BY <1>3 DEF Projection!Label, Projection!Selected
<1> QED BY <1>4, <1>5, <1>6, <1>7, <1>8, <1>9

(* Its ring is the only one recorded for the holder on that path. *)
LEMMA RingHistory ==
    ASSUME Collected, NEW result, NEW item, item.ring # <<>>,
           Projection!CheckRing(result, item) = "none"
    PROVE  \E i \in DOMAIN events :
             /\ {j \in DOMAIN events : /\ events[j].kind = "ring_at_denial"
                                      /\ events[j].path = result.path
                                      /\ events[j].agent = item.no.agent} = {i}
             /\ Projection!Last(item.ring) = Projection!Last(events[i].ring)
<1> DEFINE rings == {j \in DOMAIN events : /\ events[j].kind = "ring_at_denial"
                                           /\ events[j].path = result.path
                                           /\ events[j].agent = item.no.agent}
<1>1. Projection!RingsAt(result.path, item.no.agent) = rings
  BY DEF Projection!RingsAt, Projection!Matching
<1>2. /\ Projection!Check(Projection!Cardinality(rings) <= 1, "AmbiguousEvent") = "none"
      /\ Projection!Check(Projection!First(rings) # Nobody /\ Projection!First(rings).ring = item.ring,
                          "RingBindingMismatch") = "none"
  <2>1. Projection!FirstOf(<<
          Projection!Check(Projection!Cardinality(rings) <= 1, "AmbiguousEvent"),
          Projection!Check(Projection!First(rings) # Nobody /\ Projection!First(rings).ring = item.ring,
                           "RingBindingMismatch"),
          Projection!CheckRoot(Projection!Last(item.ring))>>) = "none"
    BY <1>1 DEF Projection!CheckRing
  <2> HIDE DEF rings
  <2> QED BY <2>1, ThreeChecks
<1>3. /\ Projection!Cardinality(rings) <= 1
      /\ Projection!First(rings) # Nobody /\ Projection!First(rings).ring = item.ring
  BY <1>2 DEF Projection!Check
<1>4. DOMAIN events \subseteq Nat /\ events \in Files
  BY EventsAreRows DEF Collected
<1>5. /\ Projection!Min(rings) \in rings
      /\ Projection!First(rings) = events[Projection!Min(rings)]
  BY <1>3, <1>4, FirstIsOne DEF Projection!First
<1>6. \A i, j \in rings : i = j
  BY <1>3, <1>4, AtMostOne
<1>7. rings = {Projection!Min(rings)}
  BY <1>5, <1>6
<1> QED BY <1>3, <1>5, <1>7

(* Only a recorded refresh of a known holder is reported. *)
LEMMA RefreshHistory ==
    ASSUME Collected, NEW path, NEW agent, NEW control,
           Projection!Refresh(path, agent, control) # "not_recorded"
    PROVE  /\ agent # Nobody
           /\ \E e \in Projection!ToSet(events) :
                e.kind = "holder_refresh" /\ e.path = path /\ e.agent = agent
<1> DEFINE holders == {i \in DOMAIN events :
                        /\ events[i].kind = "holder_refresh" /\ events[i].path = path
                        /\ agent # Nobody /\ events[i].agent = agent}
           refusals == {i \in holders : events[i].outcome \in Projection!Refusals}
           usual == IF control THEN "refreshed" ELSE "not_refused_within_budget"
           other == {i \in holders : events[i].outcome = usual}
<1>1. Projection!RefreshHit(path, agent, control) # Nobody
  BY DEF Projection!Refresh
<1>2. Projection!RefreshesOf(path, agent) = holders
  BY DEF Projection!RefreshesOf, Projection!Matching
<1>3. Projection!RefreshHit(path, agent, control)
        = IF refusals # {} THEN Projection!First(refusals) ELSE Projection!First(other)
  BY <1>2 DEF Projection!RefreshHit
<1>4. refusals # {} \/ other # {}
  BY <1>1, <1>3 DEF Projection!First
<1>5. PICK i \in holders : TRUE
  BY <1>4
<1> QED BY <1>5 DEF Projection!ToSet

(* SetToSeq puts the keys of a result into some order. *)
LEMMA KeysInOrder ==
    ASSUME NEW S, IsFiniteSet(S)
    PROVE  /\ Cardinality(S) \in Nat
           /\ Projection!SetToSeq(S) \in [1..Cardinality(S) -> S]
<1>1. Cardinality(S) \in Nat /\ ExistsBijection(1..Cardinality(S), S)
  BY FS_CardinalityType
<1>2. PICK f \in [1..Cardinality(S) -> S] : \A a, b \in 1..Cardinality(S) : f[a] = f[b] => a = b
  <2>1. PICK f \in Bijection(1..Cardinality(S), S) : TRUE
    BY <1>1, Fun_ExistsBij
  <2> QED BY <2>1, Fun_BijectionProperties
<1>3. Projection!IsInjective(f)
  BY <1>2 DEF Projection!IsInjective
<1>4. Projection!SetToSeq(S) = CHOOSE g \in [1..Cardinality(S) -> S] : Projection!IsInjective(g)
  BY SameCardinality DEF Projection!SetToSeq
<1> QED BY <1>1, <1>3, <1>4
(* The items of a result: a sequence, and as the results are assumed to be.    *)
LEMMA ResultItems ==
    ASSUME NEW result \in Results, ~result.skipped, result.path # "unreachable"
    PROVE  \E n \in Nat :
             /\ Projection!Items(result) = [i \in 1..n |-> Projection!Items(result)[i]]
             /\ \A i \in 1..n : Projection!ItemFits(Projection!Items(result)[i])
<1>1. CASE result.path = "cascade"
  <2> DEFINE D == DOMAIN result.per_agent
             keys == Projection!SetToSeq(D)
             n == Cardinality(D)
  <2>1. IsFiniteSet(D) /\ \A agent \in D : Projection!ItemFits(result.per_agent[agent])
    <3>1. /\ Projection!IsFiniteSet(D)
          /\ \A agent \in D : Projection!ItemFits(result.per_agent[agent])
      BY <1>1, ResultsAssumption DEF Projection!ResultsFit
    <3> QED BY <3>1 DEF Projection!IsFiniteSet, IsFiniteSet
  <2>2. n \in Nat /\ keys \in [1..n -> D]
    BY <2>1, KeysInOrder
  <2>3. Len(keys) = n
    <3>1. keys \in Seq(D)
      BY <2>2, SeqDef
    <3>2. DOMAIN keys = 1..Len(keys) /\ Len(keys) \in Nat
      BY <3>1, LenProperties
    <3>3. DOMAIN keys = 1..n
      BY <2>2
    <3> QED BY <2>2, <3>2, <3>3
  <2>4. Projection!Items(result)
          = [i \in 1..n |-> [result.per_agent[keys[i]] EXCEPT !.key = keys[i]]]
    BY <1>1, <2>3 DEF Projection!Items
  <2>5. ASSUME NEW i \in 1..n PROVE Projection!ItemFits(Projection!Items(result)[i])
    <3>1. keys[i] \in D
      BY <2>2
    <3>2. PICK item : item = result.per_agent[keys[i]]
      OBVIOUS
    <3>3. PICK key : key = keys[i]
      OBVIOUS
    <3>4. Projection!ItemFits(item)
      BY <2>1, <3>1, <3>2
    <3>5. PICK changed : changed = [item EXCEPT !.key = key]
      OBVIOUS
    <3>6. Projection!Items(result)[i] = changed
      BY <2>4, <3>2, <3>3, <3>5
    <3>7. /\ changed = [key |-> changed.key, last |-> changed.last, no |-> changed.no,
                       ring |-> changed.ring, failed |-> changed.failed]
          /\ changed.last = item.last /\ changed.no = item.no /\ changed.ring = item.ring
      BY <3>4, <3>5 DEF Projection!ItemFits
    <3>8. Projection!ItemFits(changed)
      BY <3>4, <3>7 DEF Projection!ItemFits
    <3> QED BY <3>6, <3>8
  <2> HIDE DEF n, keys
  <2>6. Projection!Items(result) = [i \in 1..n |-> Projection!Items(result)[i]]
    BY <2>4
  <2> QED BY <2>2, <2>5, <2>6
<1>2. CASE result.path # "cascade"
  <2>1. Projection!ItemFits(result.item)
    BY <1>2, ResultsAssumption DEF Projection!ResultsFit
  <2>2. Projection!Items(result) = <<result.item>>
    BY <1>2 DEF Projection!Items
  <2>3. PICK item : item = result.item
    OBVIOUS
  <2>4. <<item>> = [i \in 1..1 |-> <<item>>[i]] /\ \A i \in 1..1 : <<item>>[i] = item
    OBVIOUS
  <2> QED BY <2>1, <2>2, <2>3, <2>4
<1> QED BY <1>1, <1>2

(* Checks in the middle of a list are made too. *)
LEMMA MiddleChecks ==
    ASSUME NEW before, NEW n \in Nat, NEW between, between = [i \in 1..n |-> between[i]], NEW c3,
           NEW c1, NEW c2, before = <<c1, c2>>,
           Projection!FirstOf(before \o between \o <<c3>>) = "none"
    PROVE  \A i \in 1..n : between[i] = "none"
<1> DEFINE S == {c1, c2, c3} \cup {between[i] : i \in 1..n}
           after == <<c3>>
           front == before \o between
           checks == front \o after
<1>1. before \in Seq(S) /\ Len(before) = 2 /\ after \in Seq(S) /\ Len(after) = 1
  OBVIOUS
<1>2. between \in Seq(S) /\ Len(between) = n
  <2>1. between \in [1..n -> S]
    OBVIOUS
  <2>2. between \in Seq(S)
    BY <2>1, SeqDef
  <2>3. DOMAIN between = 1..Len(between) /\ Len(between) \in Nat /\ DOMAIN between = 1..n
    BY <2>1, <2>2, LenProperties
  <2> QED BY <2>2, <2>3
<1> HIDE DEF after, S
<1>3. /\ front \in Seq(S) /\ Len(front) = 2 + n
      /\ \A i \in 1..n : front[2 + i] = between[i]
  BY <1>1, <1>2, ConcatProperties
<1> HIDE DEF front
<1>4. /\ checks \in Seq(S) /\ Len(checks) = 3 + n
      /\ \A i \in 1..n : checks[2 + i] = front[2 + i]
  <2>1. /\ checks \in Seq(S) /\ Len(checks) = Len(front) + Len(after)
        /\ \A i \in 1..(Len(front) + Len(after)) :
             checks[i] = IF i <= Len(front) THEN front[i] ELSE after[i - Len(front)]
    BY <1>1, <1>3, ConcatProperties
  <2> HIDE DEF checks
  <2>2. Len(checks) = 3 + n
    BY <1>1, <1>3, <2>1
  <2>3. ASSUME NEW i \in 1..n PROVE checks[2 + i] = front[2 + i]
    <3>1. 2 + i \in 1..(Len(front) + Len(after)) /\ 2 + i <= Len(front)
      BY <1>1, <1>3
    <3> QED BY <2>1, <3>1
  <2> QED BY <2>1, <2>2, <2>3
<1>5. DOMAIN checks = 1..(3 + n)
  BY <1>4, LenProperties
<1>6. Projection!FirstOf(checks) = "none"
  BY DEF after, front
<1> HIDE DEF checks
<1>7. \A j \in DOMAIN checks : checks[j] = "none"
  BY <1>5, <1>6, NoneFails
<1>8. \A i \in 1..n : 2 + i \in DOMAIN checks
  BY <1>5
<1> QED BY <1>3, <1>4, <1>7, <1>8
(* A row of a result that passes its checks. *)
LEMMA RowHistory ==
    ASSUME Collected, NEW result, NEW item, Projection!ItemFits(item),
           Projection!CheckItem(result, item) = "none"
    PROVE  History(Projection!Row(result, item)) /\ Subject(Projection!Row(result, item))
<1>1. Projection!CheckHistory(result, item) = "none" /\ Projection!CheckRing(result, item) = "none"
  BY FourChecks DEF Projection!CheckItem
<1>2. PICK r : r = Projection!Row(result, item)
  OBVIOUS
<1>3. PICK label : label = Projection!Label(item)
  OBVIOUS
<1>c. PICK control : control = FALSE
  OBVIOUS
<1>4. /\ r.path = result.path /\ r.key = item.key /\ r.last = item.last /\ r.no = item.no
      /\ r.agent = label /\ r.refresh = Projection!Refresh(result.path, label, control)
      /\ item.ring = <<>> => r.root = Nobody
      /\ item.ring # <<>> => r.root = Projection!Last(item.ring)
  BY <1>2, <1>3, <1>c DEF Projection!Row
<1>5. /\ \A selected \in {item.last, item.no} \ {Nobody} :
           /\ selected \in Projection!ToSet(events) /\ selected.path = result.path
           /\ selected.agent = label
      /\ item.last # Nobody => item.last.accepted
      /\ item.no # Nobody => ~item.no.accepted
      /\ item.key \in {Nobody, label}
      /\ {item.last, item.no} = {Nobody} => label = Nobody
  BY <1>1, <1>3, ItemHistory
<1>6. r.root # Nobody =>
        /\ item.no # Nobody
        /\ \E i \in DOMAIN events :
             /\ {j \in DOMAIN events : /\ events[j].kind = "ring_at_denial"
                                      /\ events[j].path = result.path
                                      /\ events[j].agent = label} = {i}
             /\ r.root = Projection!Last(events[i].ring)
  <2> SUFFICES ASSUME r.root # Nobody
               PROVE  /\ item.no # Nobody
                      /\ \E i \in DOMAIN events :
                           /\ {j \in DOMAIN events : /\ events[j].kind = "ring_at_denial"
                                                    /\ events[j].path = result.path
                                                    /\ events[j].agent = label} = {i}
                           /\ r.root = Projection!Last(events[i].ring)
    OBVIOUS
  <2>1. item.ring # <<>> /\ r.root = Projection!Last(item.ring)
    BY <1>4
  <2>2. item.no # Nobody
    BY <2>1 DEF Projection!ItemFits
  <2>3. item.no.agent = label
    BY <1>5, <2>2
  <2> QED BY <1>1, <2>1, <2>2, <2>3, RingHistory
<1>7. History(r)
  BY <1>4, <1>5, <1>6 DEF History
<1>8. r.refresh # "not_recorded" =>
        /\ label # Nobody
        /\ \E e \in Projection!ToSet(events) :
             e.kind = "holder_refresh" /\ e.path = result.path /\ e.agent = label
  <2>1. PICK path : path = result.path
    OBVIOUS
  <2>2. r.refresh = Projection!Refresh(path, label, control)
    BY <1>4, <2>1
  <2> QED BY <2>1, <2>2, RefreshHistory
<1>9. Subject(r)
  <2>1. {r.last, r.no} = {Nobody} => r.agent = Nobody /\ r.refresh = "not_recorded"
    BY <1>4, <1>5, <1>8
  <2>2. ASSUME r.refresh # "not_recorded"
        PROVE  \E e \in Projection!ToSet(events), d \in {r.last, r.no} \ {Nobody} :
                 e.kind = "holder_refresh" /\ e.agent = d.agent /\ e.path = d.path
    <3>1. PICK e \in Projection!ToSet(events) :
            e.kind = "holder_refresh" /\ e.path = result.path /\ e.agent = label
      BY <1>8, <2>2
    <3>2. PICK d \in {item.last, item.no} \ {Nobody} : TRUE
      BY <1>5, <1>8, <2>2
    <3>3. d.agent = label /\ d.path = result.path
      BY <1>5
    <3> QED BY <1>4, <3>1, <3>2, <3>3
  <2> QED BY <2>1, <2>2 DEF Subject
<1> QED BY <1>2, <1>7, <1>9

----------------------------------------------------------------------------
(* The rows of the projection so far. *)
Rowed ==
    /\ \E n \in Nat : out = [i \in 1..n |-> out[i]]
    /\ \A i \in DOMAIN out : History(out[i]) /\ Subject(out[i])

(* Rows that are the history of a holder are added to such rows. *)
LEMMA MoreRows ==
    ASSUME Rowed, events' = events, NEW n \in Nat, NEW rows, rows = [i \in 1..n |-> rows[i]],
           \A i \in 1..n : History(rows[i]) /\ Subject(rows[i]), out' = out \o rows
    PROVE  Rowed'
<1>1. PICK m \in Nat : out = [i \in 1..m |-> out[i]]
  BY DEF Rowed
<1> DEFINE S == {out[i] : i \in 1..m} \cup {rows[i] : i \in 1..n}
<1>2. out \in Seq(S) /\ rows \in Seq(S)
  <2>1. out \in [1..m -> S] /\ rows \in [1..n -> S]
    BY <1>1
  <2> QED BY <2>1, SeqDef
<1>3. /\ Len(out) \in Nat /\ DOMAIN out = 1..Len(out) /\ Len(rows) \in Nat
      /\ DOMAIN rows = 1..Len(rows)
  BY <1>2, LenProperties
<1>4. /\ out' \in Seq(S) /\ Len(out') = Len(out) + Len(rows)
      /\ \A i \in 1..(Len(out) + Len(rows)) :
           out'[i] = IF i <= Len(out) THEN out[i] ELSE rows[i - Len(out)]
  BY <1>2, ConcatProperties
<1>5. /\ DOMAIN out' = 1..Len(out') /\ Len(out') \in Nat
      /\ out' = [i \in 1..Len(out') |-> out'[i]]
  <2>1. DOMAIN out' = 1..Len(out') /\ Len(out') \in Nat /\ out' \in [1..Len(out') -> S]
    BY <1>4, LenProperties
  <2> QED BY <2>1
<1>6. ASSUME NEW i \in DOMAIN out'
      PROVE  \/ \E j \in DOMAIN out : out'[i] = out[j]
             \/ \E j \in 1..n : out'[i] = rows[j]
  <2>1. i \in 1..(Len(out) + Len(rows))
    BY <1>4, <1>5
  <2>2. CASE i <= Len(out)
    BY <1>3, <1>4, <2>1, <2>2
  <2>3. CASE ~(i <= Len(out))
    <3>1. i - Len(out) \in 1..Len(rows)
      BY <1>3, <2>1, <2>3
    <3> QED BY <1>3, <1>4, <2>1, <2>3, <3>1
  <2> QED BY <2>2, <2>3
<1>7. ASSUME NEW i \in DOMAIN out' PROVE (History(out[i]) /\ Subject(out[i]))'
  <2>1. PICK r : r = out'[i]
    OBVIOUS
  <2>2. History(r) /\ Subject(r)
    BY <1>6, <2>1 DEF Rowed
  <2>3. History(out[i])'
    BY <2>1, <2>2 DEF History
  <2>4. Subject(out[i])'
    BY <2>1, <2>2 DEF Subject
  <2> QED BY <2>3, <2>4
<1>8. \E k \in Nat : out' = [i \in 1..k |-> out'[i]]
  BY <1>5
<1> QED BY <1>7, <1>8 DEF Rowed
LEMMA SameRows == ASSUME Rowed, UNCHANGED <<events, out>> PROVE Rowed'
<1>1. ASSUME NEW i \in DOMAIN out PROVE (History(out[i]) /\ Subject(out[i]))'
  <2>1. PICK r : r = out[i]
    OBVIOUS
  <2>2. r = out[i]'
    BY <2>1
  <2>3. History(r) /\ Subject(r)
    BY <2>1 DEF Rowed
  <2>4. History(out[i])'
    BY <2>2, <2>3 DEF History
  <2>5. Subject(out[i])'
    BY <2>2, <2>3 DEF Subject
  <2> QED BY <2>4, <2>5
<1> QED BY <1>1 DEF Rowed

LEMMA NoRows == ASSUME Rowed, UNCHANGED events, out' = out \o <<>> PROVE Rowed'
<1>1. PICK rows : rows = <<>>
  OBVIOUS
<1>2. rows = [i \in 1..0 |-> rows[i]] /\ \A i \in 1..0 : History(rows[i]) /\ Subject(rows[i])
  BY <1>1
<1> QED BY <1>1, <1>2, MoreRows

LEMMA RevocationRows ==
    ASSUME Collected, Rowed, NEW result \in Results, Projection!Revocation(result)
    PROVE  Rowed'
<1> DEFINE items == Projection!Items(result)
           between == [i \in DOMAIN items |-> Projection!CheckItem(result, items[i])]
           rows == [i \in DOMAIN items |-> Projection!Row(result, items[i])]
           c1 == Projection!CheckUnseen(result)
           c2 == Projection!CheckPathShape(result)
           c3 == Projection!CheckSiblings(result)
           check == Projection!FirstOf(<<c1, c2>> \o between \o <<c3>>)
<1>1. ~result.skipped /\ result.path # "unreachable" /\ Projection!Project(result, check, rows)
  BY DEF Projection!Revocation
<1>2. PICK n \in Nat : /\ items = [i \in 1..n |-> items[i]]
                       /\ \A i \in 1..n : Projection!ItemFits(items[i])
  BY <1>1, ResultItems
<1>3. DOMAIN items = 1..n
  BY <1>2
<1>4. between = [i \in 1..n |-> between[i]] /\ rows = [i \in 1..n |-> rows[i]]
  BY <1>3
<1>5. \A i \in 1..n : /\ between[i] = Projection!CheckItem(result, items[i])
                      /\ rows[i] = Projection!Row(result, items[i])
  BY <1>3
<1>6. check = Projection!FirstOf(<<c1, c2>> \o between \o <<c3>>)
  OBVIOUS
<1> HIDE DEF items, between, rows, c1, c2, c3, check
<1>7. CASE check = "none"
  <2>1. \A i \in 1..n : between[i] = "none"
    <3>1. PICK before : before = <<c1, c2>>
      OBVIOUS
    <3>2. Projection!FirstOf(before \o between \o <<c3>>) = "none"
      BY <1>6, <1>7, <3>1
    <3> QED BY <1>4, <3>1, <3>2, MiddleChecks
  <2>2. \A i \in 1..n : History(rows[i]) /\ Subject(rows[i])
    BY <1>2, <1>5, <2>1, RowHistory
  <2>3. UNCHANGED events /\ out' = out \o rows
    BY <1>1, <1>7 DEF Projection!Project
  <2> QED BY <1>4, <2>2, <2>3, MoreRows
<1>8. CASE check # "none"
  BY <1>1, <1>8, SameRows DEF Projection!Project, Projection!Refuse
<1> QED BY <1>7, <1>8

LEMMA RowsNext == ASSUME Collected, Rowed, Projection!Next PROVE Rowed'
<1>1. CASE Projection!Inspect
  <2>1. UNCHANGED <<events, out>>
    BY <1>1 DEF Projection!Inspect, Projection!Decision, Projection!DecisionLogLine,
       Projection!Other, Projection!Refuse
  <2> QED BY <2>1, SameRows
<1>2. CASE Projection!BindLogs \/ Projection!Derive \/ Projection!Derived
  <2>1. UNCHANGED <<events, out>>
    BY <1>2 DEF Projection!BindLogs, Projection!Derive, Projection!Derived, Projection!Refuse
  <2> QED BY <2>1, SameRows
<1>3. ASSUME NEW result \in Results, Projection!Skipped(result) \/ Projection!Outage(result)
      PROVE  Rowed'
  <2>1. UNCHANGED events /\ (out' = out \/ out' = out \o <<>>)
    BY <1>3 DEF Projection!Skipped, Projection!Outage, Projection!Project, Projection!Refuse
  <2> QED BY <2>1, SameRows, NoRows
<1>4. CASE Projection!Result
  BY <1>3, <1>4, RevocationRows DEF Projection!Result
<1> QED BY <1>1, <1>2, <1>4 DEF Projection!Next

(* A behaviour that is not of the projection leaves it as NoProjection has it. *)
Projected == \/ at = "none" /\ out = <<>>
             \/ Collected /\ Decided /\ Rowed

LEMMA ProjectedInit == AnyInit => Projected
<1>1. NoProjection => Projected
  BY DEF NoProjection, Projected
<1>2. ASSUME Projection!Init PROVE Projected
  <2>1. /\ at = "events" /\ events \in Files /\ position = 1 /\ out = <<>>
        /\ decisions = [s \in Sessions |-> Nobody] /\ logs = [s \in Sessions |-> Nobody]
    BY <1>2 DEF Projection!Init
  <2>2. Len(events) \in Nat /\ DOMAIN events = 1..Len(events)
    BY <2>1, EventsAreRows
  <2>3. \A kind, s : Met(kind, s) = {}
    BY <2>1, <2>2 DEF Met, Projection!At
  <2>4. \A i \in DOMAIN events : ~(i < position)
    BY <2>1, <2>2
  <2>5. Collected
    BY <2>1, <2>2, <2>3, <2>4 DEF Collected
  <2>6. Decided
    BY <2>1 DEF Decided
  <2>7. Rowed
    <3>1. out = [i \in 1..0 |-> out[i]] /\ DOMAIN out = {}
      BY <2>1
    <3> QED BY <3>1 DEF Rowed
  <2> QED BY <2>5, <2>6, <2>7 DEF Projected
<1> QED BY <1>1, <1>2 DEF AnyInit

LEMMA ProjectedNext == Projected /\ [AnyNext]_<<vars, projectionVars>> => Projected'
<1> SUFFICES ASSUME Projected, [AnyNext]_<<vars, projectionVars>> PROVE Projected'
  OBVIOUS
<1>1. CASE UNCHANGED projectionVars
  <2>1. CASE at = "none" /\ out = <<>>
    BY <1>1, <2>1 DEF Projected, projectionVars
  <2>2. CASE Collected /\ Decided /\ Rowed
    <3>1. Collected'
      BY <1>1, <2>2 DEF Collected, Met, Projection!At, Projection!Unidentified, projectionVars
    <3>2. Decided'
      <4>1. \A s : Projection!Bound(s)' = Projection!Bound(s)
        BY <1>1 DEF Projection!Bound, projectionVars
      <4>2. Projection!Sound' = Projection!Sound
        BY <1>1 DEF Projection!Sound, Projection!At, Projection!Unidentified, projectionVars
      <4> QED BY <1>1, <2>2, <4>1, <4>2 DEF Decided, projectionVars
    <3>3. Rowed'
      BY <1>1, <2>2, SameRows DEF projectionVars
    <3> QED BY <3>1, <3>2, <3>3 DEF Projected
  <2> QED BY <2>1, <2>2 DEF Projected
<1>2. CASE at # "none" /\ Projection!Next
  <2>1. Collected /\ Decided /\ Rowed
    BY <1>2 DEF Projected
  <2>2. Collected' /\ Decided'
    BY <1>2, <2>1, InspectRow, AfterRows DEF Projection!Next
  <2>3. Rowed'
    BY <1>2, <2>1, RowsNext
  <2> QED BY <2>2, <2>3 DEF Projected
<1> QED BY <1>1, <1>2 DEF AnyNext

LEMMA AlwaysProjected == AnySpec => []Projected
BY ProjectedInit, ProjectedNext, PTL DEF AnySpec

(* inspect_events accepts exactly the sound files: a line of the log may come  *)
(* before its decision, and no order of the rows hides a second decision, a    *)
(* line of another session or one that says something else.                  *)
THEOREM InspectionIsExact == AnySpec => []InspectionDecides
<1>1. Projected => InspectionDecides
  <2> SUFFICES ASSUME Projected PROVE InspectionDecides
    OBVIOUS
  <2>1. CASE at = "none"
    BY <2>1 DEF InspectionDecides, Projection!InspectionDecides
  <2>2. CASE Collected /\ Decided
    <3>1. Len(events) \in Nat /\ position \in 1..(Len(events) + 1)
      BY <2>2, EventsAreRows DEF Collected
    <3>2. position <= Len(events) \/ position = Len(events) + 1
      BY <3>1
    <3> QED BY <2>2, <3>2, WholeFile DEF Decided, InspectionDecides, Projection!InspectionDecides
  <2> QED BY <2>1, <2>2 DEF Projected
<1> QED BY <1>1, AlwaysProjected, PTL

(* What a row of the projection selects was recorded, on its path, with the    *)
(* outcome its slot is named for and of the one holder it names; and the root  *)
(* closes the only ring recorded for that holder there (paths, one).           *)
THEOREM RowsAreHistories == AnySpec => []RowIsOneHistory
<1>1. Projected => RowIsOneHistory
  <2>1. Projected => \A i \in DOMAIN out : History(out[i])
    BY DEF Projected, Rowed
  <2> QED BY <2>1 DEF RowIsOneHistory, Projection!RowIsOneHistory, Projection!ToSet, History
<1> QED BY <1>1, AlwaysProjected, PTL

(* A refresh is reported of a known holder, and it is that holder's own        *)
(* (refresh: no recorded one is taken for that of a holder who is not known).  *)
THEOREM RefreshesAreOfSubjects == AnySpec => []RefreshIsOfTheSubject
<1>1. Projected => RefreshIsOfTheSubject
  <2>1. Projected => \A i \in DOMAIN out : Subject(out[i])
    BY DEF Projected, Rowed
  <2> QED BY <2>1 DEF RefreshIsOfTheSubject, Projection!RefreshIsOfTheSubject, Projection!ToSet,
     Subject
<1> QED BY <1>1, AlwaysProjected, PTL
============================================================================
