------------------------ MODULE MutationSweepProofs ------------------------
(***************************************************************************)
(* What a verdict is about, what a finished sweep leaves, and what can be    *)
(* undone after an interrupted one, for any selection and order of the      *)
(* cases and any number of sweeps, kills and saves.                         *)
(*                                                                          *)
(* None of the three is inductive: Undisturbed says, for each place of the   *)
(* script, which files are those the sweep began with.                      *)
(***************************************************************************)
EXTENDS MutationSweep, SequenceTheorems, TLAPS

CaseSet == ToSet(CASES)
Marks == {c.id : c \in CaseSet} \cup {Saved, Torn}
Sources == [Files -> SUBSET Marks]
RowSet == [id : {c.id : c \in CaseSet}, status : {"PATCH-DID-NOT-APPLY", "RED", "STILL-GREEN"},
           compiled : BOOLEAN, of : Sources]

(* What is left of a list of files while it is worked through. *)
Remainders == {FILES, <<"number.rs", "lib.rs">>, <<"lib.rs">>, <<>>}

CaseCount == Len(Cases)
RowCount == Len(rows)

Typed ==
    /\ src \in Sources /\ backup \in Sources /\ built \in Sources /\ base \in Sources
    /\ pc \in {"off", "backup", "restore", "count", "write", "cargo", "test", "final"}
    /\ todo \in Remainders /\ opened \in BOOLEAN
    /\ current \in 1..CaseCount + 1
    /\ text \in SUBSET Marks
    /\ rows \in Seq(RowSet)
    /\ ended \in {"never", "running", "finished", "early", "interrupted"}
    /\ disturbed \in BOOLEAN

(* One row for each case before the current one. *)
Recorded ==
    /\ RowCount = current - 1
    /\ \A i \in 1..RowCount : rows[i].id = Cases[i].id
    /\ pc \in {"restore", "count", "write", "cargo", "test"} => current <= CaseCount
    /\ pc = "backup" => current = 1
    /\ pc = "final" \/ ended = "finished" => current = CaseCount + 1
    /\ pc = "off" <=> ended # "running"

(* The sources a case is tried on. *)
EditOf(c) == [base EXCEPT ![c.file] = @ \cup {c.id}]

(* The files already copied are those the sweep began with. *)
CopiedSoFar(to) == \A f \in Files \ ToSet(todo) : to[f] = base[f]

Undisturbed ==
    ~disturbed =>
      /\ pc = "backup" => src = base /\ CopiedSoFar(backup)
      /\ pc \notin {"off", "backup"} => backup = base
      /\ pc \in {"restore", "final"} => CopiedSoFar(src)
      /\ pc = "count" => src = base
      /\ pc \in {"count", "write"} => text = base[Cases[current].file]
      /\ pc = "write" => \A f \in Files \ {Cases[current].file} : src[f] = base[f]
      /\ pc = "cargo" => src = EditOf(Cases[current])
      /\ pc = "test" => built = EditOf(Cases[current])
      /\ \A i \in 1..RowCount :
           rows[i].status # "PATCH-DID-NOT-APPLY" => rows[i].of = EditOf(Cases[i])
      /\ ended \in {"early", "finished"} => src = base
      /\ ended = "interrupted" => backup = base

IInv == Typed /\ Recorded /\ Undisturbed

----------------------------------------------------------------------------
(* The table of cases. *)
LEMMA CaseTable ==
    /\ \A c \in CaseSet : c.file \in Files
    /\ \A c, d \in CaseSet : c.id = d.id => c = d
<1>1. DOMAIN CASES = 1..17
  BY DEF CASES
<1>2. \A c \in CaseSet : \E i \in 1..17 : c = CASES[i]
  BY <1>1 DEF CaseSet, ToSet
<1>3. Files = {"parse.rs", "number.rs", "lib.rs"}
  BY DEF Files, FILES, ToSet
<1>4. \A i \in 1..17 : CASES[i].file \in {"parse.rs", "number.rs", "lib.rs"}
  BY DEF CASES, Case
<1>5. \A i, j \in 1..17 : CASES[i].id = CASES[j].id => i = j
  BY DEF CASES, Case
<1> QED BY <1>2, <1>3, <1>4, <1>5

LEMMA CasesTyped ==
    /\ CaseCount \in Nat \ {0}
    /\ \A i \in 1..CaseCount : Cases[i] \in CaseSet /\ Cases[i].file \in Files /\ Cases[i].id \in Marks
    /\ DOMAIN Cases = 1..CaseCount
<1>1. Cases \in Seq(CaseSet) /\ Cases # <<>>
  BY SweepAssumption DEF CaseSet
<1>2. CaseCount \in Nat \ {0} /\ DOMAIN Cases = 1..CaseCount
  BY <1>1, LenProperties, EmptySeq DEF CaseCount
<1>3. \A i \in 1..CaseCount : Cases[i] \in CaseSet
  BY <1>1, ElementOfSeq DEF CaseCount
<1> QED BY <1>2, <1>3, CaseTable DEF Marks

LEMMA FilesCopied ==
    /\ FILES \in Remainders /\ <<>> \in Remainders
    /\ ToSet(FILES) = Files /\ ToSet(<<>>) = {}
    /\ \A list \in Remainders :
         list # <<>> =>
           /\ Head(list) \in Files /\ Tail(list) \in Remainders
           /\ \A f \in Files \ ToSet(Tail(list)) : f = Head(list) \/ f \notin ToSet(list)
           /\ Head(list) \in ToSet(list)
BY DEF Files, FILES, Remainders, ToSet

LEMMA InitInv == Init => IInv
<1> SUFFICES ASSUME Init PROVE IInv
  OBVIOUS
<1>1. Committed \in Sources /\ [f \in Files |-> {Torn}] \in Sources
  BY DEF Committed, Sources, Marks
<1>2. rows \in Seq(RowSet) /\ RowCount = 0
  BY EmptySeq DEF Init, RowCount
<1>3. Typed
  <2>1. 1 \in 1..CaseCount + 1
    BY CasesTyped
  <2>2. <<>> \in Remainders /\ {} \in SUBSET Marks
    BY DEF Remainders
  <2> QED BY <1>1, <1>2, <2>1, <2>2 DEF Init, Typed
<1>4. Recorded /\ Undisturbed
  BY <1>2, CasesTyped DEF Init, Recorded, Undisturbed
<1> QED BY <1>3, <1>4 DEF IInv

(* One more file is opened or copied. *)
LEMMA CopyStep ==
    ASSUME todo \in Remainders, todo # <<>>, opened \in BOOLEAN, NextFile,
           NEW from \in Sources, NEW to \in Sources
    PROVE  /\ Copied(from, to) \in Sources /\ todo' \in Remainders /\ opened' \in BOOLEAN
           /\ from = base /\ CopiedSoFar(to) =>
                \A f \in Files \ ToSet(todo') : Copied(from, to)[f] = base[f]
<1> DEFINE result == Copied(from, to)
<1>1. /\ Head(todo) \in Files /\ Tail(todo) \in Remainders /\ Head(todo) \in ToSet(todo)
      /\ \A f \in Files \ ToSet(Tail(todo)) : f = Head(todo) \/ f \notin ToSet(todo)
  BY FilesCopied
<1>2. /\ opened' = ~opened /\ todo' = IF opened THEN Tail(todo) ELSE todo
  BY DEF NextFile
<1>3. /\ result \in Sources
      /\ result[Head(todo)] = IF opened THEN from[Head(todo)] ELSE {Torn}
      /\ \A f \in Files \ {Head(todo)} : result[f] = to[f]
  BY <1>1 DEF Copied, Sources, Marks
<1> HIDE DEF result
<1>4. from = base /\ CopiedSoFar(to) => \A f \in Files \ ToSet(todo') : result[f] = base[f]
  BY <1>1, <1>2, <1>3 DEF CopiedSoFar
<1> QED BY <1>1, <1>2, <1>3, <1>4 DEF result

LEMMA StartInv == ASSUME IInv, Start PROVE IInv'
<1>0. /\ backup' = [f \in Files |-> {Torn}]
      /\ pc' = "backup" /\ todo' = FILES /\ opened' = FALSE
      /\ current' = 1 /\ text' = {} /\ built' = Committed /\ rows' = <<>>
      /\ ended' = "running" /\ base' = src /\ disturbed' = FALSE /\ src' = src
  BY DEF Start
<1>1. Committed \in Sources /\ [f \in Files |-> {Torn}] \in Sources
  BY DEF Committed, Sources, Marks
<1>2. rows' \in Seq(RowSet) /\ RowCount' = 0
  BY <1>0, EmptySeq DEF RowCount
<1>3. Typed'
  <2>1. 1 \in 1..CaseCount + 1 /\ CaseCount' = CaseCount
    BY CasesTyped DEF CaseCount
  <2>2. FILES \in Remainders /\ {} \in SUBSET Marks
    BY FilesCopied
  <2> QED BY <1>0, <1>1, <1>2, <2>1, <2>2 DEF IInv, Typed
<1>4. Recorded'
  BY <1>0, <1>2 DEF Recorded
<1>5. CopiedSoFar(backup)'
  BY <1>0, FilesCopied DEF CopiedSoFar
<1>6. Undisturbed'
  BY <1>0, <1>2, <1>5 DEF Undisturbed
<1> QED BY <1>3, <1>4, <1>6 DEF IInv

LEMMA TakeBackupInv == ASSUME IInv, TakeBackup PROVE IInv'
<1>0. /\ pc = "backup" /\ todo # <<>> /\ NextFile /\ src' = src /\ backup' = Copied(src, backup)
      /\ UNCHANGED <<pc, current, text, built, rows, ended, base, disturbed>>
  BY DEF TakeBackup, NextFile, World
<1>1. /\ Copied(src, backup) \in Sources /\ todo' \in Remainders /\ opened' \in BOOLEAN
      /\ src = base /\ CopiedSoFar(backup) =>
           \A f \in Files \ ToSet(todo') : Copied(src, backup)[f] = base[f]
  BY <1>0, CopyStep DEF IInv, Typed
<1>2. Typed'
  BY <1>0, <1>1 DEF IInv, Typed
<1>3. Recorded'
  BY <1>0 DEF IInv, Recorded, RowCount
<1>4. Undisturbed'
  BY <1>0, <1>1 DEF IInv, Recorded, Undisturbed, CopiedSoFar, RowCount, EditOf
<1> QED BY <1>2, <1>3, <1>4 DEF IInv

LEMMA RestoreInv == ASSUME IInv, Restore PROVE IInv'
<1>0. /\ pc \in {"restore", "final"} /\ todo # <<>> /\ NextFile /\ backup' = backup
      /\ src' = Copied(backup, src)
      /\ UNCHANGED <<pc, current, text, built, rows, ended, base, disturbed>>
  BY DEF Restore, NextFile, World
<1>1. /\ Copied(backup, src) \in Sources /\ todo' \in Remainders /\ opened' \in BOOLEAN
      /\ backup = base /\ CopiedSoFar(src) =>
           \A f \in Files \ ToSet(todo') : Copied(backup, src)[f] = base[f]
  BY <1>0, CopyStep DEF IInv, Typed
<1>2. Typed'
  BY <1>0, <1>1 DEF IInv, Typed
<1>3. Recorded'
  BY <1>0 DEF IInv, Recorded, RowCount
<1>4. Undisturbed'
  BY <1>0, <1>1 DEF IInv, Recorded, Undisturbed, CopiedSoFar, RowCount, EditOf
<1> QED BY <1>2, <1>3, <1>4 DEF IInv

(* All files copied is every file copied. *)
LEMMA AllCopied ==
    ASSUME todo = <<>>, NEW to \in Sources, base \in Sources, CopiedSoFar(to)
    PROVE  to = base
BY FilesCopied DEF CopiedSoFar, Sources

(* What the head of the loop does, whether or not a case is left. *)
LEMMA NextCaseOutcome ==
    ASSUME NEW n \in 1..CaseCount + 1, NextCase(n)
    PROVE  /\ current' = n /\ current' \in 1..CaseCount + 1
           /\ pc' = (IF n > CaseCount THEN "final" ELSE "restore")
           /\ pc' = "restore" => n <= CaseCount
           /\ pc' = "final" => n = CaseCount + 1
           /\ todo' \in Remainders /\ CopiedSoFar(src)'
           /\ UNCHANGED <<src, backup, opened, built, ended, base, disturbed>>
<1>1. /\ current' = n /\ pc' = (IF n > CaseCount THEN "final" ELSE "restore")
      /\ todo' = FILES
      /\ UNCHANGED <<src, backup, opened, built, ended, base, disturbed>>
  BY DEF NextCase, World, CaseCount
<1>2. CaseCount \in Nat
  BY CasesTyped
<1> QED BY <1>1, <1>2, FilesCopied DEF CopiedSoFar

LEMMA BeginLoopInv == ASSUME IInv, BeginLoop PROVE IInv'
<1>0. /\ pc = "backup" /\ todo = <<>> /\ NextCase(1) /\ UNCHANGED <<text, rows>>
      /\ 1 \in 1..CaseCount + 1
  BY CasesTyped DEF BeginLoop
<1>1. /\ current' = 1 /\ current' \in 1..CaseCount + 1
      /\ pc' \in {"final", "restore"}
      /\ pc' = "restore" => 1 <= CaseCount
      /\ pc' = "final" => 1 = CaseCount + 1
      /\ todo' \in Remainders /\ CopiedSoFar(src)'
      /\ UNCHANGED <<src, backup, opened, built, ended, base, disturbed>>
  BY <1>0, NextCaseOutcome
<1>2. Typed'
  BY <1>0, <1>1 DEF IInv, Typed, CaseCount
<1>3. Recorded'
  BY <1>0, <1>1 DEF IInv, Recorded, RowCount, CaseCount
<1>4. Undisturbed'
  <2>1. ~disturbed => backup = base
    BY <1>0, AllCopied DEF IInv, Typed, Undisturbed
  <2> QED BY <1>0, <1>1, <2>1 DEF IInv, Recorded, Undisturbed, RowCount, EditOf
<1> QED BY <1>2, <1>3, <1>4 DEF IInv

LEMMA ReadTextInv == ASSUME IInv, ReadText PROVE IInv'
<1>0. /\ pc = "restore" /\ todo = <<>> /\ pc' = "count" /\ text' = src[Cases[current].file]
      /\ UNCHANGED <<src, backup, todo, opened, current, built, rows, ended, base, disturbed>>
  BY DEF ReadText, World
<1>1. Cases[current].file \in Files
  BY <1>0, CasesTyped DEF IInv, Typed, Recorded
<1>2. Typed'
  BY <1>0, <1>1 DEF IInv, Typed, Sources
<1>3. Recorded'
  BY <1>0 DEF IInv, Recorded, RowCount
<1>4. Undisturbed'
  <2>1. ~disturbed => src = base
    BY <1>0, AllCopied DEF IInv, Typed, Undisturbed
  <2> QED BY <1>0, <2>1 DEF IInv, Recorded, Undisturbed, RowCount, EditOf
<1> QED BY <1>2, <1>3, <1>4 DEF IInv

LEMMA OpenTextInv == ASSUME IInv, OpenText PROVE IInv'
<1>0. /\ pc = "count" /\ pc' = "write" /\ src' = [src EXCEPT ![Cases[current].file] = {Torn}]
      /\ UNCHANGED <<backup, todo, opened, current, text, built, rows, ended, base, disturbed>>
  BY DEF OpenText, World
<1>1. Cases[current].file \in Files
  BY <1>0, CasesTyped DEF IInv, Typed, Recorded
<1>2. src' \in Sources /\ \A f \in Files \ {Cases[current].file} : src'[f] = src[f]
  BY <1>0, <1>1 DEF IInv, Typed, Sources, Marks
<1>3. Typed'
  BY <1>0, <1>2 DEF IInv, Typed
<1>4. Recorded'
  BY <1>0 DEF IInv, Recorded, RowCount
<1>5. Undisturbed'
  BY <1>0, <1>2 DEF IInv, Recorded, Undisturbed, RowCount, EditOf
<1> QED BY <1>3, <1>4, <1>5 DEF IInv

LEMMA WriteTextInv == ASSUME IInv, WriteText PROVE IInv'
<1> DEFINE case == Cases[current]
<1>0. /\ pc = "write" /\ pc' = "cargo"
      /\ src' = [src EXCEPT ![case.file] = text \cup {case.id}]
      /\ UNCHANGED <<backup, todo, opened, current, text, built, rows, ended, base, disturbed>>
  BY DEF WriteText, World
<1>1. case.file \in Files /\ case.id \in Marks
  BY <1>0, CasesTyped DEF IInv, Typed, Recorded
<1> HIDE DEF case
<1>2. /\ src' \in Sources /\ src'[case.file] = text \cup {case.id}
      /\ \A f \in Files \ {case.file} : src'[f] = src[f]
  BY <1>0, <1>1 DEF IInv, Typed, Sources
<1>3. Typed'
  BY <1>0, <1>2 DEF IInv, Typed
<1>4. Recorded'
  BY <1>0 DEF IInv, Recorded, RowCount
<1>5. ~disturbed => src' = EditOf(case)
  <2>1. ~disturbed => /\ text = base[case.file]
                      /\ \A f \in Files \ {case.file} : src[f] = base[f]
    BY <1>0 DEF IInv, Undisturbed, case
  <2> QED BY <1>1, <1>2, <2>1 DEF IInv, Typed, Sources, EditOf
<1>6. Undisturbed'
  BY <1>0, <1>5 DEF IInv, Recorded, Undisturbed, RowCount, EditOf, case
<1> QED BY <1>3, <1>4, <1>6 DEF IInv

LEMMA CargoReadsInv == ASSUME IInv, CargoReads PROVE IInv'
<1>0. /\ pc = "cargo" /\ pc' = "test" /\ built' = src
      /\ UNCHANGED <<src, backup, todo, opened, current, text, rows, ended, base, disturbed>>
  BY DEF CargoReads, World
<1>1. Typed'
  BY <1>0 DEF IInv, Typed
<1>2. Recorded'
  BY <1>0 DEF IInv, Recorded, RowCount
<1>3. Undisturbed'
  BY <1>0 DEF IInv, Recorded, Undisturbed, RowCount, EditOf
<1> QED BY <1>1, <1>2, <1>3 DEF IInv

LEMMA RowFields ==
    ASSUME NEW status, NEW compiled
    PROVE  /\ Row(status, compiled).id = Cases[current].id
           /\ Row(status, compiled).status = status /\ Row(status, compiled).of = built
BY DEF Row

(* The row of the current case, and the head of the loop. *)
LEMMA RowAdded ==
    ASSUME IInv, pc \in {"count", "test"}, NEW status \in {"PATCH-DID-NOT-APPLY", "RED", "STILL-GREEN"},
           NEW compiled \in BOOLEAN, rows' = Append(rows, Row(status, compiled)),
           NextCase(current + 1), text' = text,
           status = "PATCH-DID-NOT-APPLY" \/ pc = "test"
    PROVE  IInv'
<1>0. /\ current \in 1..CaseCount /\ RowCount = current - 1 /\ CaseCount \in Nat
      /\ RowCount \in Nat /\ Cases[current] \in CaseSet
  BY CasesTyped DEF IInv, Typed, Recorded
<1>1. /\ current' = current + 1 /\ current' \in 1..CaseCount + 1
      /\ pc' \in {"final", "restore"}
      /\ pc' = "restore" => current + 1 <= CaseCount
      /\ pc' = "final" => current + 1 = CaseCount + 1
      /\ todo' \in Remainders /\ CopiedSoFar(src)'
      /\ UNCHANGED <<src, backup, opened, built, ended, base, disturbed>>
  BY <1>0, NextCaseOutcome
<1>2. Row(status, compiled) \in RowSet
  BY <1>0 DEF Row, RowSet, IInv, Typed
<1>3. /\ rows' \in Seq(RowSet) /\ RowCount' = RowCount + 1
      /\ rows'[current] = Row(status, compiled)
      /\ \A i \in 1..RowCount : rows'[i] = rows[i]
  BY <1>0, <1>2, AppendProperties DEF IInv, Typed, RowCount
<1>4. \A i \in 1..RowCount' : i = current \/ i \in 1..RowCount
  BY <1>0, <1>3
<1>8. /\ rows'[current].id = Cases[current].id
      /\ rows'[current].status = status /\ rows'[current].of = built
  BY <1>3, RowFields
<1>5. Typed'
  BY <1>1, <1>3 DEF IInv, Typed, CaseCount
<1>6. Recorded'
  <2>1. \A i \in 1..RowCount' : rows'[i].id = Cases[i].id
    BY <1>3, <1>4, <1>8 DEF IInv, Recorded
  <2>2. RowCount' = current' - 1
    BY <1>0, <1>1, <1>3
  <2> QED BY <1>0, <1>1, <2>1, <2>2 DEF IInv, Recorded, CaseCount
<1>7. Undisturbed'
  <2> SUFFICES ASSUME ~disturbed PROVE Undisturbed'
    BY <1>1 DEF Undisturbed
  <2>1. backup = base
    BY DEF IInv, Undisturbed
  <2>2. status # "PATCH-DID-NOT-APPLY" => built = EditOf(Cases[current])
    BY DEF IInv, Undisturbed
  <2>3. \A i \in 1..RowCount' :
          rows'[i].status # "PATCH-DID-NOT-APPLY" => rows'[i].of = EditOf(Cases[i])
    BY <1>3, <1>4, <1>8, <2>2 DEF IInv, Undisturbed
  <2>4. ended = "running"
    BY DEF IInv, Typed, Recorded
  <2> QED BY <1>1, <2>1, <2>3, <2>4 DEF Undisturbed, EditOf
<1> QED BY <1>5, <1>6, <1>7 DEF IInv

LEMMA PatchDoesNotApplyInv == ASSUME IInv, PatchDoesNotApply PROVE IInv'
BY RowAdded DEF PatchDoesNotApply

LEMMA CargoEndsInv == ASSUME IInv, CargoEnds PROVE IInv'
<1>1. PICK exit \in {0, 101} : \E compiled \in BOOLEAN :
        rows' = Append(rows, Row(IF exit # 0 THEN "RED" ELSE "STILL-GREEN", compiled))
  BY DEF CargoEnds
<1>2. PICK compiled \in BOOLEAN :
        rows' = Append(rows, Row(IF exit # 0 THEN "RED" ELSE "STILL-GREEN", compiled))
  BY <1>1
<1> QED BY <1>2, RowAdded DEF CargoEnds

LEMMA WriteResultsInv == ASSUME IInv, WriteResults PROVE IInv'
<1>0. /\ pc = "final" /\ todo = <<>> /\ pc' = "off" /\ ended' = "finished"
      /\ UNCHANGED <<src, backup, todo, opened, current, text, built, rows, base, disturbed>>
  BY DEF WriteResults, World
<1>1. Typed'
  BY <1>0 DEF IInv, Typed
<1>2. Recorded'
  BY <1>0 DEF IInv, Recorded, RowCount
<1>3. ~disturbed => src = base
  BY <1>0, AllCopied DEF IInv, Typed, Undisturbed
<1>4. Undisturbed'
  BY <1>0, <1>3 DEF IInv, Undisturbed, RowCount, EditOf
<1> QED BY <1>1, <1>2, <1>4 DEF IInv

LEMMA InterruptedInv == ASSUME IInv, pc # "off", Interrupted, backup' = backup PROVE IInv'
<1>0. /\ pc' = "off" /\ ended' = (IF pc = "backup" THEN "early" ELSE "interrupted")
      /\ UNCHANGED <<src, todo, opened, current, text, built, rows, base, disturbed>>
  BY DEF Interrupted
<1>1. Typed'
  BY <1>0 DEF IInv, Typed
<1>2. Recorded'
  BY <1>0 DEF IInv, Recorded, RowCount
<1>3. Undisturbed'
  BY <1>0 DEF IInv, Typed, Undisturbed, RowCount, EditOf
<1> QED BY <1>1, <1>2, <1>3 DEF IInv

LEMMA AuthorInv == ASSUME IInv, AuthorActs, src' \in Sources PROVE IInv'
<1>0. /\ disturbed' = TRUE
      /\ UNCHANGED <<backup, pc, todo, opened, current, text, built, rows, ended, base>>
  BY DEF AuthorActs, script
<1>1. Typed'
  BY <1>0 DEF IInv, Typed
<1>2. Recorded' /\ Undisturbed'
  BY <1>0 DEF IInv, Recorded, Undisturbed, RowCount
<1> QED BY <1>1, <1>2 DEF IInv

LEMMA SaveInv == ASSUME IInv, Save \/ Checkout PROVE IInv'
<1>1. AuthorActs /\ src' \in Sources
  BY DEF Save, Checkout, IInv, Typed, Sources, Committed, Marks
<1> QED BY <1>1, AuthorInv

LEMMA StutterInv == ASSUME IInv, UNCHANGED vars PROVE IInv'
<1>1. Typed'
  BY DEF IInv, Typed, vars, script
<1>2. Recorded' /\ Undisturbed'
  BY DEF IInv, Recorded, Undisturbed, CopiedSoFar, RowCount, EditOf, vars, script
<1> QED BY <1>1, <1>2 DEF IInv

LEMMA Inductive == Spec => []IInv
<1>1. IInv /\ [Next]_vars => IInv'
  <2> SUFFICES ASSUME IInv, [Next]_vars PROVE IInv'
    OBVIOUS
  <2>1. CASE Start \/ CargoReads \/ CargoEnds
    BY <2>1, StartInv, CargoReadsInv, CargoEndsInv
  <2>2. CASE Script
    BY <2>2, TakeBackupInv, BeginLoopInv, RestoreInv, ReadTextInv, PatchDoesNotApplyInv,
       OpenTextInv, WriteTextInv, WriteResultsInv DEF Script
  <2>3. CASE Killed \/ TimeoutExpired
    BY <2>3, InterruptedInv DEF Killed, TimeoutExpired
  <2>4. CASE Save \/ Checkout
    BY <2>4, SaveInv
  <2>5. CASE UNCHANGED vars
    BY <2>5, StutterInv
  <2> QED BY <2>1, <2>2, <2>3, <2>4, <2>5 DEF Next
<1> QED BY <1>1, InitInv, PTL DEF Spec

----------------------------------------------------------------------------
(* However often sweeps are killed and started on what that leaves, a verdict  *)
(* is about the sources its sweep found with the edit of its own case in them  *)
(* and no other, unless their author changed them meanwhile.                 *)
THEOREM VerdictsAreOfEdits == Spec => []VerdictIsOfEdit
<1>1. IInv => VerdictIsOfEdit
  <2> SUFFICES ASSUME IInv, ~disturbed, NEW i \in DOMAIN rows,
                      rows[i].status # "PATCH-DID-NOT-APPLY"
               PROVE  LET c == CHOOSE c \in ToSet(Cases) : c.id = rows[i].id
                      IN  rows[i].of = [base EXCEPT ![c.file] = @ \cup {c.id}]
    BY DEF VerdictIsOfEdit
  <2> DEFINE chosen == CHOOSE c \in ToSet(Cases) : c.id = rows[i].id
  <2>1. i \in 1..RowCount /\ i \in 1..CaseCount
    <3>1. i \in 1..RowCount
      BY LenProperties DEF IInv, Typed, RowCount
    <3> QED BY <3>1, CasesTyped DEF IInv, Typed, Recorded
  <2>2. Cases[i] \in ToSet(Cases) /\ rows[i].id = Cases[i].id
    BY <2>1, CasesTyped DEF IInv, Recorded, ToSet
  <2>3. chosen \in ToSet(Cases) /\ chosen.id = Cases[i].id
    BY <2>2
  <2>4. \A c \in ToSet(Cases) : c \in CaseSet
    BY CasesTyped DEF ToSet
  <2>5. chosen = Cases[i]
    BY <2>2, <2>3, <2>4, CaseTable
  <2>6. rows[i].of = EditOf(Cases[i])
    BY <2>1 DEF IInv, Undisturbed
  <2> QED BY <2>5, <2>6 DEF EditOf
<1> QED BY <1>1, Inductive, PTL

(* A sweep that ends by itself has a row for each case, in order, and leaves   *)
(* the sources as it found them.                                             *)
THEOREM FinishedRestores == Spec => []FinishedIsRestored
<1>1. IInv => FinishedIsRestored
  <2> SUFFICES ASSUME IInv, ended = "finished"
               PROVE  /\ [i \in DOMAIN rows |-> rows[i].id]
                           = [i \in DOMAIN Cases |-> Cases[i].id]
                      /\ ~disturbed => src = base
    BY DEF FinishedIsRestored
  <2>1. RowCount = CaseCount
    BY CasesTyped DEF IInv, Recorded
  <2>2. DOMAIN rows = 1..RowCount /\ DOMAIN Cases = 1..CaseCount
    BY CasesTyped, LenProperties DEF IInv, Typed, RowCount
  <2>3. \A i \in 1..RowCount : rows[i].id = Cases[i].id
    BY DEF IInv, Recorded
  <2>4. ~disturbed => src = base
    BY DEF IInv, Undisturbed
  <2> QED BY <2>1, <2>2, <2>3, <2>4
<1> QED BY <1>1, Inductive, PTL

(* What a kill or a timeout leaves can be undone until the next sweep starts.  *)
THEOREM InterruptionsRecoverable == Spec => []InterruptedIsRecoverable
<1>1. IInv => InterruptedIsRecoverable
  BY DEF IInv, Undisturbed, InterruptedIsRecoverable
<1> QED BY <1>1, Inductive, PTL
============================================================================
