--------------------------- MODULE MutationSweep ---------------------------
(***************************************************************************)
(* tools/mutation_sweep.py: the sources are copied aside, and each case     *)
(* restores them, edits one file in place, runs a test suite and keeps a    *)
(* row.  The tree that is edited is the one its author works in, and the    *)
(* script may be killed at any step or leave through TimeoutExpired, which  *)
(* nothing catches; the next sweep starts on what that left.                *)
(*                                                                          *)
(* What a file holds is the set of marks that set it apart from the         *)
(* committed file: the cases whose edit is in it, Saved for work of the     *)
(* author, Torn between the open that empties a file and the write.         *)
(***************************************************************************)
EXTENDS Naturals, Sequences, FiniteSets, SequencesExt

CONSTANTS
    Cases,          \* the rows of CASES that are swept, in order
    NoOccurrence,   \* anchors that the committed sources no longer hold
    MaxSweeps,      \* bound: how often the script is started
    MaxKills,       \* bound: how often it is killed
    MaxSaves        \* bound: author actions

FILES == <<"parse.rs", "number.rs", "lib.rs">>

(* The texts that edits replace. *)
ANCHORS == {"DUP_GUARD", "ENTER", "HI_SURR", "LO_SURR", "UTF8", "NONCHAR_RUN", "NONCHAR_GET",
            "UNSAFE_BR", "NONINT_BR", "IS_INT", "FINITE", "SIZE"}

Case(id, file, anchor) == [id |-> id, file |-> file, anchor |-> anchor]

(* CASES: which text each edit replaces, and where. *)
CASES ==
    <<Case("R1", "parse.rs",  "DUP_GUARD"),   Case("M1", "parse.rs",  "DUP_GUARD"),
      Case("R2", "parse.rs",  "ENTER"),       Case("M2", "parse.rs",  "ENTER"),
      Case("R3", "parse.rs",  "HI_SURR"),     Case("M3", "parse.rs",  "LO_SURR"),
      Case("R4", "parse.rs",  "UTF8"),        Case("R5", "lib.rs",    "NONCHAR_GET"),
      Case("M4", "parse.rs",  "NONCHAR_RUN"), Case("R6", "number.rs", "UNSAFE_BR"),
      Case("M5", "number.rs", "UNSAFE_BR"),   Case("R7", "number.rs", "NONINT_BR"),
      Case("M6", "number.rs", "IS_INT"),      Case("R8", "number.rs", "FINITE"),
      Case("M7", "number.rs", "FINITE"),      Case("R9", "lib.rs",    "SIZE"),
      Case("M8", "lib.rs",    "SIZE")>>

ASSUME SweepAssumption ==
    /\ Cases \in Seq(ToSet(CASES)) /\ IsInjective(Cases) /\ Cases # <<>>
    /\ NoOccurrence \subseteq ANCHORS
    /\ {MaxSweeps, MaxKills, MaxSaves} \subseteq Nat

Saved == "saved"
Torn  == "torn"
Files == ToSet(FILES)
Committed == [f \in Files |-> {}]

VARIABLES
    src, backup,      \* ROOT/src and LOGS/pristine
    pc,               \* "off" when no sweep is running
    todo, opened,     \* files left to copy, and whether the first is open
    current,          \* the case under way; beyond the last one after the loop
    text,             \* t, the text read from its file
    built,            \* the sources that cargo compiled
    rows,             \* results
    ended,            \* how the last sweep ended
    base, disturbed,  \* the sources when it began, and whether the author acted since
    sweeps, kills, saves

script == <<pc, todo, opened, current, text, built, rows>>
vars == <<src, backup, script, ended, base, disturbed, sweeps, kills, saves>>

Init ==
    /\ src = Committed
    /\ backup = [f \in Files |-> {Torn}]
    /\ pc = "off"
    /\ todo = <<>> /\ opened = FALSE
    /\ current = 1 /\ text = {} /\ built = Committed /\ rows = <<>>
    /\ ended = "never"
    /\ base = Committed /\ disturbed = FALSE
    /\ sweeps = 0 /\ kills = 0 /\ saves = 0

World == <<base, disturbed, sweeps, kills, saves>>

----------------------------------------------------------------------------
(* The old backup is removed before anything is known about the tree.       *)
Start ==
    /\ pc = "off" /\ sweeps < MaxSweeps
    /\ backup' = [f \in Files |-> {Torn}]
    /\ pc' = "backup" /\ todo' = FILES /\ opened' = FALSE
    /\ current' = 1 /\ text' = {} /\ built' = Committed /\ rows' = <<>>
    /\ ended' = "running"
    /\ base' = src /\ disturbed' = FALSE
    /\ sweeps' = sweeps + 1
    /\ UNCHANGED <<src, kills, saves>>

(* shutil.copy, file by file: the destination is emptied, then filled. *)
NextFile ==
    /\ opened' = ~opened
    /\ todo' = IF opened THEN Tail(todo) ELSE todo
    /\ UNCHANGED <<pc, current, text, built, rows, ended, World>>

Copied(from, to) ==
    [to EXCEPT ![Head(todo)] = IF opened THEN from[Head(todo)] ELSE {Torn}]

TakeBackup ==
    /\ pc = "backup" /\ todo # <<>>
    /\ backup' = Copied(src, backup)
    /\ NextFile
    /\ UNCHANGED src

Restore ==
    /\ pc \in {"restore", "final"} /\ todo # <<>>
    /\ src' = Copied(backup, src)
    /\ NextFile
    /\ UNCHANGED backup

(* The head of the loop, and the restore() behind it. *)
NextCaseRestoringOne(n) ==
    /\ current' = n
    /\ pc' = IF n > Len(Cases) THEN "final" ELSE "restore"
    /\ todo' = IF n > Len(Cases) THEN FILES ELSE <<Cases[n].file>>
    /\ UNCHANGED <<src, backup, opened, built, ended, World>>
NextCaseRestoredOnce(n) ==
    /\ current' = n
    /\ pc' = IF n > Len(Cases) THEN "final" ELSE "restore"
    /\ todo' = IF n = 1 THEN FILES ELSE <<>>
    /\ UNCHANGED <<src, backup, opened, built, ended, World>>
NextCase(n) ==
    /\ current' = n
    /\ pc' = IF n > Len(Cases) THEN "final" ELSE "restore"
    /\ todo' = FILES
    /\ UNCHANGED <<src, backup, opened, built, ended, World>>

BeginLoop ==
    /\ pc = "backup" /\ todo = <<>>
    /\ NextCase(1)
    /\ UNCHANGED <<text, rows>>

ReadText ==
    /\ pc = "restore" /\ todo = <<>>
    /\ text' = src[Cases[current].file]
    /\ pc' = "count"
    /\ UNCHANGED <<src, backup, todo, opened, current, built, rows, ended, World>>

(* t.count(old): an edit uses its anchor up, and an author may do anything. *)
Count(anchor) ==
    IF \/ Torn \in text \/ anchor \in NoOccurrence
       \/ \E c \in ToSet(CASES) : c.id \in text /\ c.anchor = anchor
    THEN {0}
    ELSE IF Saved \in text THEN 0..2 ELSE {1}

Row(status, compiled) ==
    [id |-> Cases[current].id, status |-> status, compiled |-> compiled, of |-> built]

PatchDoesNotApply ==
    /\ pc = "count"
    /\ \E n \in Count(Cases[current].anchor) : n # 1
    /\ rows' = Append(rows, Row("PATCH-DID-NOT-APPLY", FALSE))
    /\ NextCase(current + 1)
    /\ UNCHANGED text

(* p.write_text(t.replace(old, new)) *)
OpenText ==
    /\ pc = "count"
    /\ 1 \in Count(Cases[current].anchor)
    /\ src' = [src EXCEPT ![Cases[current].file] = {Torn}]
    /\ pc' = "write"
    /\ UNCHANGED <<backup, todo, opened, current, text, built, rows, ended, World>>

WriteText ==
    /\ pc = "write"
    /\ src' = [src EXCEPT ![Cases[current].file] = text \cup {Cases[current].id}]
    /\ pc' = "cargo"
    /\ UNCHANGED <<backup, todo, opened, current, text, built, rows, ended, World>>

CargoReads ==
    /\ pc = "cargo"
    /\ built' = src
    /\ pc' = "test"
    /\ UNCHANGED <<src, backup, todo, opened, current, text, rows, ended, World>>

(* What does not compile exits with an error as well. *)
CargoEnds ==
    /\ pc = "test"
    /\ \E exit \in {0, 101}, compiled \in BOOLEAN :
         /\ ~compiled => exit # 0
         /\ rows' = Append(rows, Row(IF exit # 0 THEN "RED" ELSE "STILL-GREEN", compiled))
    /\ NextCase(current + 1)
    /\ UNCHANGED text

(* results.json *)
WriteResults ==
    /\ pc = "final" /\ todo = <<>>
    /\ pc' = "off"
    /\ ended' = "finished"
    /\ UNCHANGED <<src, backup, todo, opened, current, text, built, rows, World>>

Script == \/ TakeBackup \/ BeginLoop \/ Restore \/ ReadText \/ PatchDoesNotApply
          \/ OpenText \/ WriteText \/ WriteResults

----------------------------------------------------------------------------
Interrupted ==
    /\ pc' = "off"
    /\ ended' = IF pc = "backup" THEN "early" ELSE "interrupted"
    /\ UNCHANGED <<src, todo, opened, current, text, built, rows,
                   base, disturbed, sweeps, saves>>

Killed ==
    /\ pc # "off" /\ kills < MaxKills
    /\ kills' = kills + 1
    /\ Interrupted
    /\ UNCHANGED backup

(* cargo has 2400 s; what expires leaves the loop, the edit and the script. *)
TimeoutTidiesUp ==
    /\ pc \in {"cargo", "test"} /\ Interrupted
    /\ backup' = [f \in Files |-> {Torn}]
    /\ UNCHANGED kills
NoTimeout == FALSE /\ UNCHANGED vars
TimeoutExpired ==
    /\ pc \in {"cargo", "test"} /\ Interrupted
    /\ UNCHANGED <<backup, kills>>

(* The author saves a file from an editor that opened it before, or takes    *)
(* the tree back to what is committed.                                       *)
AuthorActs ==
    /\ saves < MaxSaves
    /\ saves' = saves + 1
    /\ disturbed' = TRUE
    /\ UNCHANGED <<backup, script, ended, base, sweeps, kills>>

Save == AuthorActs /\ \E f \in Files : src' = [src EXCEPT ![f] = {Saved}]
Checkout == AuthorActs /\ src' = Committed

Next == Start \/ Script \/ CargoReads \/ CargoEnds \/ Killed \/ TimeoutExpired \/ Save \/ Checkout

(* The script goes on and a timeout comes; cargo need neither begin to read,  *)
(* as when it waits for the lock of its build directory, nor end by itself.   *)
Spec == Init /\ [][Next]_vars /\ WF_vars(Script) /\ WF_vars(TimeoutExpired)

----------------------------------------------------------------------------
(* A verdict is about the sources the sweep found when it started, with the  *)
(* edit of its own case in them and no other, unless their author changed    *)
(* them meanwhile: no edit outlives its case, nor does half a copy.          *)
VerdictIsOfEdit ==
    ~disturbed =>
      \A i \in DOMAIN rows :
        LET c == CHOOSE c \in ToSet(Cases) : c.id = rows[i].id
        IN  rows[i].status # "PATCH-DID-NOT-APPLY" =>
              rows[i].of = [base EXCEPT ![c.file] = @ \cup {c.id}]

(* A sweep that ends by itself has a row for each case, in order, and leaves *)
(* the sources as it found them.                                             *)
FinishedIsRestored ==
    ended = "finished" =>
      /\ [i \in DOMAIN rows |-> rows[i].id] = [i \in DOMAIN Cases |-> Cases[i].id]
      /\ ~disturbed => src = base

(* What a timeout or a kill leaves can be undone until the next sweep        *)
(* starts: the tree has not been touched yet, or LOGS/pristine holds every   *)
(* file as the sweep found it.                                               *)
InterruptedIsRecoverable ==
    ~disturbed =>
      /\ ended = "early" => src = base
      /\ ended = "interrupted" => backup = base

(* A sweep does not go on for ever, whatever the suites do: cargo has its    *)
(* time and the loop its cases.                                              *)
SweepEnds == pc # "off" ~> pc = "off"

(* Each edit is applied to the pristine sources: in what a verdict is about,  *)
(* the author's own work apart, there is no edit of another case and no torn  *)
(* file.                                                                      *)
EditsArePristine ==
    \A i \in DOMAIN rows :
      rows[i].status # "PATCH-DID-NOT-APPLY" =>
        UNION {rows[i].of[f] : f \in Files} \subseteq {rows[i].id, Saved}
=============================================================================
