--------------------------- MODULE Qualification ---------------------------
(***************************************************************************)
(* The qualification of the trace reader, interop/mintid-trace-records-v2/   *)
(* qualify.py, with the check of the Go consumer it runs as one of its steps *)
(* (interop/go-jcs/check.py).  A run records the commit, makes sure that the *)
(* checkout is clean, tests and builds from it step by step, installs what   *)
(* it has built, reads the pinned records with that, and looks at the        *)
(* checkout once more before it writes results.json.  It takes minutes, and  *)
(* whoever owns the checkout may edit it, undo the edits or check out        *)
(* another commit at any moment.                                             *)
(*                                                                          *)
(* The content of a part of the checkout is the commit it is of, or Edited.  *)
(* The pinned originals are the same in every commit, so that a pin tells    *)
(* Edited from all the rest.  A command may fail for reasons of its own.     *)
(***************************************************************************)
EXTENDS Naturals, Sequences

CONSTANTS Commits,   \* commits the checkout may be at
          Edited,    \* content that is of no commit
          None,      \* not read, not built, not written
          Changes    \* bound: how often the checkout changes in a run

ContentsFit ==
    /\ {Edited, None} \cap Commits = {}
    /\ None \notin {"pins", "admission", "built", "qualified"}
    /\ Changes \in Nat

\* The crate, the vectors, the Go consumer, the reader and its pinned records.
Parts == {"crate", "corpus", "go", "reader", "records"}

\* The steps that are captured.  One stands for several that work on the same.
Captured == <<"source-head", "source-status", "cargo-test", "go-admission-clippy",
              "go-corpus", "build-wheel", "install-wheel", "installed-source",
              "records", "installed-controls", "source-status-after">>
Reads(name) ==
    CASE name = "cargo-test"          -> {"crate", "corpus"}
      [] name = "go-admission-clippy" -> {"crate", "go"}
      [] name = "records"             -> {"records"}
      [] name = "installed-controls"  -> {"reader", "records"}

VARIABLES head, tree, changes,
          cleaned,   \* whether the checkout was made clean again after the first step
          state,     \* "new", "running", "raised", "killed", "done"
          selected,  \* whether the selected originals have been compared
          checking,  \* how far check.py has come, or None
          ledger,    \* steps.json: the steps that have ended, with their exits
          named,     \* the commit source-head printed
          worked,    \* the contents of parts that steps have worked on
          commands, wheel, reader,   \* what was built and installed, by content
          report,    \* go-report.json
          results    \* results.json

checkout == <<head, tree, changes, cleaned>>
progress == <<state, selected, checking, ledger>>
evidence == <<named, worked, report, results>>
built == <<commands, wheel, reader>>
vars == <<checkout, progress, evidence, built>>

At(c) == [part \in Parts |-> c]
Clean == tree = At(head)

Init ==
    /\ head \in Commits
    /\ tree \in {At(head), [At(head) EXCEPT !["crate"] = Edited]}
    /\ changes = 0 /\ cleaned = FALSE
    /\ state = "new" /\ selected = FALSE /\ checking = None /\ ledger = <<>>
    /\ named = None /\ worked = {} /\ report = None /\ results = None
    /\ commands = None /\ wheel = None /\ reader = None

----------------------------------------------------------------------------
(* The checkout, while the run goes on.                                     *)
Change(content, commit) ==
    /\ state = "running"
    /\ changes < Changes /\ changes' = changes + 1
    /\ tree' = content /\ head' = commit
    /\ <<tree', head'>> # <<tree, head>>
    /\ cleaned' = (cleaned \/ (ledger # <<>> /\ content = At(commit)))
    /\ UNCHANGED <<progress, evidence, built>>

Edit == \E part \in Parts : Change([tree EXCEPT ![part] = Edited], head)
Checkout == \E commit \in Commits : Change(At(commit), commit)

----------------------------------------------------------------------------
(* main up to the first step: the output has to be new, and outside.         *)
Begin == \E new \in BOOLEAN :
    /\ state = "new"
    /\ state' = IF new THEN "running" ELSE "raised"
    /\ UNCHANGED <<checkout, selected, checking, ledger, evidence, built>>

(* capture: a step's output and its row are on disk before its exit is looked *)
(* at, and a step that has failed is the last.                               *)
Due(name) ==
    /\ state = "running" /\ checking = None
    /\ Len(ledger) < Len(Captured) /\ Captured[Len(ledger) + 1] = name

Ends(name, exit) ==
    /\ ledger' = Append(ledger, [name |-> name, exit |-> exit])
    /\ UNCHANGED <<checkout, selected>>

Raises == state' = "raised" /\ UNCHANGED checking
Goes == UNCHANGED <<state, checking>>

Names == {Captured[i] : i \in DOMAIN Captured}
StepFails == \E name \in Names :
    /\ Due(name) /\ Ends(name, 1) /\ Raises
    /\ UNCHANGED <<evidence, built>>

WorkOn(parts) == worked' = worked \cup {[part |-> p, content |-> tree[p]] : p \in parts}

SourceHead ==
    /\ Due("source-head") /\ Ends("source-head", 0) /\ Goes
    /\ named' = head
    /\ UNCHANGED <<worked, report, results, built>>

SourceStatus ==
    /\ Due("source-status") /\ Ends("source-status", 0)
    /\ IF Clean THEN Goes ELSE Raises
    /\ UNCHANGED <<evidence, built>>

\* The steps that only test what is there, or what is installed.
Test == \E name \in {"cargo-test", "go-admission-clippy", "records", "installed-controls"} :
    /\ Due(name) /\ Ends(name, 0) /\ Goes
    /\ WorkOn(Reads(name))
    /\ UNCHANGED <<named, report, results, built>>

\* verify_files: the length and the digest of every pinned file.
Pinned(part) == tree[part] # Edited

\* Between two steps the originals are compared with SOURCE-SELECTION.json.
Select ==
    /\ Due("go-corpus") /\ ~selected
    /\ IF Pinned("records") THEN Goes /\ selected' = TRUE
                           ELSE Raises /\ UNCHANGED selected
    /\ WorkOn({"records"})
    /\ UNCHANGED <<checkout, ledger, named, report, results, built>>

----------------------------------------------------------------------------
(* check.py: pins, the commands, the cases, the report.                      *)
Checks(from, to) ==
    /\ state = "running" /\ checking = from /\ checking' = to
    /\ UNCHANGED <<checkout, state, selected, ledger, named, results, wheel, reader>>

\* Every byte pin, before anything is built or run, then the original's own suite.
VerifyFiles ==
    /\ Due("go-corpus") /\ selected
    /\ Pinned("corpus")
    /\ checking' = "pins"
    /\ WorkOn({"corpus"})
    /\ UNCHANGED <<checkout, state, selected, ledger, named, report, results, built>>

BuildAdmission ==
    /\ Checks("pins", "admission")
    /\ commands' = [admission |-> [crate |-> tree["crate"], go |-> tree["go"]], binary |-> None]
    /\ WorkOn({"crate", "go"})
    /\ UNCHANGED report

BuildBinary ==
    /\ Checks("admission", "built")
    /\ commands' = [commands EXCEPT !.binary = tree["go"]]
    /\ WorkOn({"go"})
    /\ UNCHANGED report

\* The cases are made from the vectors as they are now.
Qualify ==
    /\ Checks("built", "qualified")
    /\ WorkOn({"corpus"})
    /\ UNCHANGED <<report, commands>>

\* The report is written, and capture sees the exit.
Report ==
    /\ state = "running" /\ checking = "qualified" /\ checking' = None
    /\ report' = [commit |-> head, clean |-> Clean]
    /\ Ends("go-corpus", 0)
    /\ UNCHANGED <<state, named, worked, results, built>>

CheckFails ==
    /\ state = "running" /\ checking # None /\ checking' = None
    /\ state' = "raised"
    /\ Ends("go-corpus", 1)
    /\ UNCHANGED <<evidence, built>>

----------------------------------------------------------------------------
(* The installed reader.                                                    *)
BuildWheel ==
    /\ Due("build-wheel") /\ Ends("build-wheel", 0) /\ Goes
    /\ wheel' = tree["reader"]
    /\ WorkOn({"reader"})
    /\ UNCHANGED <<named, report, results, commands, reader>>

InstallWheel ==
    /\ Due("install-wheel") /\ Ends("install-wheel", 0) /\ Goes
    /\ reader' = wheel
    /\ UNCHANGED <<evidence, commands, wheel>>

InstalledSource ==
    /\ Due("installed-source") /\ Ends("installed-source", 0)
    /\ IF reader = tree["reader"] THEN Goes ELSE Raises
    /\ UNCHANGED <<evidence, built>>

----------------------------------------------------------------------------
\* Mutant: the output of the last git status is captured, and nobody reads it.
StatusAfterUnread ==
    /\ Due("source-status-after") /\ Ends("source-status-after", 0) /\ Goes
    /\ UNCHANGED <<evidence, built>>

SourceStatusAfter ==
    /\ Due("source-status-after") /\ Ends("source-status-after", 0)
    /\ IF Clean THEN Goes ELSE Raises
    /\ UNCHANGED <<evidence, built>>

\* results.json; the digest of SOURCE-SELECTION.json is of the file as it is now.
Results ==
    /\ state = "running" /\ Len(ledger) = Len(Captured) /\ results = None
    /\ results' = [selection |-> tree["records"], wheel |-> wheel, steps |-> ledger]
    /\ UNCHANGED <<checkout, progress, named, worked, report, built>>

Artifacts ==
    /\ state = "running" /\ results # None
    /\ state' = "done"
    /\ UNCHANGED <<checkout, selected, checking, ledger, evidence, built>>

Killed ==
    /\ state = "running"
    /\ state' = "killed"
    /\ UNCHANGED <<checkout, selected, checking, ledger, evidence, built>>

Next ==
    \/ Edit \/ Checkout
    \/ Begin \/ StepFails \/ SourceHead \/ SourceStatus \/ Test \/ Select
    \/ VerifyFiles \/ BuildAdmission \/ BuildBinary \/ Qualify \/ Report \/ CheckFails
    \/ BuildWheel \/ InstallWheel \/ InstalledSource
    \/ SourceStatusAfter \/ Results \/ Artifacts \/ Killed

Spec == Init /\ [][Next]_vars

----------------------------------------------------------------------------
(* results.json is about the commit that source-head printed: every step is in *)
(* it, in order and without a failure, and unless the checkout was made clean  *)
(* again behind the run's back (by another commit, or by undoing an edit), all *)
(* that was tested, built, installed and reported, however long it took, is of *)
(* that commit (qualify.py: "source checkout changed during qualification").   *)
ResultsAreOfHead ==
    results # None =>
      /\ results.steps = [i \in DOMAIN Captured |-> [name |-> Captured[i], exit |-> 0]]
      /\ ~cleaned =>
           /\ worked = [part : Parts, content : {named}]
           /\ commands = [admission |-> [crate |-> named, go |-> named], binary |-> named]
           /\ reader = named /\ results.wheel = named
           /\ report = [commit |-> named, clean |-> TRUE]
============================================================================
