----------------------------- MODULE NpmRelease -----------------------------
(***************************************************************************)
(* The way of the npm package from a checkout to the registry: build.py,    *)
(* the qualification of the packed tarball (packed-consumers.mjs),          *)
(* check_release.py, and the two workflows that call them.                  *)
(*                                                                          *)
(* A checkout has three parts that can be told apart: what is compiled      *)
(* ("core"), what is copied into the package ("lib", with the manifest, the *)
(* README and the licences) and what the consumers are tested with          *)
(* ("cases").  The content of a part is the commit it is of, or Edited.  A  *)
(* digest is the content itself.  Two compilers make different code of one  *)
(* source, and the identity of the sources does not tell.  The tools may be *)
(* run in any order, as the build guide lets a developer do; the order of   *)
(* the workflow is one of them.  Things go wrong at most Mishaps times: the tree changes (at most  *)
(* once while one build runs), the output is changed or left unfinished, a  *)
(* build or the tests are killed.  A build looks at the existing output,    *)
(* removes it and copies its own in three steps.                            *)
(***************************************************************************)
EXTENDS Naturals, FiniteSets

CONSTANTS Commits,   \* commits a checkout may be at
          Main,      \* those in the history of main
          Version,   \* the version in npm/package.json of each
          Tags,      \* versions a tag may name
          Compilers, \* toolchains a build may find installed
          Mishaps,   \* bound: how often things may go wrong
          Builds,    \* bound: how often build.py is run
          None,      \* no file, no report, no build in progress
          Edited     \* content that is of no commit

ASSUME CommitsAssumption == /\ Main \subseteq Commits
                            /\ Version \in [Commits -> Tags]
                            /\ {None, Edited} \cap Commits = {}
ASSUME BoundsAssumption == Mishaps \in Nat /\ Builds \in Nat

VARIABLES run,        \* the workflow run: the commit and the tag that started it
          head,       \* git rev-parse HEAD
          tree,       \* the content of the checkout
          mishaps,    \* how often things have gone wrong
          builds,     \* how often a build has begun
          building,   \* build.py as far as it has come, or None
          dist,       \* npm/dist
          qualifying, \* packed-consumers.mjs as far as it has come, or None
          receipts,   \* npm/test-results: the tarball and RESULT.json
          retained,   \* what the package job has uploaded, and whether it passed
          published,  \* what is in the registry
          tested      \* every package all consumers have passed, and how

workspace == <<head, tree>>
bounds == <<mishaps, builds>>
tools == <<building, dist, qualifying, receipts, tested>>
jobs == <<run, retained, published>>
vars == <<workspace, bounds, tools, jobs>>

-----------------------------------------------------------------------------
At(c) == [core |-> c, lib |-> c, cases |-> c]
Clean == tree = At(head)

\* A directory or a tarball: what is in it.  extra: a file the build did not make.
Empty == [build |-> None, core |-> None, lib |-> None, extra |-> FALSE]

Init == /\ run \in [commit : Commits, tag : Tags]
        /\ head = run.commit
        /\ tree = At(head)
        /\ mishaps = 0 /\ builds = 0
        /\ building = None
        /\ dist \in {Empty, [Empty EXCEPT !.extra = TRUE]}
        /\ qualifying = None
        /\ receipts = [tarball |-> None, report |-> None]
        /\ retained = None
        /\ published = {}
        /\ tested = {}

-----------------------------------------------------------------------------
(* The checkout *)

GoesWrong == mishaps < Mishaps /\ mishaps' = mishaps + 1

Undisturbed == building # None => ~building.changed

Change(content, commit) ==
    /\ retained = None
    /\ Undisturbed
    /\ GoesWrong
    /\ tree' = content
    /\ head' = commit
    /\ tree' # tree \/ head' # head
    /\ building' = IF building = None THEN None ELSE [building EXCEPT !.changed = TRUE]
    /\ UNCHANGED <<builds, dist, qualifying, receipts, tested, jobs>>

Edit == \E p \in DOMAIN tree : Change([tree EXCEPT ![p] = Edited], head)
Checkout == \E c \in Commits : Change(At(c), c)

-----------------------------------------------------------------------------
(* build.py *)

Begin == \E requireClean \in BOOLEAN :
    /\ retained = None
    /\ building = None
    /\ builds < Builds /\ builds' = builds + 1
    /\ requireClean => Clean
    /\ building' = [at |-> "begun", commit |-> head, dirty |-> ~Clean,
                    core |-> None, source |-> None, lib |-> None, changed |-> FALSE]
    /\ UNCHANGED <<workspace, mishaps, dist, qualifying, receipts, tested, jobs>>

Compile == \E rustc \in Compilers :
    /\ building # None /\ building.at = "begun"
    /\ building' = [building EXCEPT !.at = "compiled", 
                    !.core = [of |-> tree.core, by |-> rustc]]
    /\ UNCHANGED <<workspace, bounds, dist, qualifying, receipts, tested, jobs>>

\* Mutant: the sources of a clean checkout taken to be those of its commit.
IdentifyByCommit ==
    /\ building # None /\ building.at = "compiled"
    /\ building' = [building EXCEPT !.at = "identified",
                    !.source = IF building.dirty THEN tree ELSE At(building.commit)]
    /\ UNCHANGED <<workspace, bounds, dist, qualifying, receipts, tested, jobs>>

Identify ==
    /\ building # None /\ building.at = "compiled"
    /\ building' = [building EXCEPT !.at = "identified", !.source = tree]
    /\ UNCHANGED <<workspace, bounds, dist, qualifying, receipts, tested, jobs>>

Stage ==
    /\ building # None /\ building.at = "identified"
    /\ building' = [building EXCEPT !.at = "staged", !.lib = tree.lib]
    /\ UNCHANGED <<workspace, bounds, dist, qualifying, receipts, tested, jobs>>

Record(b) == [commit |-> b.commit, dirty |-> b.dirty, source |-> b.source,
              core |-> b.core, lib |-> b.lib]
Staged(b) == [build |-> Record(b), core |-> b.core, lib |-> b.lib, extra |-> FALSE]

\* Mutant: the marker alone makes an output replaceable.
MarkedReplaceable == dist = Empty \/ dist.build # None

\* The output is replaced only if all that is in it is what its own record lists.
Replaceable == \/ dist = Empty
               \/ /\ dist.build # None
                  /\ dist.core # None /\ dist.lib # None /\ ~dist.extra

\* The files go and come in any order, so any part of them may be there when a
\* removal or a copy is cut short.  An empty directory has no marker and is as
\* unwelcome as any other remains: Empty is no directory at all.
Partial(d) == {p \in [build : {d.build, None}, core : {d.core, None}, lib : {d.lib, None},
                      extra : {d.extra, FALSE}] : p \notin {d, Empty}}

\* The output is looked at, and nothing is done to it yet.
Inspect ==
    /\ building # None /\ building.at = "staged"
    /\ building' = CASE dist = Empty -> [building EXCEPT !.at = "cleared"]
                      [] dist # Empty /\ Replaceable -> [building EXCEPT !.at = "condemned"]
                      [] OTHER -> None
    /\ UNCHANGED <<workspace, bounds, dist, qualifying, receipts, tested, jobs>>

\* rmtree takes whatever is there by now, a file that Inspect has not seen too.
Remove ==
    /\ building # None /\ building.at = "condemned"
    /\ \/ /\ dist' = Empty /\ UNCHANGED mishaps
          /\ building' = [building EXCEPT !.at = "cleared"]
       \/ /\ dist' \in Partial(dist) /\ GoesWrong
          /\ building' = None
    /\ UNCHANGED <<workspace, builds, qualifying, receipts, tested, jobs>>

\* Mutant: the old output is not removed but copied over.
CopyOver ==
    /\ building # None /\ building.at \in {"condemned", "cleared"}
    /\ \/ dist' = [Staged(building) EXCEPT !.extra = dist.extra] /\ UNCHANGED mishaps
       \/ /\ GoesWrong
          /\ dist' \in [build : {dist.build, Record(building)}, core : {dist.core, building.core},
                        lib : {dist.lib, building.lib}, extra : {dist.extra}]
    /\ building' = None
    /\ UNCHANGED <<workspace, builds, qualifying, receipts, tested, jobs>>

\* copytree makes the directory itself, and raises if there is one again.
Copy ==
    /\ building # None /\ building.at = "cleared"
    /\ \/ dist = Empty /\ dist' = Staged(building) /\ UNCHANGED mishaps
       \/ dist = Empty /\ dist' \in Partial(Staged(building)) /\ GoesWrong
       \/ dist # Empty /\ UNCHANGED <<dist, mishaps>>
    /\ building' = None
    /\ UNCHANGED <<workspace, builds, qualifying, receipts, tested, jobs>>

\* A command of the build fails, or the build is killed, before it touches the output
\* or between two steps of replacing it.
Interrupted ==
    /\ building # None
    /\ building' = None
    /\ GoesWrong
    /\ UNCHANGED <<workspace, builds, dist, qualifying, receipts, tested, jobs>>

\* Someone puts a file of his own into the output, or changes one.
Meddle ==
    /\ retained = None
    /\ dist' \in {[dist EXCEPT !.extra = TRUE],
                  [dist EXCEPT !.core = IF dist.core = None THEN None ELSE Edited]}
    /\ dist' # dist
    /\ GoesWrong
    /\ UNCHANGED <<workspace, builds, building, qualifying, receipts, tested, jobs>>

-----------------------------------------------------------------------------
(* packed-consumers.mjs *)

Source(package) == IF package = None \/ package.build = None THEN None
                   ELSE [commit |-> package.build.commit, dirty |-> package.build.dirty,
                         source |-> package.build.source]

Report(exit, package, cases, runtimes) ==
    [exit |-> exit, tarball |-> package,
     source |-> Source(package),
     cases |-> cases, runtimes |-> runtimes]

\* Without a manifest nothing is packed, and the report has no tarball.
Pack ==
    /\ retained = None
    /\ qualifying = None
    /\ IF dist.lib = None
       THEN /\ receipts' = [receipts EXCEPT !.report = Report(1, None, tree.cases, 0)]
            /\ UNCHANGED qualifying
       ELSE /\ receipts' = [receipts EXCEPT !.tarball = dist]
            /\ qualifying' = [package |-> dist, cases |-> tree.cases]
    /\ UNCHANGED <<workspace, bounds, building, dist, tested, jobs>>

Listed(p) == /\ p.build # None
             /\ p.core = p.build.core /\ p.lib = p.build.lib

\* The consumers run under this Node and, if the environment names it, the oldest.
Qualify == \E exit \in {0, 1}, runtimes \in {1, 2} :
    /\ qualifying # None
    /\ exit = 0 => Listed(qualifying.package)
    /\ receipts' = [receipts EXCEPT
          !.report = Report(exit, qualifying.package, qualifying.cases, runtimes)]
    /\ tested' = IF exit = 0
                 THEN tested \cup {[package |-> qualifying.package,
                                    cases |-> qualifying.cases, runtimes |-> runtimes]}
                 ELSE tested
    /\ qualifying' = None
    /\ UNCHANGED <<workspace, bounds, building, dist, jobs>>

\* Killed before the report is written: the tarball is new, RESULT.json is not.
Killed ==
    /\ qualifying # None
    /\ qualifying' = None
    /\ GoesWrong
    /\ UNCHANGED <<workspace, builds, building, dist, receipts, tested, jobs>>

-----------------------------------------------------------------------------
(* check_release.py, in a checkout of content t at commit h *)

ReleaseCommit(commit, h, t) == commit = h /\ t = At(h)

\* Mutant: the report is not compared with the tarball beside it.
UnboundArtifact(r, commit, t) ==
    /\ r.report # None /\ r.report.tarball # None /\ r.tarball # None
    /\ r.tarball.build # None
    /\ r.tarball.build.commit = commit /\ ~r.tarball.build.dirty
    /\ ~r.tarball.extra
    /\ Listed(r.tarball)
    /\ r.tarball.build.source = t
    /\ r.tarball.lib = t.lib

ValidArtifact(r, commit, t) ==
    /\ r.report # None /\ r.report.tarball # None /\ r.tarball # None
    /\ r.tarball = r.report.tarball
    /\ r.tarball.build # None
    /\ r.tarball.build.commit = commit /\ ~r.tarball.build.dirty
    /\ ~r.tarball.extra
    /\ Listed(r.tarball)
    /\ r.tarball.build.source = t
    /\ r.tarball.lib = t.lib

ValidReport(r, t) ==
    /\ r.report.exit = 0
    /\ r.report.runtimes = 2
    /\ r.report.cases = t.cases
    /\ r.report.source = Source(r.tarball)

Verified(r, commit, h, t) ==
    ReleaseCommit(commit, h, t) /\ ValidArtifact(r, commit, t) /\ ValidReport(r, t)

-----------------------------------------------------------------------------
(* The workflows *)

\* The package job checks, and uploads whatever the check has said.
Retain ==
    /\ retained = None
    /\ building = None /\ qualifying = None
    /\ retained' = [receipts |-> receipts,
                    passed |-> Verified(receipts, run.commit, head, tree)]
    /\ UNCHANGED <<workspace, bounds, tools, run, published>>

\* The publish job has a fresh checkout of the commit the run was started for.
Publish ==
    /\ retained # None /\ published = {}
    /\ retained.passed
    /\ run.tag = Version[run.commit]
    /\ run.commit \in Main
    /\ Verified(retained.receipts, run.commit, run.commit, At(run.commit))
    /\ published' = {retained.receipts.tarball}
    /\ UNCHANGED <<workspace, bounds, tools, run, retained>>

Next == \/ Edit \/ Checkout
        \/ Begin \/ Compile \/ Identify \/ Stage \/ Inspect \/ Remove \/ Copy \/ Interrupted
        \/ Meddle
        \/ Pack \/ Qualify \/ Killed
        \/ Retain \/ Publish

Spec == Init /\ [][Next]_vars

-----------------------------------------------------------------------------
(* What is published is byte for byte a tarball that every consumer has       *)
(* passed, under both runtimes and with the cases of the tagged commit,       *)
(* although the tarball has the same name in every run of the tests, and a    *)
(* run may be killed after it has packed another one                          *)
(* (check_release.py: the digest of the tarball, the report).                 *)
PublishedIsQualified ==
    \A p \in published : [package |-> p, cases |-> run.commit, runtimes |-> 2] \in tested

(* What is published was compiled and copied from the sources of the tagged   *)
(* commit and has nothing else in it, whatever has happened to the tree, the  *)
(* output and the receipts since; the commit is on main and the tag names its *)
(* version (build.py: the identity is taken after the compiler has run;       *)
(* check_release.py: the identity of the sources, the set of files).          *)
PublishedIsOfCommit ==
    \A p \in published :
        /\ p.core.of = run.commit /\ p.lib = run.commit /\ ~p.extra
        /\ p.build.commit = run.commit /\ p.build.source = At(run.commit)
        /\ run.commit \in Main /\ run.tag = Version[run.commit]

(* A record beside the files in the output is the record of these files: a     *)
(* build that is killed or refused while it replaces an output never leaves    *)
(* files of two builds under one record, whatever it finds there by the time   *)
(* it copies (build.py: rmtree before copytree, copytree refuses a directory). *)
OutputIsOneBuild ==
    dist.build # None => /\ dist.core \in {None, Edited, dist.build.core}
                         /\ dist.lib \in {None, dist.build.lib}
=============================================================================
