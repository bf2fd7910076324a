-------------------------- MODULE ReleasesProofs --------------------------
(***************************************************************************)
(* What leaves the repository under a name is what the name says, for any    *)
(* commits, versions, files and toolchains, and however often things go       *)
(* wrong.                                                                   *)
(*                                                                          *)
(* The npm package: both of its invariants are statements about the end of a  *)
(* chain.  TrueReport and TrueRecord say what a report and a build record    *)
(* are worth wherever a copy of them lies; OneBuild, what a build under way  *)
(* knows of the tree.  The Python files: while a run lays them out, all that *)
(* is there was read (Staging).                                              *)
(*                                                                          *)
(* The qualification of the reader: as long as nobody makes the checkout     *)
(* clean again, it can only become dirty and stays so.  That it is clean at  *)
(* some moment therefore says that it was so at every earlier one, and that  *)
(* all work so far is of the commit named first: Lasting.  The last git      *)
(* status turns this into a fact.                                           *)
(***************************************************************************)
EXTENDS Releases, TLAPS

(* Every record has its fields, whatever is in them. *)
Shaped ==
    /\ run \in [commit : Commits, tag : Tags]
    /\ tree = [core |-> tree.core, lib |-> tree.lib, cases |-> tree.cases]
    /\ dist = [build |-> dist.build, core |-> dist.core, lib |-> dist.lib, extra |-> dist.extra]
    /\ receipts = [tarball |-> receipts.tarball, report |-> receipts.report]
    /\ building # None =>
         building = [at |-> building.at, commit |-> building.commit, dirty |-> building.dirty,
                     core |-> building.core, source |-> building.source, lib |-> building.lib,
                     changed |-> building.changed]

(* A report that says the consumers passed is of a package they have passed.  *)
TrueReport(said) ==
    said # None /\ said.exit = 0 =>
      [package |-> said.tarball, cases |-> said.cases, runtimes |-> said.runtimes] \in tested

(* A record that names the sources of its own clean commit lists code that was *)
(* compiled from them.                                                        *)
TrueRecord(record) ==
    record # None /\ ~record.dirty /\ record.source = At(record.commit) =>
      record.core.of = record.commit
TruePackage(package) == package # None => TrueRecord(package.build)

(* Where a build is once it has identified its sources. *)
Identified == {"identified", "staged", "condemned", "cleared"}

(* A clean build sees one tree until it changes, and another from then on; the *)
(* sources are identified after the compiler has run.                        *)
OneBuild ==
    building # None /\ ~building.dirty =>
      /\ ~building.changed => tree = At(building.commit) /\ head = building.commit
      /\ building.changed => tree # At(building.commit)
      /\ building.at = "compiled" /\ ~building.changed => building.core.of = building.commit
      /\ building.at \in Identified /\ building.source = At(building.commit) =>
           building.core.of = building.commit

Traced ==
    /\ TrueReport(receipts.report)
    /\ TrueRecord(dist.build) /\ TruePackage(receipts.tarball)
    /\ qualifying # None => TruePackage(qualifying.package)
    /\ retained # None =>
         TrueReport(retained.receipts.report) /\ TruePackage(retained.receipts.tarball)

IInv == Shaped /\ OneBuild /\ Traced /\ PublishedIsQualified /\ PublishedIsOfCommit

----------------------------------------------------------------------------
LEMMA InitInv == Init => IInv
<1> SUFFICES ASSUME Init PROVE IInv
  OBVIOUS
<1>1. Shaped
  BY DEF Init, Shaped, At, Empty
<1>2. OneBuild /\ Traced
  BY DEF Init, OneBuild, Traced, TrueReport, TrueRecord, TruePackage, Empty
<1>3. PublishedIsQualified /\ PublishedIsOfCommit
  BY DEF Init, PublishedIsQualified, PublishedIsOfCommit
<1> QED BY <1>1, <1>2, <1>3 DEF IInv

(* What is published is looked at again only if the jobs or the tests change. *)
LEMMA PublishedStays ==
    ASSUME PublishedIsQualified, PublishedIsOfCommit,
           UNCHANGED <<run, published>>, tested \subseteq tested'
    PROVE  PublishedIsQualified' /\ PublishedIsOfCommit'
BY DEF PublishedIsQualified, PublishedIsOfCommit, At

(* So it is with the copies of a record or a report that nothing has touched. *)
LEMMA TracedStays ==
    ASSUME Traced, UNCHANGED <<dist, qualifying, receipts, tested, retained>>
    PROVE  Traced'
BY DEF Traced, TrueReport, TrueRecord, TruePackage, At

----------------------------------------------------------------------------
(* The tree a build has seen clean is no longer that of its commit after its   *)
(* one change.                                                                *)
LEMMA ChangeInv ==
    ASSUME IInv, NEW content, NEW commit, Change(content, commit),
           content = [core |-> content.core, lib |-> content.lib, cases |-> content.cases],
           commit = head \/ content = At(commit)
    PROVE  IInv'
<1>1. Shaped'
  <2>1. tree' = content /\ UNCHANGED <<run, dist, receipts>>
    BY DEF Change, jobs
  <2>2. CASE building = None
    BY <2>1, <2>2 DEF Change, IInv, Shaped
  <2>3. CASE building # None
    <3>1. building' = [building EXCEPT !.changed = TRUE]
      BY <2>3 DEF Change
    <3>2. building' = [at |-> building'.at, commit |-> building'.commit, dirty |-> building'.dirty,
                       core |-> building'.core, source |-> building'.source,
                       lib |-> building'.lib, changed |-> building'.changed]
      BY <2>3, <3>1 DEF IInv, Shaped
    <3> QED BY <2>1, <3>2 DEF IInv, Shaped
  <2> QED BY <2>2, <2>3
<1>2. OneBuild'
  <2>1. CASE building = None
    BY <2>1 DEF Change, OneBuild
  <2>2. CASE building # None
    <3>1. building' = [building EXCEPT !.changed = TRUE] /\ ~building.changed
      BY <2>2 DEF Change, Undisturbed
    <3>2. /\ building'.changed = TRUE
          /\ building'.at = building.at /\ building'.commit = building.commit
          /\ building'.dirty = building.dirty /\ building'.core = building.core
          /\ building'.source = building.source
      BY <2>2, <3>1 DEF IInv, Shaped
    <3>3. ASSUME ~building.dirty PROVE tree' # At(building.commit)
      <4>1. tree = At(building.commit) /\ head = building.commit
        BY <2>2, <3>1, <3>3 DEF IInv, OneBuild
      <4>2. tree' = content /\ head' = commit /\ (tree' # tree \/ head' # head)
        BY DEF Change
      <4>3. CASE commit = head
        BY <4>1, <4>2, <4>3
      <4>4. CASE content = At(commit)
        <5>1. ASSUME content = At(building.commit) PROVE FALSE
          <6>1. commit = building.commit
            BY <4>4, <5>1 DEF At
          <6> QED BY <4>1, <4>2, <5>1, <6>1
        <5> QED BY <4>2, <5>1
      <4> QED BY <4>3, <4>4
    <3> QED BY <2>2, <3>1, <3>2, <3>3 DEF IInv, OneBuild, At
  <2> QED BY <2>1, <2>2
<1>3. Traced' /\ PublishedIsQualified' /\ PublishedIsOfCommit'
  BY TracedStays, PublishedStays DEF Change, jobs, IInv
<1> QED BY <1>1, <1>2, <1>3 DEF IInv

LEMMA EditInv ==
    ASSUME IInv, Edit
    PROVE  IInv'
<1>1. PICK p \in DOMAIN tree : Change([tree EXCEPT ![p] = Edited], head)
  BY DEF Edit
<1> DEFINE content == [tree EXCEPT ![p] = Edited]
<1>2. content = [core |-> content.core, lib |-> content.lib, cases |-> content.cases]
  <2>1. tree = [core |-> tree.core, lib |-> tree.lib, cases |-> tree.cases]
    BY DEF IInv, Shaped
  <2>2. DOMAIN tree = {"core", "lib", "cases"}
    BY <2>1
  <2>3. content = [q \in {"core", "lib", "cases"} |-> content[q]]
    BY <2>2
  <2> HIDE DEF content
  <2> QED BY <2>3
<1> QED BY <1>1, <1>2, ChangeInv

LEMMA CheckoutInv ==
    ASSUME IInv, Checkout
    PROVE  IInv'
<1>1. PICK c \in Commits : Change(At(c), c)
  BY DEF Checkout
<1>2. At(c) = [core |-> At(c).core, lib |-> At(c).lib, cases |-> At(c).cases]
  BY DEF At
<1> QED BY <1>1, <1>2, ChangeInv

----------------------------------------------------------------------------
(* A step of a build touches nothing but what the build knows. *)
LEMMA BuildStepInv ==
    ASSUME IInv, UNCHANGED <<workspace, dist, qualifying, receipts, tested, jobs>>,
           OneBuild',
           building' # None =>
             building' = [at |-> building'.at, commit |-> building'.commit,
                          dirty |-> building'.dirty, core |-> building'.core,
                          source |-> building'.source, lib |-> building'.lib,
                          changed |-> building'.changed]
    PROVE  IInv'
<1>1. Shaped'
  BY DEF IInv, Shaped, workspace, jobs
<1>2. Traced' /\ PublishedIsQualified' /\ PublishedIsOfCommit'
  BY TracedStays, PublishedStays DEF jobs, IInv
<1> QED BY <1>1, <1>2 DEF IInv

LEMMA BeginInv ==
    ASSUME IInv, Begin
    PROVE  IInv'
<1>1. /\ building' = [at |-> "begun", commit |-> head, dirty |-> ~Clean,
                      core |-> None, source |-> None, lib |-> None, changed |-> FALSE]
      /\ UNCHANGED <<workspace, dist, qualifying, receipts, tested, jobs>>
  BY DEF Begin
<1>2. OneBuild'
  BY <1>1 DEF OneBuild, Identified, Clean, workspace, At
<1> QED BY <1>1, <1>2, BuildStepInv

LEMMA CompileInv ==
    ASSUME IInv, Compile
    PROVE  IInv'
<1>1. PICK rustc \in Compilers :
        /\ building # None /\ building.at = "begun"
        /\ building' = [building EXCEPT !.at = "compiled",
                                        !.core = [of |-> tree.core, by |-> rustc]]
        /\ UNCHANGED <<workspace, dist, qualifying, receipts, tested, jobs>>
  BY DEF Compile, tools
<1>2. building' = [at |-> "compiled", commit |-> building.commit, dirty |-> building.dirty,
                   core |-> [of |-> tree.core, by |-> rustc], source |-> building.source,
                   lib |-> building.lib, changed |-> building.changed]
  BY <1>1 DEF IInv, Shaped
<1>3. OneBuild'
  <2>1. ASSUME ~building.dirty, ~building.changed PROVE tree.core = building.commit
    <3>1. tree = At(building.commit)
      BY <1>1, <2>1 DEF IInv, OneBuild
    <3> QED BY <3>1 DEF At
  <2> QED BY <1>1, <1>2, <2>1 DEF IInv, OneBuild, Identified, workspace, At
<1> QED BY <1>1, <1>2, <1>3, BuildStepInv

(* The sources are those of the commit only if the compiler has seen them too. *)
LEMMA IdentifyInv ==
    ASSUME IInv, Identify
    PROVE  IInv'
<1>1. /\ building # None /\ building.at = "compiled"
      /\ building' = [building EXCEPT !.at = "identified", !.source = tree]
      /\ UNCHANGED <<workspace, dist, qualifying, receipts, tested, jobs>>
  BY DEF Identify
<1>2. building' = [at |-> "identified", commit |-> building.commit, dirty |-> building.dirty,
                   core |-> building.core, source |-> tree,
                   lib |-> building.lib, changed |-> building.changed]
  BY <1>1 DEF IInv, Shaped
<1>3. OneBuild'
  BY <1>1, <1>2 DEF IInv, OneBuild, Identified, workspace, At
<1> QED BY <1>1, <1>2, <1>3, BuildStepInv

LEMMA StageInv ==
    ASSUME IInv, Stage
    PROVE  IInv'
<1>1. /\ building # None /\ building.at = "identified"
      /\ building' = [building EXCEPT !.at = "staged", !.lib = tree.lib]
      /\ UNCHANGED <<workspace, dist, qualifying, receipts, tested, jobs>>
  BY DEF Stage
<1>2. building' = [at |-> "staged", commit |-> building.commit, dirty |-> building.dirty,
                   core |-> building.core, source |-> building.source,
                   lib |-> tree.lib, changed |-> building.changed]
  BY <1>1 DEF IInv, Shaped
<1>3. OneBuild'
  BY <1>1, <1>2 DEF IInv, OneBuild, Identified, workspace, At
<1> QED BY <1>1, <1>2, <1>3, BuildStepInv

(* Nothing is known anew of a build that has looked at the output. *)
LEMMA InspectInv ==
    ASSUME IInv, Inspect
    PROVE  IInv'
<1>1. /\ building # None /\ building.at = "staged"
      /\ \/ building' = None
         \/ building' = [building EXCEPT !.at = "cleared"]
         \/ building' = [building EXCEPT !.at = "condemned"]
      /\ UNCHANGED <<workspace, dist, qualifying, receipts, tested, jobs>>
  BY DEF Inspect, Replaceable
<1>2. \/ building' = None
      \/ \E at \in {"cleared", "condemned"} :
           building' = [at |-> at, commit |-> building.commit, dirty |-> building.dirty,
                        core |-> building.core, source |-> building.source,
                        lib |-> building.lib, changed |-> building.changed]
  BY <1>1 DEF IInv, Shaped
<1>3. OneBuild'
  BY <1>1, <1>2 DEF IInv, OneBuild, Identified, workspace, At
<1> QED BY <1>1, <1>2, <1>3, BuildStepInv

(* A step that replaces the output leaves it with the record it had, with that *)
(* of the build, or with none.                                               *)
LEMMA OutputStepInv ==
    ASSUME IInv, building # None,
           dist' = [build |-> dist'.build, core |-> dist'.core, lib |-> dist'.lib,
                    extra |-> dist'.extra],
           dist'.build \in {Record(building), None, dist.build},
           dist'.build = Record(building) => building.at \in Identified,
           UNCHANGED <<workspace, qualifying, receipts, tested, jobs>>,
           building' = None \/ building' = [building EXCEPT !.at = "cleared"],
           building' # None => building.at \in Identified
    PROVE  IInv'
<1>1. TrueRecord(dist'.build)
  <2>1. TrueRecord(dist.build) /\ TrueRecord(None)
    BY DEF IInv, Traced, TrueRecord
  <2>2. building.at \in Identified => TrueRecord(Record(building))
    BY DEF IInv, OneBuild, TrueRecord, Record
  <2> QED BY <2>1, <2>2
<1>2. Traced'
  <2>1. TrueRecord(dist.build)'
    BY <1>1 DEF TrueRecord, At
  <2> QED BY <2>1 DEF IInv, Traced, TrueReport, TruePackage, TrueRecord, At, jobs
<1>3. \/ building' = None
      \/ building' = [at |-> "cleared", commit |-> building.commit, dirty |-> building.dirty,
                      core |-> building.core, source |-> building.source,
                      lib |-> building.lib, changed |-> building.changed]
  BY DEF IInv, Shaped
<1>4. Shaped'
  BY <1>3 DEF IInv, Shaped, workspace, jobs
<1>5. OneBuild'
  BY <1>3 DEF IInv, OneBuild, Identified, workspace, At
<1> QED BY <1>2, <1>4, <1>5, PublishedStays DEF jobs, IInv

LEMMA RemoveInv ==
    ASSUME IInv, Remove
    PROVE  IInv'
<1>1. /\ dist' = [build |-> dist'.build, core |-> dist'.core, lib |-> dist'.lib,
                  extra |-> dist'.extra]
      /\ dist'.build \in {None, dist.build}
  <2>1. CASE dist' = Empty
    BY <2>1 DEF Empty
  <2>2. CASE dist' \in Partial(dist)
    BY <2>2 DEF Partial
  <2> QED BY <2>1, <2>2 DEF Remove
<1>2. /\ building # None /\ building.at = "condemned"
      /\ building' = None \/ building' = [building EXCEPT !.at = "cleared"]
      /\ UNCHANGED <<workspace, qualifying, receipts, tested, jobs>>
  BY DEF Remove
<1>3. building.at \in Identified
  BY <1>2 DEF Identified
<1> QED BY <1>1, <1>2, <1>3, OutputStepInv

LEMMA CopyInv ==
    ASSUME IInv, Copy
    PROVE  IInv'
<1>1. /\ building # None /\ building.at = "cleared" /\ building' = None
      /\ UNCHANGED <<workspace, qualifying, receipts, tested, jobs>>
  BY DEF Copy
<1>2. /\ dist' = [build |-> dist'.build, core |-> dist'.core, lib |-> dist'.lib,
                  extra |-> dist'.extra]
      /\ dist'.build \in {Record(building), None, dist.build}
  <2>1. CASE dist' = Staged(building)
    BY <2>1 DEF Staged
  <2>2. CASE dist' \in Partial(Staged(building))
    BY <2>2 DEF Partial, Staged
  <2>3. CASE dist' = dist
    BY <2>3 DEF IInv, Shaped
  <2> QED BY <2>1, <2>2, <2>3 DEF Copy
<1>3. building.at \in Identified
  BY <1>1 DEF Identified
<1> QED BY <1>1, <1>2, <1>3, OutputStepInv

LEMMA InterruptedInv ==
    ASSUME IInv, Interrupted
    PROVE  IInv'
<1>1. building' = None /\ UNCHANGED <<workspace, dist, qualifying, receipts, tested, jobs>>
  BY DEF Interrupted
<1>2. OneBuild'
  BY <1>1 DEF OneBuild
<1> QED BY <1>1, <1>2, BuildStepInv

LEMMA MeddleInv ==
    ASSUME IInv, Meddle
    PROVE  IInv'
<1>1. UNCHANGED <<workspace, building, qualifying, receipts, tested, jobs>>
  BY DEF Meddle
<1>2. /\ dist' = [build |-> dist'.build, core |-> dist'.core, lib |-> dist'.lib,
                  extra |-> dist'.extra]
      /\ dist'.build = dist.build
  BY DEF Meddle, IInv, Shaped
<1>3. Shaped' /\ OneBuild'
  BY <1>1, <1>2 DEF IInv, Shaped, OneBuild, At, workspace, jobs
<1>4. Traced'
  BY <1>1, <1>2 DEF IInv, Traced, TrueReport, TruePackage, TrueRecord, At, jobs
<1> QED BY <1>1, <1>3, <1>4, PublishedStays DEF jobs, IInv

----------------------------------------------------------------------------
(* A step of the tests or of the jobs leaves the checkout, the build and its  *)
(* output alone.                                                              *)
LEMMA LaterInv ==
    ASSUME IInv, UNCHANGED <<run, workspace, building, dist>>,
           receipts' = [tarball |-> receipts'.tarball, report |-> receipts'.report]
    PROVE  Shaped' /\ OneBuild' /\ TrueRecord(dist.build)'
<1>1. Shaped'
  BY DEF IInv, Shaped, workspace
<1>2. OneBuild'
  BY DEF IInv, OneBuild, At, workspace
<1>3. TrueRecord(dist.build)'
  BY DEF IInv, Traced, TrueRecord, At
<1> QED BY <1>1, <1>2, <1>3

LEMMA PackInv ==
    ASSUME IInv, Pack
    PROVE  IInv'
<1>1. /\ retained = None
      /\ UNCHANGED <<workspace, building, dist, tested, jobs>>
  BY DEF Pack
<1>2. /\ receipts' = [tarball |-> receipts'.tarball, report |-> receipts'.report]
      /\ \/ /\ receipts'.tarball = receipts.tarball
            /\ receipts'.report = Report(1, None, tree.cases, 0)
            /\ qualifying' = qualifying
         \/ /\ receipts'.tarball = dist /\ receipts'.report = receipts.report
            /\ qualifying' = [package |-> dist, cases |-> tree.cases]
  BY DEF Pack, IInv, Shaped
<1>3. TruePackage(dist)
  BY DEF IInv, Traced, TruePackage
<1>4. TrueReport(Report(1, None, tree.cases, 0))
  BY DEF TrueReport, Report
<1>5. Traced'
  <2>1. TruePackage(receipts.tarball)' /\ TrueReport(receipts.report)'
    BY <1>1, <1>2, <1>3, <1>4 DEF IInv, Traced, TruePackage, TrueRecord, TrueReport, At
  <2>2. (qualifying # None => TruePackage(qualifying.package))'
    BY <1>2, <1>3 DEF IInv, Traced, TruePackage, TrueRecord, At
  <2>3. TrueRecord(dist.build)'
    BY <1>1, <1>2, LaterInv DEF jobs
  <2> QED BY <1>1, <2>1, <2>2, <2>3 DEF Traced, jobs
<1> QED BY <1>1, <1>2, <1>5, LaterInv, PublishedStays DEF jobs, IInv

LEMMA QualifyInv ==
    ASSUME IInv, Qualify
    PROVE  IInv'
<1>1. PICK exit \in {0, 1} : \E runtimes \in {1, 2} :
        /\ qualifying # None
        /\ receipts' = [receipts EXCEPT
              !.report = Report(exit, qualifying.package, qualifying.cases, runtimes)]
        /\ tested' = IF exit = 0
                     THEN tested \cup {[package |-> qualifying.package,
                                        cases |-> qualifying.cases, runtimes |-> runtimes]}
                     ELSE tested
        /\ qualifying' = None
        /\ UNCHANGED <<workspace, building, dist, jobs>>
  BY DEF Qualify
<1>2. PICK runtimes \in {1, 2} :
        /\ receipts' = [receipts EXCEPT
              !.report = Report(exit, qualifying.package, qualifying.cases, runtimes)]
        /\ exit = 0 => [package |-> qualifying.package, cases |-> qualifying.cases,
                        runtimes |-> runtimes] \in tested'
        /\ tested \subseteq tested'
  BY <1>1
<1> DEFINE said == Report(exit, qualifying.package, qualifying.cases, runtimes)
<1>3. receipts' = [tarball |-> receipts.tarball, report |-> said]
  BY <1>2 DEF IInv, Shaped
<1>4. /\ said.exit = exit /\ said.tarball = qualifying.package
      /\ said.cases = qualifying.cases /\ said.runtimes = runtimes
  BY DEF Report
<1> HIDE DEF said
<1>5. Traced'
  <2>1. TrueReport(receipts.report)'
    BY <1>2, <1>3, <1>4 DEF TrueReport
  <2>2. TruePackage(receipts.tarball)'
    BY <1>3 DEF IInv, Traced, TruePackage, TrueRecord, At
  <2>3. TrueRecord(dist.build)'
    BY <1>1, <1>3, LaterInv DEF jobs
  <2>4. (retained # None =>
          TrueReport(retained.receipts.report) /\ TruePackage(retained.receipts.tarball))'
    BY <1>1, <1>2 DEF IInv, Traced, TrueReport, TruePackage, TrueRecord, At, jobs
  <2> QED BY <1>1, <2>1, <2>2, <2>3, <2>4 DEF Traced
<1> QED BY <1>1, <1>2, <1>3, <1>5, LaterInv, PublishedStays DEF jobs, IInv

LEMMA KilledInv ==
    ASSUME IInv, Killed
    PROVE  IInv'
<1>1. /\ qualifying' = None
      /\ UNCHANGED <<workspace, building, dist, receipts, tested, jobs>>
  BY DEF Killed
<1>2. Traced'
  BY <1>1 DEF IInv, Traced, TrueReport, TruePackage, TrueRecord, At, jobs
<1>3. receipts' = [tarball |-> receipts'.tarball, report |-> receipts'.report]
  BY <1>1 DEF IInv, Shaped
<1> QED BY <1>1, <1>2, <1>3, LaterInv, PublishedStays DEF jobs, IInv

(* The job uploads the receipts as they are. *)
LEMMA RetainInv ==
    ASSUME IInv, Retain
    PROVE  IInv'
<1>1. /\ retained' = [receipts |-> receipts,
                      passed |-> Verified(receipts, run.commit, head, tree)]
      /\ UNCHANGED <<workspace, building, dist, qualifying, receipts, tested, run, published>>
  BY DEF Retain, tools
<1>2. retained'.receipts = receipts
  BY <1>1
<1>3. Traced'
  BY <1>1, <1>2 DEF IInv, Traced, TrueReport, TruePackage, TrueRecord, At
<1>4. receipts' = [tarball |-> receipts'.tarball, report |-> receipts'.report]
  BY <1>1 DEF IInv, Shaped
<1> QED BY <1>1, <1>3, <1>4, LaterInv, PublishedStays DEF IInv

(* What the publish job checks, and what its receipts are worth, are together *)
(* what is wanted of the package.                                             *)
LEMMA PublishInv ==
    ASSUME IInv, Publish
    PROVE  IInv'
<1> DEFINE r == retained.receipts
           c == run.commit
<1>1. /\ retained # None /\ published' = {r.tarball}
      /\ run.tag = Version[c] /\ c \in Main
      /\ Verified(r, c, c, At(c))
      /\ UNCHANGED <<workspace, tools, run, retained>>
  BY DEF Publish
<1>2. TrueReport(r.report) /\ TruePackage(r.tarball)
  BY <1>1 DEF IInv, Traced
<1> HIDE DEF r, c
<1>3. /\ r.report # None /\ r.tarball # None /\ r.tarball = r.report.tarball
      /\ r.tarball.build # None
      /\ r.tarball.build.commit = c /\ ~r.tarball.build.dirty
      /\ ~r.tarball.extra /\ r.tarball.core = r.tarball.build.core
      /\ r.tarball.build.source = At(c) /\ r.tarball.lib = c
  BY <1>1 DEF Verified, ValidArtifact, Listed, At
<1>4. r.report.exit = 0 /\ r.report.runtimes = 2 /\ r.report.cases = c
  BY <1>1 DEF Verified, ValidReport, At
<1>5. [package |-> r.tarball, cases |-> c, runtimes |-> 2] \in tested
  BY <1>2, <1>3, <1>4 DEF TrueReport
<1>6. r.tarball.core.of = c
  BY <1>2, <1>3 DEF TruePackage, TrueRecord
<1>7. PublishedIsQualified'
  BY <1>1, <1>5 DEF PublishedIsQualified, tools, c
<1>8. PublishedIsOfCommit'
  BY <1>1, <1>3, <1>6 DEF PublishedIsOfCommit, c, At
<1>9. Traced' /\ Shaped' /\ OneBuild'
  <2>1. UNCHANGED <<dist, qualifying, receipts, tested, retained, run, building, workspace>>
    BY <1>1 DEF tools
  <2>2. receipts' = [tarball |-> receipts'.tarball, report |-> receipts'.report]
    BY <2>1 DEF IInv, Shaped
  <2> QED BY <2>1, <2>2, TracedStays, LaterInv DEF IInv
<1> QED BY <1>7, <1>8, <1>9 DEF IInv

----------------------------------------------------------------------------
LEMMA InvNext == IInv /\ [Next]_vars => IInv'
<1> SUFFICES ASSUME IInv, [Next]_vars PROVE IInv'
  OBVIOUS
<1>1. CASE UNCHANGED vars
  <2>1. UNCHANGED <<workspace, dist, qualifying, receipts, tested, jobs, building>>
    BY <1>1 DEF vars, tools
  <2>2. OneBuild'
    BY <2>1 DEF IInv, OneBuild, At, workspace
  <2>3. building' # None =>
          building' = [at |-> building'.at, commit |-> building'.commit,
                       dirty |-> building'.dirty, core |-> building'.core,
                       source |-> building'.source, lib |-> building'.lib,
                       changed |-> building'.changed]
    BY <2>1 DEF IInv, Shaped
  <2> QED BY <2>1, <2>2, <2>3, BuildStepInv
<1>2. CASE Edit
  BY <1>2, EditInv
<1>3. CASE Checkout
  BY <1>3, CheckoutInv
<1>4. CASE Begin
  BY <1>4, BeginInv
<1>5. CASE Compile
  BY <1>5, CompileInv
<1>6. CASE Identify
  BY <1>6, IdentifyInv
<1>7. CASE Stage
  BY <1>7, StageInv
<1>8. CASE Inspect
  BY <1>8, InspectInv
<1>9. CASE Remove
  BY <1>9, RemoveInv
<1>10. CASE Copy
  BY <1>10, CopyInv
<1>11. CASE Interrupted
  BY <1>11, InterruptedInv
<1>12. CASE Meddle
  BY <1>12, MeddleInv
<1>13. CASE Pack
  BY <1>13, PackInv
<1>14. CASE Qualify
  BY <1>14, QualifyInv
<1>15. CASE Killed
  BY <1>15, KilledInv
<1>16. CASE Retain
  BY <1>16, RetainInv
<1>17. CASE Publish
  BY <1>17, PublishInv
<1> QED BY <1>1, <1>2, <1>3, <1>4, <1>5, <1>6, <1>7, <1>8, <1>9, <1>10, <1>11, <1>12,
           <1>13, <1>14, <1>15, <1>16, <1>17 DEF Next

LEMMA Inductive == Spec => []IInv
<1> QED BY InitInv, InvNext, PTL DEF Spec

(* What is published is byte for byte a tarball that every consumer has       *)
(* passed, with the cases of the tagged commit (check_release.py: the digest  *)
(* of the tarball, the report).                                               *)
THEOREM PublishedAfterTests == Spec => []PublishedIsQualified
<1>1. IInv => PublishedIsQualified
  BY DEF IInv
<1> QED BY <1>1, Inductive, PTL

(* What is published was compiled and copied from the sources of the tagged   *)
(* commit, and has nothing else in it (build.py: the identity is taken after   *)
(* the compiler has run; check_release.py: the identity of the sources).       *)
THEOREM PublishedFromCommit == Spec => []PublishedIsOfCommit
<1>1. IInv => PublishedIsOfCommit
  BY DEF IInv
<1> QED BY <1>1, Inductive, PTL

(* Only an output that is gone is copied over, and a removal only takes away.  *)
LEMMA OutputNext == IInv /\ OutputIsOneBuild /\ [Next]_vars => OutputIsOneBuild'
<1> SUFFICES ASSUME IInv, OutputIsOneBuild, [Next]_vars PROVE OutputIsOneBuild'
  OBVIOUS
<1>1. CASE UNCHANGED dist
  BY <1>1 DEF OutputIsOneBuild
<1>2. CASE Remove
  <2>1. CASE dist' = Empty
    BY <2>1 DEF Empty, OutputIsOneBuild
  <2>2. CASE dist' \in Partial(dist)
    BY <2>2 DEF Partial, OutputIsOneBuild
  <2> QED BY <1>2, <2>1, <2>2 DEF Remove
<1>3. CASE Copy
  <2>1. CASE dist' = Staged(building)
    BY <2>1 DEF Staged, Record, OutputIsOneBuild
  <2>2. CASE dist' \in Partial(Staged(building))
    BY <2>2 DEF Partial, Staged, Record, OutputIsOneBuild
  <2> QED BY <1>1, <1>3, <2>1, <2>2 DEF Copy
<1>4. CASE Meddle
  BY <1>4 DEF Meddle, IInv, Shaped, OutputIsOneBuild
<1>5. CASE Edit \/ Checkout
  BY <1>1, <1>5 DEF Edit, Checkout, Change
<1>6. CASE Begin \/ Compile \/ Identify \/ Stage \/ Inspect \/ Interrupted
  BY <1>1, <1>6 DEF Begin, Compile, Identify, Stage, Inspect, Interrupted
<1>7. CASE Pack \/ Qualify \/ Killed
  BY <1>1, <1>7 DEF Pack, Qualify, Killed
<1>8. CASE Retain \/ Publish \/ UNCHANGED vars
  BY <1>1, <1>8 DEF Retain, Publish, vars, tools
<1> QED BY <1>2, <1>3, <1>4, <1>5, <1>6, <1>7, <1>8 DEF Next

(* A record beside the files in the output is the record of these files,       *)
(* wherever the build that replaced it was cut short or refused and whatever   *)
(* was put there meanwhile (build.py: rmtree before copytree).                 *)
THEOREM OutputOfOneBuild == Spec => []OutputIsOneBuild
<1>1. Init => OutputIsOneBuild
  BY DEF Init, Empty, OutputIsOneBuild
<1> QED BY <1>1, OutputNext, Inductive, PTL DEF Spec

----------------------------------------------------------------------------
(* A file the checks have read: name and metadata say version v.             *)
Read(f, v) == f.of = v /\ f.metadata = [name |-> NAME, version |-> v]

(* While a run stages, the version and the built files stand still, and the  *)
(* upload directory was empty when it began.                                 *)
Staging ==
    staging # None =>
      /\ staging \in [tag : {version}, left : SUBSET files]
      /\ \A f \in files \cup out : Read(f, version)

AllVerified == Staging /\ Python!PublishedIsVerified

----------------------------------------------------------------------------
(* What passes the checks of the population and of the metadata is read.     *)
LEMMA CheckedIsRead ==
    ASSUME NEW found, Python!Plan(found), Python!Described(found)
    PROVE  \A f \in found : Read(f, version)
<1>1. \A f \in Python!Expected(found) : f.of = version
  BY DEF Python!Expected, Python!Hits, Python!Wheels
<1>2. PICK sdist \in found : sdist.of = version /\ found = Python!Expected(found) \cup {sdist}
  BY DEF Python!Plan
<1> QED BY <1>1, <1>2 DEF Python!Described, Python!Metadata, Read

LEMMA VerifiedInit == Python!Init => AllVerified
BY DEF Python!Init, AllVerified, Staging, Python!PublishedIsVerified

LEMMA VerifiedNext == AllVerified /\ [Python!Next]_pythonVars => AllVerified'
<1> SUFFICES ASSUME AllVerified, [Python!Next]_pythonVars PROVE AllVerified'
  OBVIOUS
<1> USE DEF AllVerified
<1>1. CASE Python!Check
  <2>1. Python!PublishedIsVerified'
    BY <1>1 DEF Python!Check, Python!PublishedIsVerified
  <2>2. Staging'
    <3> SUFFICES ASSUME staging' # None
                 PROVE  /\ staging' \in [tag : {version}, left : SUBSET files]
                        /\ \A f \in files \cup out : Read(f, version)
      BY <1>1 DEF Python!Check, Staging, Read
    <3>1. /\ staging' = [tag |-> version, left |-> files]
          /\ Python!Plan(files) /\ Python!Described(files) /\ out = {}
      BY <1>1 DEF Python!Check
    <3> QED BY <3>1, CheckedIsRead
  <2> QED BY <2>1, <2>2
<1>2. CASE Python!Copy
  <2>1. Python!PublishedIsVerified'
    BY <1>2 DEF Python!Copy, Python!PublishedIsVerified
  <2>2. Staging'
    <3> DEFINE f == CHOOSE g \in staging.left : TRUE
    <3>1. /\ staging # None /\ f \in staging.left
          /\ out' = {g \in out : ~Python!SameName(f, g)} \cup {f}
          /\ staging' = [staging EXCEPT !.left = @ \ {f}]
          /\ version' = version /\ files' = files
      BY <1>2 DEF Python!Copy
    <3>2. f \in files /\ staging' \in [tag : {version}, left : SUBSET files]
      BY <3>1 DEF Staging
    <3>3. \A g \in files \cup out' : Read(g, version)
      BY <3>1, <3>2 DEF Staging
    <3> QED BY <3>1, <3>2, <3>3 DEF Staging, Read
  <2> QED BY <2>1, <2>2
<1>3. CASE Python!Publish
  <2>1. \A p \in [tag : {staging.tag}, file : out] : Read(p.file, p.tag)
    BY <1>3 DEF Python!Publish, Python!Staged, Staging
  <2>2. Python!PublishedIsVerified'
    BY <1>3, <2>1 DEF Python!Publish, Python!PublishedIsVerified, Read
  <2>3. Staging'
    BY <1>3 DEF Python!Publish, Staging
  <2> QED BY <2>2, <2>3
<1>4. CASE \/ Python!Ended \/ Python!Killed \/ Python!Bump \/ Python!Rebuild \/ Python!Clear
           \/ UNCHANGED pythonVars
  <2>1. Python!PublishedIsVerified'
    BY <1>4 DEF Python!Ended, Python!Killed, Python!Bump, Python!Rebuild, Python!Clear, pythonVars,
                Python!PublishedIsVerified
  <2>2. Staging'
    BY <1>4 DEF Python!Ended, Python!Killed, Python!Bump, Python!Rebuild, Python!Clear, pythonVars,
                Staging, Read
  <2> QED BY <2>1, <2>2
<1> QED BY <1>1, <1>2, <1>3, <1>4 DEF Python!Next

(* Whatever is in the upload directory when a run begins, and however often    *)
(* runs are killed, every file the index takes under a tag says so, in its     *)
(* name and in its metadata (check-python-release.py, python-release.yml).     *)
THEOREM OnlyVerifiedPublished == AnySpec => []PublishedIsVerified
<1>1. AnyInit => AllVerified
  BY VerifiedInit DEF AnyInit, NoPython, AllVerified, Staging, Python!PublishedIsVerified
<1>2. AllVerified /\ [AnyNext]_<<vars, pythonVars, readerVars>> => AllVerified'
  BY VerifiedNext DEF AnyNext
<1>3. AllVerified => PublishedIsVerified
  BY DEF AllVerified, PublishedIsVerified
<1> QED BY <1>1, <1>2, <1>3, PTL DEF AnySpec

----------------------------------------------------------------------------
(* A row of steps.json, and the row of a step that has passed.                *)
Rows == [name : Reader!Names, exit : Nat]
Passed(i) == [name |-> Reader!Captured[i], exit |-> 0]

Typed ==
    /\ qHead \in Commits
    /\ qTree \in [Reader!Parts -> Commits \cup {Edited}]
    /\ cleaned \in BOOLEAN
    /\ ledger \in Seq(Rows)

Count == Len(ledger)
Live == state \in {"new", "running"}

(* A run that has not ended has passed each of its steps in turn.            *)
Ordered ==
    Live =>
      /\ Count \in 0..11
      /\ \A i \in 1..Count : ledger[i] = Passed(i)
      /\ checking # None => Count = 4 /\ selected
      /\ selected => Count >= 4
      /\ Count >= 5 => selected
      /\ Count = 0 => worked = {}

Has(part) == [part |-> part, content |-> named] \in worked

(* What the steps so far have worked on, and what they have made of it.      *)
Evidence ==
    /\ worked \subseteq [part : Reader!Parts, content : {named}]
    /\ Count >= 3 => Has("crate") /\ Has("corpus")
    /\ Count >= 4 => Has("go")
    /\ selected => Has("records")
    /\ Count >= 6 => Has("reader")
    /\ checking = "admission" =>
         commands = [admission |-> [crate |-> named, go |-> named], binary |-> None]
    /\ checking \in {"built", "qualified"} \/ Count >= 5 =>
         commands = [admission |-> [crate |-> named, go |-> named], binary |-> named]
    /\ Count >= 5 => report = [commit |-> named, clean |-> TRUE]
    /\ Count >= 6 => wheel = named
    /\ Count >= 7 => reader = named

Lasting ==
    Live /\ ~cleaned /\ Count >= 1 =>
      /\ qHead = named
      /\ Reader!Clean \/ Count = 11 => Evidence

Written ==
    results # None =>
      /\ state # "new" /\ Count = 11
      /\ Reader!ResultsAreOfHead

Qualifies == Typed /\ Ordered /\ Lasting /\ Written

----------------------------------------------------------------------------
LEMMA CapturedFacts ==
    /\ Len(Reader!Captured) = 11 /\ DOMAIN Reader!Captured = 1..11
    /\ Reader!Captured[1] = "source-head" /\ Reader!Captured[2] = "source-status"
    /\ Reader!Captured[3] = "cargo-test" /\ Reader!Captured[4] = "go-admission-clippy"
    /\ Reader!Captured[5] = "go-corpus" /\ Reader!Captured[6] = "build-wheel"
    /\ Reader!Captured[7] = "install-wheel" /\ Reader!Captured[8] = "installed-source"
    /\ Reader!Captured[9] = "records" /\ Reader!Captured[10] = "installed-controls"
    /\ Reader!Captured[11] = "source-status-after"
BY DEF Reader!Captured

(* A step is due after those before it in the script, and at no other time.  *)
LEMMA DueAt ==
    ASSUME Typed, NEW name, Reader!Due(name)
    PROVE  /\ Count \in 0..10 /\ Reader!Captured[Count + 1] = name
           /\ state = "running" /\ checking = None
           /\ name = "source-head" => Count = 0
           /\ name = "source-status" => Count = 1
           /\ name = "cargo-test" => Count = 2
           /\ name = "go-admission-clippy" => Count = 3
           /\ name = "go-corpus" => Count = 4
           /\ name = "build-wheel" => Count = 5
           /\ name = "install-wheel" => Count = 6
           /\ name = "installed-source" => Count = 7
           /\ name = "records" => Count = 8
           /\ name = "installed-controls" => Count = 9
           /\ name = "source-status-after" => Count = 10
<1>1. Count \in Nat
  BY DEF Typed, Count
<1>2. /\ Count < Len(Reader!Captured) /\ Reader!Captured[Count + 1] = name
      /\ state = "running" /\ checking = None
  BY DEF Reader!Due, Count
<1>3. Count \in 0..10
  <2>1. Len(Reader!Captured) = 11
    BY CapturedFacts
  <2>2. \A n \in Nat : n < 11 => n \in 0..10
    OBVIOUS
  <2> QED BY <1>1, <1>2, <2>1, <2>2
<1>4. \/ Count = 0 /\ name = "source-head"
      \/ Count = 1 /\ name = "source-status"
      \/ Count = 2 /\ name = "cargo-test"
      \/ Count = 3 /\ name = "go-admission-clippy"
      \/ Count = 4 /\ name = "go-corpus"
      \/ Count = 5 /\ name = "build-wheel"
      \/ Count = 6 /\ name = "install-wheel"
      \/ Count = 7 /\ name = "installed-source"
      \/ Count = 8 /\ name = "records"
      \/ Count = 9 /\ name = "installed-controls"
      \/ Count = 10 /\ name = "source-status-after"
  <2> DEFINE n == Count
  <2>1. n \in 0..10 /\ Reader!Captured[n + 1] = name
    BY <1>2, <1>3
  <2> HIDE DEF n
  <2>2. n = 0 \/ n = 1 \/ n = 2 \/ n = 3 \/ n = 4 \/ n = 5 \/ n = 6 \/ n = 7 \/ n = 8
          \/ n = 9 \/ n = 10
    BY <2>1
  <2>3. /\ n = 0 => n + 1 = 1
        /\ n = 1 => n + 1 = 2
        /\ n = 2 => n + 1 = 3
        /\ n = 3 => n + 1 = 4
        /\ n = 4 => n + 1 = 5
        /\ n = 5 => n + 1 = 6
        /\ n = 6 => n + 1 = 7
        /\ n = 7 => n + 1 = 8
        /\ n = 8 => n + 1 = 9
        /\ n = 9 => n + 1 = 10
        /\ n = 10 => n + 1 = 11
    OBVIOUS
  <2>4. \/ n = 0 /\ name = "source-head"
        \/ n = 1 /\ name = "source-status"
        \/ n = 2 /\ name = "cargo-test"
        \/ n = 3 /\ name = "go-admission-clippy"
        \/ n = 4 /\ name = "go-corpus"
        \/ n = 5 /\ name = "build-wheel"
        \/ n = 6 /\ name = "install-wheel"
        \/ n = 7 /\ name = "installed-source"
        \/ n = 8 /\ name = "records"
        \/ n = 9 /\ name = "installed-controls"
        \/ n = 10 /\ name = "source-status-after"
    BY <2>1, <2>2, <2>3, CapturedFacts, Zenon
  <2> QED BY <2>4 DEF n
<1> QED BY <1>2, <1>3, <1>4

(* A row more in steps.json. *)
LEMMA OneMore ==
    ASSUME NEW s \in Seq(Rows), NEW r \in Rows
    PROVE  /\ Append(s, r) \in Seq(Rows)
           /\ Len(Append(s, r)) = Len(s) + 1
           /\ \A i \in 1..Len(s) : Append(s, r)[i] = s[i]
           /\ Append(s, r)[Len(s) + 1] = r
OBVIOUS

(* A step that ends well.                                                    *)
LEMMA Advances ==
    ASSUME Typed, Ordered, Live, NEW name,
           Count \in 0..10, Reader!Captured[Count + 1] = name, Reader!Ends(name, 0)
    PROVE  /\ ledger' \in Seq(Rows)
           /\ Count' = Count + 1
           /\ \A i \in 1..Count' : ledger'[i] = Passed(i)
<1>1. ledger' = Append(ledger, [name |-> name, exit |-> 0]) /\ ledger \in Seq(Rows)
  BY DEF Reader!Ends, Typed
<1>2. [name |-> name, exit |-> 0] \in Rows
  <2>1. \A n \in 0..10 : n + 1 \in 1..11
    OBVIOUS
  <2>2. Count + 1 \in DOMAIN Reader!Captured
    BY <2>1, CapturedFacts
  <2> QED BY <2>2 DEF Rows, Reader!Names
<1>3. /\ ledger' \in Seq(Rows) /\ Count' = Count + 1
      /\ \A i \in 1..Count : ledger'[i] = ledger[i]
      /\ ledger'[Count + 1] = [name |-> name, exit |-> 0]
  BY <1>1, <1>2, OneMore DEF Count
<1>4. \A i \in 1..Count : ledger[i] = Passed(i)
  BY DEF Ordered
<1>5. ASSUME NEW i \in 1..Count' PROVE ledger'[i] = Passed(i)
  <2>1. CASE i = Count + 1
    BY <1>3, <2>1 DEF Passed
  <2>2. CASE i \in 1..Count
    BY <1>3, <1>4, <2>2
  <2> QED BY <1>3, <2>1, <2>2
<1> QED BY <1>3, <1>5

(* Steps work on parts of a clean checkout: on the named commit.             *)
LEMMA WorkIsOfHead ==
    ASSUME NEW parts \in SUBSET Reader!Parts, Reader!WorkOn(parts), Reader!Clean, qHead = named,
    named' = named,
           worked \subseteq [part : Reader!Parts, content : {named}]
    PROVE  /\ worked' \subseteq [part : Reader!Parts, content : {named'}]
           /\ \A part : Has(part) \/ part \in parts => Has(part)'
<1>1. \A part \in parts : [part |-> part, content |-> qTree[part]] = [part |-> part,
   content |-> named]
  BY DEF Reader!Clean, Reader!At
<1>2. worked' = worked \cup {[part |-> part, content |-> qTree[part]] : part \in parts}
  BY DEF Reader!WorkOn
<1>3. worked' = worked \cup {[part |-> part, content |-> named] : part \in parts}
  BY <1>1, <1>2
<1> QED BY <1>3 DEF Has

LEMMA EvidenceInit == Reader!ContentsFit /\ Reader!Init => Qualifies
<1> SUFFICES ASSUME Reader!ContentsFit, Reader!Init PROVE Qualifies
  OBVIOUS
<1>1. ledger = <<>> /\ results = None /\ checking = None /\ ~selected /\ worked = {}
  BY DEF Reader!Init
<1>2. Typed
  <2>1. qHead \in Commits /\ cleaned = FALSE
    BY DEF Reader!Init
  <2>2. ledger \in Seq(Rows)
    BY <1>1
  <2>3. Reader!At(qHead) \in [Reader!Parts -> Commits \cup {Edited}]
    BY <2>1 DEF Reader!At
  <2>4. [Reader!At(qHead) EXCEPT !["crate"] = Edited] \in [Reader!Parts -> Commits \cup {Edited}]
    BY <2>3
  <2>5. qTree \in {Reader!At(qHead), [Reader!At(qHead) EXCEPT !["crate"] = Edited]}
    BY DEF Reader!Init
  <2> QED BY <2>1, <2>2, <2>3, <2>4, <2>5 DEF Typed
<1>3. Count = 0
  BY <1>1 DEF Count
<1> QED BY <1>1, <1>2, <1>3 DEF Qualifies, Ordered, Lasting, Written

----------------------------------------------------------------------------
LEMMA ChangeKeeps ==
    ASSUME Reader!ContentsFit, Qualifies, Reader!Edit \/ Reader!Checkout
    PROVE  Qualifies'
<1>1. /\ UNCHANGED <<state, selected, checking, ledger, named, worked, report, results,
                     commands, wheel, reader>>
      /\ state = "running" /\ Count' = Count
  BY DEF Reader!Edit, Reader!Checkout, Reader!Change, Reader!progress, Reader!evidence,
     Reader!built, Count
<1>2. Typed'
  <2>1. CASE Reader!Edit
    BY <1>1, <2>1 DEF Qualifies, Typed, Reader!Edit, Reader!Change
  <2>2. CASE Reader!Checkout
    BY <1>1, <2>2 DEF Qualifies, Typed, Reader!Checkout, Reader!Change, Reader!At
  <2> QED BY <2>1, <2>2
<1>3. Ordered'
  BY <1>1 DEF Qualifies, Ordered, Live, Passed
<1>4. ~cleaned' /\ Count >= 1 => ~cleaned /\ qHead' = qHead /\ ~Reader!Clean'
  <2>1. Count >= 1 => ledger # <<>>
    BY DEF Count
  <2>2. CASE Reader!Edit
    <3>1. PICK part \in Reader!Parts : Reader!Change([qTree EXCEPT ![part] = Edited], qHead)
      BY <2>2 DEF Reader!Edit
    <3>2. qHead' = qHead /\ qTree'[part] = Edited /\ qHead \in Commits
      BY <3>1 DEF Reader!Change, Qualifies, Typed
    <3>3. ~Reader!Clean'
      BY <3>2 DEF Reader!Clean, Reader!At, Reader!ContentsFit
    <3> QED BY <3>1, <3>2, <3>3 DEF Reader!Change, Qualifies, Typed
  <2>3. CASE Reader!Checkout
    <3>1. PICK commit \in Commits : Reader!Change(Reader!At(commit), commit)
      BY <2>3 DEF Reader!Checkout
    <3>2. ledger # <<>> => cleaned'
      BY <3>1 DEF Reader!Change
    <3> QED BY <2>1, <3>2
  <2> QED BY <2>2, <2>3
<1>5. Lasting'
  <2> SUFFICES ASSUME ~cleaned', Count >= 1
               PROVE  /\ qHead' = named
                      /\ Reader!Clean' \/ Count = 11 => Evidence'
    BY <1>1 DEF Lasting, Live
  <2>1. qHead = named /\ (Count = 11 => Evidence)
    BY <1>1, <1>4 DEF Qualifies, Lasting, Live
  <2> QED BY <1>1, <1>4, <2>1 DEF Evidence, Has
<1>6. Written'
  <2> SUFFICES ASSUME results # None PROVE Count = 11 /\ Reader!ResultsAreOfHead'
    BY <1>1 DEF Written
  <2>1. Count = 11 /\ Reader!ResultsAreOfHead
    BY DEF Qualifies, Written
  <2>2. ~cleaned' => ~cleaned
    BY <1>4, <2>1
  <2> QED BY <1>1, <2>1, <2>2 DEF Reader!ResultsAreOfHead
<1> QED BY <1>2, <1>3, <1>5, <1>6 DEF Qualifies

----------------------------------------------------------------------------
(* What every step has in common that does not touch the checkout.           *)
LEMMA NotYetWritten ==
    ASSUME Qualifies, Live, Count # 11
    PROVE  results = None
BY DEF Qualifies, Written

LEMMA WrittenKept ==
    ASSUME results = None, results' = results
    PROVE  Written'
BY DEF Written

(* A captured step other than the check of the Go consumer has ended well.   *)
LEMMA StepEnds ==
    ASSUME Qualifies, NEW name, name # "go-corpus", Reader!Due(name), Reader!Ends(name, 0),
           checking' = checking, results' = results
    PROVE  /\ Typed' /\ Ordered' /\ Written'
           /\ Count' = Count + 1
           /\ UNCHANGED <<qHead, qTree, cleaned, selected>>
<1>1. /\ Count \in 0..10 /\ Reader!Captured[Count + 1] = name
      /\ state = "running" /\ checking = None /\ Count # 4
  <2>1. Count \in 0..10 /\ Reader!Captured[Count + 1] = name
          /\ state = "running" /\ checking = None
    BY DueAt DEF Qualifies
  <2>2. Count = 4 => Reader!Captured[Count + 1] = Reader!Captured[5]
    OBVIOUS
  <2>3. Reader!Captured[5] = "go-corpus"
    BY CapturedFacts
  <2> QED BY <2>1, <2>2, <2>3
<1>2. /\ ledger' \in Seq(Rows) /\ Count' = Count + 1
      /\ \A i \in 1..Count' : ledger'[i] = Passed(i)
  BY <1>1, Advances DEF Qualifies, Live
<1>3. UNCHANGED <<qHead, qTree, changes, cleaned, selected>>
  BY DEF Reader!Ends, Reader!checkout
<1>4. Typed'
  BY <1>2, <1>3 DEF Qualifies, Typed
<1>5. Ordered'
  <2>1. /\ Count' \in 1..11
        /\ Count' >= 5 => Count >= 5
        /\ Count >= 4 => Count' >= 4
    BY <1>1, <1>2
  <2>2. /\ selected => Count >= 4
        /\ Count >= 5 => selected
    BY <1>1 DEF Qualifies, Ordered, Live
  <2> QED BY <1>1, <1>2, <1>3, <2>1, <2>2 DEF Ordered, Passed
<1>6. Written'
  <2>1. Count # 11
    BY <1>1, <1>2
  <2> QED BY <1>1, <2>1, NotYetWritten, WrittenKept DEF Live
<1> QED BY <1>2, <1>3, <1>4, <1>5, <1>6

(* While the checkout is clean the evidence so far is there.                 *)
LEMMA LastingKept ==
    ASSUME Qualifies, state = "running", Count >= 1, Count # 11,
           qHead' = qHead, qTree' = qTree, cleaned' = cleaned, named' = named,
           Count' = 11 => Reader!Clean,
           Evidence /\ qHead = named /\ Reader!Clean => Evidence'
    PROVE  Lasting'
<1>1. Reader!Clean' = Reader!Clean
  BY DEF Reader!Clean
<1> QED BY <1>1 DEF Qualifies, Lasting, Live

LEMMA SourceHeadKeeps == ASSUME Reader!ContentsFit, Qualifies, Reader!SourceHead PROVE Qualifies'
<1>1. Count = 0 /\ state = "running" /\ checking = None
  BY DueAt DEF Reader!SourceHead, Qualifies
<1>2. /\ Typed' /\ Ordered' /\ Written' /\ Count' = 1
      /\ UNCHANGED <<qHead, qTree, cleaned, selected, checking, worked>>
  BY <1>1, StepEnds DEF Reader!SourceHead, Reader!Goes
<1>3. worked = {} /\ ~selected
  BY <1>1 DEF Qualifies, Ordered, Live
<1>4. Evidence'
  BY <1>1, <1>2, <1>3 DEF Evidence, Reader!ContentsFit
<1>5. Lasting'
  BY <1>2, <1>4 DEF Lasting, Reader!SourceHead
<1> QED BY <1>2, <1>5 DEF Qualifies

LEMMA SourceStatusKeeps == ASSUME Reader!ContentsFit, Qualifies,
Reader!SourceStatus PROVE Qualifies'
<1>1. Count = 1 /\ state = "running" /\ checking = None
  BY DueAt DEF Reader!SourceStatus, Qualifies
<1>2. UNCHANGED <<checking, named, worked, report, results, commands, wheel, reader>>
  BY DEF Reader!SourceStatus, Reader!Goes, Reader!Raises, Reader!evidence, Reader!built
<1>3. /\ Typed' /\ Ordered' /\ Written' /\ Count' = 2
      /\ UNCHANGED <<qHead, qTree, cleaned, selected>>
  BY <1>1, <1>2, StepEnds DEF Reader!SourceStatus
<1>4. Evidence => Evidence'
  BY <1>1, <1>2, <1>3 DEF Evidence, Has, Reader!ContentsFit
<1>5. Lasting'
  BY <1>1, <1>2, <1>3, <1>4, LastingKept
<1> QED BY <1>3, <1>5 DEF Qualifies

LEMMA TestKeeps == ASSUME Reader!ContentsFit, Qualifies, Reader!Test PROVE Qualifies'
<1>1. PICK name \in {"cargo-test", "go-admission-clippy", "records", "installed-controls"} :
        /\ Reader!Due(name) /\ Reader!Ends(name, 0) /\ Reader!Goes
        /\ Reader!WorkOn(Reader!Reads(name))
        /\ UNCHANGED <<named, report, results, Reader!built>>
  BY DEF Reader!Test
<1>2. /\ state = "running" /\ checking = None
      /\ name = "cargo-test" => Count = 2
      /\ name = "go-admission-clippy" => Count = 3
      /\ name = "records" => Count = 8
      /\ name = "installed-controls" => Count = 9
  BY <1>1, DueAt DEF Qualifies
<1>3. UNCHANGED <<state, checking, named, report, results, commands, wheel, reader>>
  BY <1>1 DEF Reader!Goes, Reader!built
<1>4. name # "go-corpus"
  BY <1>1
<1>5. /\ Typed' /\ Ordered' /\ Written' /\ Count' = Count + 1
      /\ UNCHANGED <<qHead, qTree, cleaned, selected>>
  BY <1>1, <1>3, <1>4, StepEnds
<1>6. /\ Reader!Reads(name) \in SUBSET Reader!Parts
      /\ name = "cargo-test" => Reader!Reads(name) = {"crate", "corpus"}
      /\ name = "go-admission-clippy" => Reader!Reads(name) = {"crate", "go"}
  BY <1>1 DEF Reader!Reads, Reader!Parts
<1>7. ASSUME Evidence, qHead = named, Reader!Clean PROVE Evidence'
  <2>1. /\ worked' \subseteq [part : Reader!Parts, content : {named'}]
        /\ \A part : Has(part) \/ part \in Reader!Reads(name) => Has(part)'
    BY <1>1, <1>3, <1>6, <1>7, WorkIsOfHead DEF Evidence
  <2>2. CASE name = "cargo-test"
    <3>1. Count = 2 /\ Count' = 3 /\ Has("crate")' /\ Has("corpus")'
      BY <1>2, <1>5, <1>6, <2>1, <2>2
    <3> QED BY <1>2, <1>3, <1>5, <1>7, <2>1, <3>1 DEF Evidence, Reader!ContentsFit
  <2>3. CASE name = "go-admission-clippy"
    <3>1. /\ Count = 3 /\ Count' = 4
          /\ Has("crate")' /\ Has("corpus")' /\ Has("go")'
      BY <1>2, <1>5, <1>6, <1>7, <2>1, <2>3 DEF Evidence
    <3> QED BY <1>2, <1>3, <1>5, <1>7, <2>1, <3>1 DEF Evidence, Reader!ContentsFit
  <2>4. CASE name \in {"records", "installed-controls"}
    <3>1. Count \in {8, 9} /\ Count' \in {9, 10}
      BY <1>2, <1>5, <2>4
    <3>2. \A part : Has(part) => Has(part)'
      BY <2>1
    <3> QED BY <1>2, <1>3, <1>5, <1>7, <2>1, <3>1, <3>2 DEF Evidence, Reader!ContentsFit
  <2> QED BY <2>2, <2>3, <2>4
<1>8. Count \in {2, 3, 8, 9} /\ Count' \in {3, 4, 9, 10}
  BY <1>2, <1>5
<1>9. Lasting'
  <2>1. Count >= 1 /\ Count # 11 /\ Count' # 11
    BY <1>8
  <2> QED BY <1>2, <1>3, <1>5, <1>7, <2>1, LastingKept
<1> QED BY <1>5, <1>9 DEF Qualifies

LEMMA SelectKeeps == ASSUME Reader!ContentsFit, Qualifies, Reader!Select PROVE Qualifies'
<1>1. Count = 4 /\ state = "running" /\ checking = None
  BY DueAt DEF Reader!Select, Qualifies
<1>2. /\ UNCHANGED <<qHead, qTree, cleaned, ledger, checking, named, report, results,
                     commands, wheel, reader>>
      /\ Reader!WorkOn({"records"}) /\ Count' = Count
  BY DEF Reader!Select, Reader!checkout, Reader!built, Reader!Goes, Reader!Raises, Count
<1>3. Typed'
  BY <1>2 DEF Qualifies, Typed
<1>4. Ordered'
  BY <1>1, <1>2 DEF Qualifies, Ordered, Live, Passed, Reader!Select
<1>5. Written'
  BY <1>1, <1>2, NotYetWritten, WrittenKept DEF Live
<1>6. ASSUME Evidence, qHead = named, Reader!Clean PROVE Evidence'
  <2>1. /\ worked' \subseteq [part : Reader!Parts, content : {named'}]
        /\ \A part : Has(part) \/ part \in {"records"} => Has(part)'
    BY <1>2, <1>6, WorkIsOfHead DEF Evidence, Reader!Parts
  <2> QED BY <1>1, <1>2, <1>6, <2>1 DEF Evidence, Reader!ContentsFit
<1>7. Lasting'
  BY <1>1, <1>2, <1>6, LastingKept
<1> QED BY <1>3, <1>4, <1>5, <1>7 DEF Qualifies

----------------------------------------------------------------------------
(* While check.py runs, no row is added.                                     *)
LEMMA CheckGoesOn ==
    ASSUME Qualifies, state = "running", Count = 4, selected,
           UNCHANGED <<qHead, qTree, cleaned, state, selected, ledger, named, results>>
    PROVE  Typed' /\ Ordered' /\ Written' /\ Count' = Count
<1>1. Count' = Count
  BY DEF Count
<1>2. Typed'
  BY DEF Qualifies, Typed
<1>3. Ordered'
  BY <1>1 DEF Qualifies, Ordered, Live, Passed
<1>4. Written'
  BY NotYetWritten, WrittenKept DEF Live
<1> QED BY <1>1, <1>2, <1>3, <1>4

LEMMA VerifyFilesKeeps == ASSUME Reader!ContentsFit, Qualifies,
Reader!VerifyFiles PROVE Qualifies'
<1>1. Count = 4 /\ state = "running" /\ checking = None /\ selected
  BY DueAt DEF Reader!VerifyFiles, Qualifies
<1>2. /\ UNCHANGED <<qHead, qTree, cleaned, state, selected, ledger, named, report, results,
                     commands, wheel, reader>>
      /\ checking' = "pins" /\ Reader!WorkOn({"corpus"})
  BY DEF Reader!VerifyFiles, Reader!checkout, Reader!built
<1>3. Typed' /\ Ordered' /\ Written' /\ Count' = Count
  BY <1>1, <1>2, CheckGoesOn
<1>4. ASSUME Evidence, qHead = named, Reader!Clean PROVE Evidence'
  <2>1. /\ worked' \subseteq [part : Reader!Parts, content : {named'}]
        /\ \A part : Has(part) => Has(part)'
    BY <1>2, <1>4, WorkIsOfHead DEF Evidence, Reader!Parts
  <2> QED BY <1>1, <1>2, <1>3, <1>4, <2>1 DEF Evidence
<1>5. Lasting'
  BY <1>1, <1>2, <1>3, <1>4, LastingKept
<1> QED BY <1>3, <1>5 DEF Qualifies

LEMMA BuildAdmissionKeeps == ASSUME Reader!ContentsFit, Qualifies,
Reader!BuildAdmission PROVE Qualifies'
<1>1. /\ UNCHANGED <<qHead, qTree, cleaned, state, selected, ledger, named, report, results,
                     wheel, reader>>
      /\ state = "running" /\ checking = "pins" /\ checking' = "admission"
      /\ Reader!WorkOn({"crate", "go"})
      /\ commands' = [admission |-> [crate |-> qTree["crate"], go |-> qTree["go"]],
                      binary |-> None]
  BY DEF Reader!BuildAdmission, Reader!Checks, Reader!checkout
<1>2. Count = 4 /\ selected
  BY <1>1 DEF Qualifies, Ordered, Live, Reader!ContentsFit
<1>3. Typed' /\ Ordered' /\ Written' /\ Count' = Count
  BY <1>1, <1>2, CheckGoesOn
<1>4. ASSUME Evidence, qHead = named, Reader!Clean PROVE Evidence'
  <2>1. /\ worked' \subseteq [part : Reader!Parts, content : {named'}]
        /\ \A part : Has(part) => Has(part)'
    BY <1>1, <1>4, WorkIsOfHead DEF Evidence, Reader!Parts
  <2>2. qTree["crate"] = named /\ qTree["go"] = named
    BY <1>4 DEF Reader!Clean, Reader!At, Reader!Parts
  <2> QED BY <1>1, <1>2, <1>3, <1>4, <2>1, <2>2 DEF Evidence
<1>5. Lasting'
  BY <1>1, <1>2, <1>3, <1>4, LastingKept
<1> QED BY <1>3, <1>5 DEF Qualifies

LEMMA BuildBinaryKeeps == ASSUME Reader!ContentsFit, Qualifies,
Reader!BuildBinary PROVE Qualifies'
<1>1. /\ UNCHANGED <<qHead, qTree, cleaned, state, selected, ledger, named, report, results,
                     wheel, reader>>
      /\ state = "running" /\ checking = "admission" /\ checking' = "built"
      /\ Reader!WorkOn({"go"})
      /\ commands' = [commands EXCEPT !.binary = qTree["go"]]
  BY DEF Reader!BuildBinary, Reader!Checks, Reader!checkout
<1>2. Count = 4 /\ selected
  BY <1>1 DEF Qualifies, Ordered, Live, Reader!ContentsFit
<1>3. Typed' /\ Ordered' /\ Written' /\ Count' = Count
  BY <1>1, <1>2, CheckGoesOn
<1>4. ASSUME Evidence, qHead = named, Reader!Clean PROVE Evidence'
  <2>1. /\ worked' \subseteq [part : Reader!Parts, content : {named'}]
        /\ \A part : Has(part) => Has(part)'
    BY <1>1, <1>4, WorkIsOfHead DEF Evidence, Reader!Parts
  <2>2. qTree["go"] = named
    BY <1>4 DEF Reader!Clean, Reader!At, Reader!Parts
  <2>3. commands = [admission |-> [crate |-> named, go |-> named], binary |-> None]
    BY <1>1, <1>4 DEF Evidence
  <2>4. commands' = [admission |-> [crate |-> named', go |-> named'], binary |-> named']
    BY <1>1, <2>2, <2>3
  <2> QED BY <1>1, <1>2, <1>3, <1>4, <2>1, <2>4 DEF Evidence
<1>5. Lasting'
  BY <1>1, <1>2, <1>3, <1>4, LastingKept
<1> QED BY <1>3, <1>5 DEF Qualifies

LEMMA QualifyKeeps == ASSUME Reader!ContentsFit, Qualifies, Reader!Qualify PROVE Qualifies'
<1>1. /\ UNCHANGED <<qHead, qTree, cleaned, state, selected, ledger, named, report, results,
                     commands, wheel, reader>>
      /\ state = "running" /\ checking = "built" /\ checking' = "qualified"
      /\ Reader!WorkOn({"corpus"})
  BY DEF Reader!Qualify, Reader!Checks, Reader!checkout
<1>2. Count = 4 /\ selected
  BY <1>1 DEF Qualifies, Ordered, Live, Reader!ContentsFit
<1>3. Typed' /\ Ordered' /\ Written' /\ Count' = Count
  BY <1>1, <1>2, CheckGoesOn
<1>4. ASSUME Evidence, qHead = named, Reader!Clean PROVE Evidence'
  <2>1. /\ worked' \subseteq [part : Reader!Parts, content : {named'}]
        /\ \A part : Has(part) => Has(part)'
    BY <1>1, <1>4, WorkIsOfHead DEF Evidence, Reader!Parts
  <2> QED BY <1>1, <1>2, <1>3, <1>4, <2>1 DEF Evidence
<1>5. Lasting'
  BY <1>1, <1>2, <1>3, <1>4, LastingKept
<1> QED BY <1>3, <1>5 DEF Qualifies

(* The report, and the row of check.py.                                      *)
LEMMA ReportKeeps == ASSUME Reader!ContentsFit, Qualifies, Reader!Report PROVE Qualifies'
<1>1. /\ UNCHANGED <<qHead, qTree, cleaned, state, selected, named, worked, results,
                     commands, wheel, reader>>
      /\ state = "running" /\ checking = "qualified" /\ checking' = None
      /\ report' = [commit |-> qHead, clean |-> Reader!Clean]
      /\ Reader!Ends("go-corpus", 0)
  BY DEF Reader!Report, Reader!Ends, Reader!checkout, Reader!built
<1>2. Count = 4 /\ selected
  BY <1>1 DEF Qualifies, Ordered, Live, Reader!ContentsFit
<1>3. Reader!Captured[Count + 1] = "go-corpus"
  <2>1. Count + 1 = 5
    BY <1>2
  <2> QED BY <2>1, CapturedFacts
<1>4. /\ ledger' \in Seq(Rows) /\ Count' = 5
      /\ \A i \in 1..Count' : ledger'[i] = Passed(i)
  <2>1. /\ ledger' \in Seq(Rows) /\ Count' = Count + 1
        /\ \A i \in 1..Count' : ledger'[i] = Passed(i)
    <3>1. Count \in 0..10 /\ Typed /\ Ordered /\ Live
      BY <1>1, <1>2 DEF Qualifies, Live
    <3> QED BY <1>1, <1>3, <3>1, Advances
  <2> QED BY <1>2, <2>1
<1>5. Typed'
  BY <1>1, <1>4 DEF Qualifies, Typed
<1>6. Ordered'
  BY <1>1, <1>2, <1>4 DEF Ordered, Passed
<1>7. Written'
  BY <1>1, <1>2, NotYetWritten, WrittenKept DEF Live
<1>8. ASSUME Evidence, qHead = named, Reader!Clean PROVE Evidence'
  <2>1. report' = [commit |-> named', clean |-> TRUE]
    BY <1>1, <1>8 DEF Reader!Clean
  <2> QED BY <1>1, <1>2, <1>4, <1>8, <2>1 DEF Evidence, Has, Reader!ContentsFit
<1>9. Lasting'
  BY <1>1, <1>2, <1>4, <1>8, LastingKept
<1> QED BY <1>5, <1>6, <1>7, <1>9 DEF Qualifies

----------------------------------------------------------------------------
LEMMA BuildWheelKeeps == ASSUME Reader!ContentsFit, Qualifies, Reader!BuildWheel PROVE Qualifies'
<1>1. /\ Reader!Due("build-wheel") /\ Reader!Ends("build-wheel", 0)
      /\ UNCHANGED <<state, checking, named, report, results, commands, reader>>
      /\ wheel' = qTree["reader"] /\ Reader!WorkOn({"reader"})
  BY DEF Reader!BuildWheel, Reader!Goes
<1>2. Count = 5 /\ state = "running" /\ checking = None
  BY <1>1, DueAt DEF Qualifies
<1>3. /\ Typed' /\ Ordered' /\ Written' /\ Count' = 6
      /\ UNCHANGED <<qHead, qTree, cleaned, selected>>
  BY <1>1, <1>2, StepEnds
<1>4. ASSUME Evidence, qHead = named, Reader!Clean PROVE Evidence'
  <2>1. /\ worked' \subseteq [part : Reader!Parts, content : {named'}]
        /\ \A part : Has(part) \/ part \in {"reader"} => Has(part)'
    BY <1>1, <1>4, WorkIsOfHead DEF Evidence, Reader!Parts
  <2>2. wheel' = named
    BY <1>1, <1>4 DEF Reader!Clean, Reader!At, Reader!Parts
  <2> QED BY <1>1, <1>2, <1>3, <1>4, <2>1, <2>2 DEF Evidence, Reader!ContentsFit
<1>5. Lasting'
  BY <1>1, <1>2, <1>3, <1>4, LastingKept
<1> QED BY <1>3, <1>5 DEF Qualifies

LEMMA InstallWheelKeeps == ASSUME Reader!ContentsFit, Qualifies,
Reader!InstallWheel PROVE Qualifies'
<1>1. /\ Reader!Due("install-wheel") /\ Reader!Ends("install-wheel", 0)
      /\ UNCHANGED <<state, checking, named, worked, report, results, commands, wheel>>
      /\ reader' = wheel
  BY DEF Reader!InstallWheel, Reader!Goes, Reader!evidence
<1>2. Count = 6 /\ state = "running" /\ checking = None
  BY <1>1, DueAt DEF Qualifies
<1>3. /\ Typed' /\ Ordered' /\ Written' /\ Count' = 7
      /\ UNCHANGED <<qHead, qTree, cleaned, selected>>
  BY <1>1, <1>2, StepEnds
<1>4. Evidence => Evidence'
  BY <1>1, <1>2, <1>3 DEF Evidence, Has, Reader!ContentsFit
<1>5. Lasting'
  BY <1>1, <1>2, <1>3, <1>4, LastingKept
<1> QED BY <1>3, <1>5 DEF Qualifies

LEMMA InstalledSourceKeeps == ASSUME Reader!ContentsFit, Qualifies,
Reader!InstalledSource PROVE Qualifies'
<1>1. /\ Reader!Due("installed-source") /\ Reader!Ends("installed-source", 0)
      /\ UNCHANGED <<checking, named, worked, report, results, commands, wheel, reader>>
  BY DEF Reader!InstalledSource, Reader!Goes, Reader!Raises, Reader!evidence, Reader!built
<1>2. Count = 7 /\ state = "running" /\ checking = None
  BY <1>1, DueAt DEF Qualifies
<1>3. /\ Typed' /\ Ordered' /\ Written' /\ Count' = 8
      /\ UNCHANGED <<qHead, qTree, cleaned, selected>>
  BY <1>1, <1>2, StepEnds
<1>4. Evidence => Evidence'
  BY <1>1, <1>2, <1>3 DEF Evidence, Has, Reader!ContentsFit
<1>5. Lasting'
  BY <1>1, <1>2, <1>3, <1>4, LastingKept
<1> QED BY <1>3, <1>5 DEF Qualifies

(* The last git status: the run goes on only from a clean checkout.          *)
LEMMA SourceStatusAfterKeeps == ASSUME Reader!ContentsFit, Qualifies,
Reader!SourceStatusAfter PROVE Qualifies'
<1>1. /\ Reader!Due("source-status-after") /\ Reader!Ends("source-status-after", 0)
      /\ UNCHANGED <<checking, named, worked, report, results, commands, wheel, reader>>
      /\ ~Reader!Clean => state' = "raised"
  BY DEF Reader!SourceStatusAfter, Reader!Goes, Reader!Raises, Reader!evidence, Reader!built
<1>2. Count = 10 /\ state = "running" /\ checking = None
  BY <1>1, DueAt DEF Qualifies
<1>3. /\ Typed' /\ Ordered' /\ Written' /\ Count' = 11
      /\ UNCHANGED <<qHead, qTree, cleaned, selected>>
  BY <1>1, <1>2, StepEnds
<1>4. Evidence => Evidence'
  BY <1>1, <1>2, <1>3 DEF Evidence, Has, Reader!ContentsFit
<1>5. Lasting'
  <2>1. CASE Reader!Clean
    BY <1>1, <1>2, <1>3, <1>4, <2>1, LastingKept
  <2>2. CASE ~Reader!Clean
    BY <1>1, <2>2 DEF Lasting, Live
  <2> QED BY <2>1, <2>2
<1> QED BY <1>3, <1>5 DEF Qualifies

(* All that the results say is what the ledger and the evidence say.         *)
LEMMA ResultsKeeps == ASSUME Reader!ContentsFit, Qualifies, Reader!Results PROVE Qualifies'
<1>1. /\ UNCHANGED <<qHead, qTree, cleaned, state, selected, checking, ledger, named, worked,
                     report, commands, wheel, reader>>
      /\ state = "running" /\ results' = [selection |-> qTree["records"], wheel |-> wheel,
                                         steps |-> ledger]
  BY DEF Reader!Results, Reader!checkout, Reader!progress, Reader!built
<1>2. Count = 11 /\ Count' = 11
  <2>1. Len(ledger) = Len(Reader!Captured) /\ UNCHANGED ledger
    BY DEF Reader!Results, Reader!progress
  <2>2. Len(ledger) = 11
    BY <2>1, CapturedFacts
  <2> QED BY <2>1, <2>2 DEF Count
<1>3. Typed' /\ Ordered' /\ Lasting'
  BY <1>1, <1>2 DEF Qualifies, Typed, Ordered, Lasting, Live, Evidence, Has, Reader!Clean, Passed
<1>4. results'.steps = [i \in DOMAIN Reader!Captured |-> [name |-> Reader!Captured[i],
   exit |-> 0]]
  <2>1. DOMAIN ledger = 1..11 /\ ledger = [i \in DOMAIN ledger |-> ledger[i]]
    BY <1>2 DEF Qualifies, Typed, Count
  <2>2. \A i \in 1..11 : ledger[i] = [name |-> Reader!Captured[i], exit |-> 0]
    BY <1>1, <1>2 DEF Qualifies, Ordered, Live, Passed
  <2>3. results'.steps = ledger
    BY <1>1
  <2> QED BY <2>1, <2>2, <2>3, CapturedFacts
<1>5. ASSUME ~cleaned'
      PROVE  /\ worked' = [part : Reader!Parts, content : {named'}]
             /\ commands' = [admission |-> [crate |-> named', go |-> named'], binary |-> named']
             /\ reader' = named' /\ results'.wheel = named'
             /\ report' = [commit |-> named', clean |-> TRUE]
  <2>1. Evidence /\ selected
    BY <1>1, <1>2, <1>5 DEF Qualifies, Lasting, Ordered, Live
  <2>2. \A part \in Reader!Parts : [part |-> part, content |-> named] \in worked
    BY <1>2, <2>1 DEF Evidence, Has, Reader!Parts
  <2>3. worked = [part : Reader!Parts, content : {named}]
    <3>1. \A w \in [part : Reader!Parts, content : {named}] :
            w = [part |-> w.part, content |-> named] /\ w.part \in Reader!Parts
      OBVIOUS
    <3>2. worked \subseteq [part : Reader!Parts, content : {named}]
      BY <2>1 DEF Evidence
    <3> QED BY <2>2, <3>1, <3>2
  <2> QED BY <1>1, <1>2, <2>1, <2>3 DEF Evidence
<1>6. Written'
  BY <1>1, <1>2, <1>4, <1>5 DEF Written, Reader!ResultsAreOfHead
<1> QED BY <1>3, <1>6 DEF Qualifies

(* A step that has failed is the last.                                       *)
LEMMA FailureKeeps == ASSUME Reader!ContentsFit, Qualifies,
Reader!StepFails \/ Reader!CheckFails PROVE Qualifies'
<1>1. PICK name \in Reader!Names :
        /\ Reader!Ends(name, 1) /\ state' = "raised" /\ results' = results
        /\ state = "running" /\ Count \in 0..10
  <2>1. CASE Reader!StepFails
    BY <2>1, DueAt DEF Reader!StepFails, Reader!Raises, Reader!evidence, Qualifies
  <2>2. CASE Reader!CheckFails
    <3>1. Count = 4
      BY <2>2 DEF Reader!CheckFails, Qualifies, Ordered, Live
    <3>2. "go-corpus" \in Reader!Names
      BY CapturedFacts DEF Reader!Names
    <3> QED BY <2>2, <3>1, <3>2 DEF Reader!CheckFails, Reader!evidence
  <2> QED BY <2>1, <2>2
<1>2. ledger' \in Seq(Rows)
  <2>1. [name |-> name, exit |-> 1] \in Rows
    BY DEF Rows
  <2> QED BY <1>1, <2>1 DEF Reader!Ends, Qualifies, Typed
<1>3. Typed'
  BY <1>1, <1>2 DEF Reader!Ends, Reader!checkout, Qualifies, Typed
<1>4. Written'
  <2>1. Count # 11
    BY <1>1
  <2> QED BY <1>1, <2>1, NotYetWritten, WrittenKept DEF Live
<1> QED BY <1>1, <1>3, <1>4 DEF Qualifies, Ordered, Lasting, Live

(* The steps that say nothing: begin and end.                                *)
LEMMA RestKeeps ==
    ASSUME Qualifies,
    Reader!Begin \/ Reader!Artifacts \/ Reader!Killed \/ UNCHANGED Reader!vars PROVE Qualifies'
<1>1. /\ UNCHANGED <<qHead, qTree, cleaned, selected, checking, ledger, named, worked, report,
                     results, commands, wheel, reader>>
      /\ state' \in {"new", "running"} => state \in {"new", "running"}
      /\ state # "new" => state' # "new"
      /\ Count' = Count
  BY DEF Reader!Begin, Reader!Artifacts, Reader!Killed, Reader!vars, Reader!checkout,
     Reader!progress, Reader!evidence, Reader!built, Count
<1>2. Typed'
  BY <1>1 DEF Qualifies, Typed
<1>3. Ordered'
  BY <1>1 DEF Qualifies, Ordered, Live, Passed
<1>4. Lasting'
  BY <1>1 DEF Qualifies, Lasting, Live, Evidence, Has, Reader!Clean
<1>5. Written'
  BY <1>1 DEF Qualifies, Written, Reader!ResultsAreOfHead
<1> QED BY <1>2, <1>3, <1>4, <1>5 DEF Qualifies

LEMMA EvidenceNext == Reader!ContentsFit /\ Qualifies /\ [Reader!Next]_(Reader!vars) => Qualifies'
BY ChangeKeeps, RestKeeps, FailureKeeps, SourceHeadKeeps, SourceStatusKeeps, TestKeeps,
   SelectKeeps, VerifyFilesKeeps, BuildAdmissionKeeps, BuildBinaryKeeps, QualifyKeeps,
   ReportKeeps, BuildWheelKeeps, InstallWheelKeeps, InstalledSourceKeeps,
   SourceStatusAfterKeeps, ResultsKeeps
   DEF Reader!Next

(* A behaviour that is not of the reader leaves its state as NoReader has it.  *)
Evident == NoReader \/ Qualifies

(* However often and whenever the checkout changes while the steps run, the    *)
(* results are of the commit that source-head printed, unless it was made      *)
(* clean again in between (qualify.py, main).                                  *)
THEOREM ResultsNameTheirCommit == AnySpec => []ResultsAreOfHead
<1>1. AnyInit => Evident
  BY EvidenceInit, ContentsAssumption DEF AnyInit, Evident
<1>2. Evident /\ [AnyNext]_<<vars, pythonVars, readerVars>> => Evident'
  <2> SUFFICES ASSUME Evident, [AnyNext]_<<vars, pythonVars, readerVars>> PROVE Evident'
    OBVIOUS
  <2>1. CASE UNCHANGED readerVars
    <3>1. CASE NoReader
      BY <2>1, <3>1 DEF readerVars, NoReader, Evident
    <3>2. CASE Qualifies
      <4>1. UNCHANGED Reader!vars
        BY <2>1 DEF readerVars, Reader!vars, Reader!checkout, Reader!progress,
                    Reader!evidence, Reader!built
      <4> QED BY <3>2, <4>1, ContentsAssumption, EvidenceNext DEF Evident
    <3> QED BY <3>1, <3>2 DEF Evident
  <2>2. CASE qHead # None /\ Reader!Next
    <3>1. Qualifies
      BY <2>2 DEF Evident, NoReader
    <3> QED BY <2>2, <3>1, ContentsAssumption, EvidenceNext DEF Evident
  <2> QED BY <2>1, <2>2 DEF AnyNext
<1>3. Evident => ResultsAreOfHead
  BY DEF Evident, NoReader, ResultsAreOfHead, Reader!ResultsAreOfHead, Qualifies, Written
<1> QED BY <1>1, <1>2, <1>3, PTL DEF AnySpec
=============================================================================
