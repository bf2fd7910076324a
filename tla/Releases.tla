------------------------------ MODULE Releases ------------------------------
(***************************************************************************)
(* What leaves the repository under the name of a commit or a tag: the npm   *)
(* package (NpmRelease), the Python files (PythonRelease) and the report of  *)
(* the reader's qualification (Qualification).  The three share no state,    *)
(* and a behaviour is of one of them.                                        *)
(***************************************************************************)
EXTENDS NpmRelease, Sequences

CONSTANTS NAME, Versions, PLATFORMS, Mac, Machines, Host, Dists, Killings, Changes

VARIABLES version, files, out, staging, killed, indexed,
          qHead, qTree, changes, cleaned, state, selected, checking, ledger,
          named, worked, commands, wheel, reader, report, results

Python == INSTANCE PythonRelease WITH dist <- files, published <- indexed
Reader == INSTANCE Qualification WITH head <- qHead, tree <- qTree

ASSUME FamiliesAssumption == Python!FamiliesFit
ASSUME ContentsAssumption == Reader!ContentsFit

pythonVars == <<version, files, out, staging, killed, indexed>>
readerVars == <<qHead, qTree, changes, cleaned, state, selected, checking, ledger,
                named, worked, commands, wheel, reader, report, results>>

NoNpm == /\ run = None /\ head = None /\ tree = None /\ mishaps = 0 /\ builds = 0
         /\ building = None /\ dist = Empty /\ qualifying = None
         /\ receipts = [tarball |-> None, report |-> None]
         /\ retained = None /\ published = {} /\ tested = {}
NoPython == /\ version = None /\ files = {} /\ out = {} /\ staging = None
            /\ killed = 0 /\ indexed = {}
NoReader == /\ qHead = None /\ qTree = None /\ changes = 0 /\ cleaned = FALSE
            /\ state = "none" /\ selected = FALSE /\ checking = None /\ ledger = <<>>
            /\ named = None /\ worked = {} /\ commands = None /\ wheel = None
            /\ reader = None /\ report = None /\ results = None

AnyInit == \/ Init /\ NoPython /\ NoReader
           \/ Python!Init /\ NoNpm /\ NoReader
           \/ Reader!Init /\ NoNpm /\ NoPython

AnyNext == \/ run # None /\ Next /\ UNCHANGED <<pythonVars, readerVars>>
           \/ version # None /\ Python!Next /\ UNCHANGED <<vars, readerVars>>
           \/ qHead # None /\ Reader!Next /\ UNCHANGED <<vars, pythonVars>>

AnySpec == AnyInit /\ [][AnyNext]_<<vars, pythonVars, readerVars>>

----------------------------------------------------------------------------
(* Whatever a run that was killed has left, and whatever was built since, a    *)
(* file that goes to the index under a tag was read, and carries the name and  *)
(* the version of that tag (check-python-release.py).                          *)
PublishedIsVerified == Python!PublishedIsVerified

(* results.json is about the commit that source-head printed, whatever was     *)
(* done to the checkout and left so while the qualification ran (qualify.py).  *)
ResultsAreOfHead == Reader!ResultsAreOfHead
============================================================================
