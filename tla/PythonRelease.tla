--------------------------- MODULE PythonRelease ---------------------------
(***************************************************************************)
(* The way of the Python files to the index: scripts/check-python-release.py *)
(* and the publish job of python-release.yml that runs it.  The files that   *)
(* python.yml built are compared with the population expected of a release,  *)
(* their metadata with the project, and only then are they laid out, one by  *)
(* one, in the directory the job uploads from.                               *)
(*                                                                          *)
(* Of a file the model keeps what its name says (kind, version, the stable   *)
(* ABI, the platform tags) and what its metadata says; the directories may   *)
(* be left over from an earlier run that was killed or that refused.         *)
(***************************************************************************)
EXTENDS Naturals, FiniteSets

CONSTANTS
    Versions,    \* versions of the project, and of tags
    NAME,        \* the project's name
    PLATFORMS,   \* the tags of wheels that have each family's name in their own
    Mac,         \* the family of which there are two
    Machines,    \* the tags that serve each machine python.yml builds a wheel for
    Host,        \* the tag of the machine the job runs on
    Dists,       \* what DIST may hold: sets of files
    None,
    Killings     \* bound: how often a run may be killed

FamiliesFit == Mac \in DOMAIN PLATFORMS /\ Killings \in Nat

VARIABLES
    version,    \* in python/pyproject.toml
    dist,       \* the directory of the built files
    out,        \* the upload directory
    staging,    \* the tag and the files still to be copied, or None
    killed,     \* how often a run has been killed
    published   \* what the index has taken, and under which tag

vars == <<version, dist, out, staging, killed, published>>

Init ==
    /\ version \in Versions
    /\ dist \in Dists
    /\ out = {} /\ staging = None /\ killed = 0 /\ published = {}

----------------------------------------------------------------------------
(* plan: the wheels of each family, by the text of their names. *)
Wheels(files) == {f \in files : f.kind = "wheel" /\ f.of = version /\ f.abi}
Hits(files, family) == {f \in Wheels(files) : f.tags \cap PLATFORMS[family] # {}}
Expected(files) == UNION {Hits(files, family) : family \in DOMAIN PLATFORMS}

Plan(files) ==
    /\ \A family \in DOMAIN PLATFORMS :
         Cardinality(Hits(files, family)) = (IF family = Mac THEN 2 ELSE 1)
    /\ \E sdist \in files : /\ sdist.kind = "sdist" /\ sdist.of = version
                            /\ files = Expected(files) \cup {sdist}

\* What the one METADATA or PKG-INFO of a file says; None if there is not one.
Metadata(f) == f.metadata
Described(files) == \A f \in files : Metadata(f) = [name |-> NAME, version |-> version]

\* Mutant: files are laid out beside whatever is there.
CheckIntoAny == \E tag \in Versions :
    /\ staging = None
    /\ staging' = IF tag = version /\ Plan(dist) /\ Described(dist)
                  THEN [tag |-> tag, left |-> dist] ELSE None
    /\ UNCHANGED <<version, dist, out, killed, published>>

\* main up to the first copy.  A refusal leaves everything as it was.
Check == \E tag \in Versions :
    /\ staging = None
    /\ staging' = IF tag = version /\ Plan(dist) /\ Described(dist) /\ out = {}
                  THEN [tag |-> tag, left |-> dist] ELSE None
    /\ UNCHANGED <<version, dist, out, killed, published>>

\* copy2 replaces a file of the same name.
SameName(f, g) == f.kind = g.kind /\ f.of = g.of /\ f.abi = g.abi /\ f.tags = g.tags

\* The files are copied in the order of their names: some fixed order.
Copy ==
    /\ staging # None /\ staging.left # {}
    /\ LET f == CHOOSE g \in staging.left : TRUE
       IN  /\ out' = {g \in out : ~SameName(f, g)} \cup {f}
           /\ staging' = [staging EXCEPT !.left = @ \ {f}]
    /\ UNCHANGED <<version, dist, killed, published>>

----------------------------------------------------------------------------
(* The publish job: the staged files alone must install here, and then what    *)
(* the directory holds goes to the index.                                      *)
Staged == staging # None /\ staging.left = {}

Installs(tag) == \E f \in out : /\ f.kind = "wheel" /\ Host \in f.tags
                                /\ Metadata(f).version = tag

Publish ==
    /\ Staged
    /\ Installs(staging.tag)
    /\ published' = published \cup [tag : {staging.tag}, file : out]
    /\ staging' = None
    /\ UNCHANGED <<version, dist, out, killed>>

Ended ==
    /\ Staged
    /\ staging' = None
    /\ UNCHANGED <<version, dist, out, killed, published>>

Killed ==
    /\ staging # None
    /\ killed < Killings /\ killed' = killed + 1
    /\ staging' = None
    /\ UNCHANGED <<version, dist, out, published>>

----------------------------------------------------------------------------
(* Between runs: another version, other files, a fresh upload directory. *)
Bump == \E v \in Versions \ {version} :
    /\ staging = None
    /\ version' = v
    /\ UNCHANGED <<dist, out, staging, killed, published>>

Rebuild == \E files \in Dists \ {dist} :
    /\ staging = None
    /\ dist' = files
    /\ UNCHANGED <<version, out, staging, killed, published>>

Clear ==
    /\ staging = None /\ out # {}
    /\ out' = {}
    /\ UNCHANGED <<version, dist, staging, killed, published>>

Next == Check \/ Copy \/ Publish \/ Ended \/ Killed \/ Bump \/ Rebuild \/ Clear

Spec == Init /\ [][Next]_vars

----------------------------------------------------------------------------
(* Whatever a run that was killed has left, and whatever was built since, a    *)
(* file that goes to the index under a tag was read, and carries the name and  *)
(* the version of that tag inside and outside                                  *)
(* (check-python-release.py: the metadata; "is not empty").                    *)
PublishedIsVerified ==
    \A p \in published :
        /\ p.file.of = p.tag
        /\ p.file.metadata = [name |-> NAME, version |-> p.tag]

(* What has been laid out for the upload is one wheel for each of the machines *)
(* of python.yml's matrix, and the sdist.                                      *)
StagedIsPopulation ==
    Staged =>
      /\ Cardinality(out) = Cardinality(Machines) + 1
      /\ \A tags \in Machines : Cardinality({f \in out : f.tags \cap tags # {}}) = 1

============================================================================
