----------------------------- MODULE MCReleases -----------------------------
(***************************************************************************)
(* Commits, versions, files and toolchains for checking Releases.  Of npm:  *)
(* two commits of one version, one of them on main; two changes of the tree *)
(* are enough to edit a file and put it back, and no definition tells the   *)
(* compilers apart.                                                         *)
(***************************************************************************)
EXTENDS Releases, TLC

CONSTANTS onMain, onBranch, v1, v2

MCCommits == {onMain, onBranch}
MCMain == {onMain}
MCTags == {v1, v2}
MCVersion == [c \in MCCommits |-> v1]

CompilerSymmetry == Permutations(Compilers)

Given == INSTANCE MCPythonRelease
           WITH dist <- files, published <- indexed, NAME <- "", Versions <- {},
                PLATFORMS <- <<>>, Machines <- {}, Dists <- {}
MCName == Given!MCName
MCVersions == Given!MCVersions
MCPlatforms == Given!MCPlatforms
MCMachines == Given!MCMachines
MCDists == Given!MCDists
=============================================================================
