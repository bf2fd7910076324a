CONSTANTS
    onMain = onMain
    onBranch = onBranch
    v1 = v1
    v2 = v2
    None = None
    Edited = Edited
    Commits <- MCCommits
    Main <- MCMain
    Tags <- MCTags
    Version <- MCVersion
    Compilers = {r1, r2}
    Mishaps = 2
    Builds = 2
    NAME <- MCName
    Versions <- MCVersions
    PLATFORMS <- MCPlatforms
    Mac = "macosx_"
    Machines <- MCMachines
    Host = "manylinux"
    Dists <- MCDists
    Killings = 2
    Changes = 2
SPECIFICATION AnySpec
INVARIANTS
    PublishedIsQualified
    PublishedIsOfCommit
    PublishedIsVerified
    ResultsAreOfHead
    OutputIsOneBuild
SYMMETRY CompilerSymmetry
CHECK_DEADLOCK FALSE
