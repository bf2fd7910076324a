-------------------------- MODULE MCPythonRelease --------------------------
(***************************************************************************)
(* PythonRelease with two versions and four machines instead of seven: one  *)
(* family of one wheel that is the publishing machine's, another, and the   *)
(* two of macOS, whose older and newer tags share the family's name.        *)
(***************************************************************************)
EXTENDS PythonRelease

MCName == "jcs-admit"
MCVersions == {"v1", "v2"}

MCPlatforms == [manylinux |-> {"manylinux"}, win_amd64 |-> {"win"},
                macosx_ |-> {"macosx_10_x86_64", "macosx_11_x86_64", "macosx_11_arm64"}]
MCMachines == {{"manylinux"}, {"win"}, {"macosx_10_x86_64", "macosx_11_x86_64"},
               {"macosx_11_arm64"}}

Says(v) == [name |-> MCName, version |-> v]
Wheel(v, tags) == [kind |-> "wheel", of |-> v, abi |-> TRUE, tags |-> tags, metadata |-> Says(v)]
Sdist(v) == [kind |-> "sdist", of |-> v, abi |-> FALSE, tags |-> {}, metadata |-> Says(v)]

Complete(v) == {Sdist(v), Wheel(v, {"manylinux"}), Wheel(v, {"win"}),
                Wheel(v, {"macosx_10_x86_64"}), Wheel(v, {"macosx_11_arm64"})}
Swapped(v, tags, f) == (Complete(v) \ {Wheel(v, tags)}) \cup {f}

(* Complete sets, a file less, a file more, another version or name inside, no *)
(* metadata, a wheel for one Python only, two wheels for one macOS machine, a   *)
(* wheel that two families find.                                               *)
MCDists ==
    {Complete(v) : v \in MCVersions}
    \cup {Complete("v1") \ {Wheel("v1", {"win"})},
          Complete("v1") \cup {[Sdist("v1") EXCEPT !.kind = "other"]},
          Complete("v1") \cup {Wheel("v2", {"win"})},
          Swapped("v1", {"win"}, [Wheel("v1", {"win"}) EXCEPT !.metadata = Says("v2")]),
          (Complete("v1") \ {Sdist("v1")}) \cup {[Sdist("v1") EXCEPT !.metadata.name = "other"]},
          Swapped("v1", {"win"}, [Wheel("v1", {"win"}) EXCEPT !.metadata = None]),
          Swapped("v1", {"win"}, [Wheel("v1", {"win"}) EXCEPT !.abi = FALSE]),
          Swapped("v1", {"macosx_11_arm64"}, Wheel("v1", {"macosx_11_x86_64"})),
          Swapped("v1", {"win"}, Wheel("v1", {"manylinux", "win"}))
            \ {Wheel("v1", {"manylinux"})}}
============================================================================
