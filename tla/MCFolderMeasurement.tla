------------------------ MODULE MCFolderMeasurement ------------------------
(* Small instances of FolderMeasurement for TLC. *)
EXTENDS FolderMeasurement

\* `a`, `a/b`, `a\b` and `b`; outside the root a directory with a file `b`.
A == << <<1>> >>
AB == << <<1>>, <<2>> >>
ABackslashB == << <<1, 2>> >>
B == << <<2>> >>
OutB == <<Outside, <<2>> >>

MCPaths == {A, AB, ABackslashB, B}
MCOutsidePaths == {<<Outside>>, OutB}
MCContents == {0, 1, 2}
MCNodes == {Absent, Dir, Special, File(1), File(2), Link(B), Link(OutB), Link(<<Outside>>)}
=============================================================================
