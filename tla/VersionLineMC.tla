--------------------------- MODULE VersionLineMC ---------------------------
(* Model values for the version line. *)
EXTENDS VersionLine, TLC

\* Users, files and requests are interchangeable.
Symmetry == Permutations(Users) \cup Permutations(Files) \cup Permutations(Requests)
=============================================================================
