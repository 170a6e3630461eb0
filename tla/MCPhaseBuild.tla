---------------------------- MODULE MCPhaseBuild ----------------------------
(* Small instances of PhaseBuild for TLC. *)
EXTENDS PhaseBuild, TLC

CONSTANTS c1, c2

MCCommits  == {c1, c2}
MCBootable == {c1}
=============================================================================
