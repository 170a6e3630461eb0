------------------------------ MODULE MCRunner ------------------------------
(* Small instances of Runner for TLC. *)
EXTENDS Runner, TLC

CONSTANTS v1, v2

MCOne   == {v1}
MCTwo   == {v1, v2}
MCBuild == {v2}
MCNone  == {}
=============================================================================
