------------------------------ MODULE MCGroundLink ------------------------------
(****************************************************************************)
(* Instances of GroundLink for TLC: two profiles, the one the station shows *)
(* before it knows and another.                                             *)
(****************************************************************************)
EXTENDS GroundLink

CONSTANTS hover, racing

MCProfiles == {hover, racing}

\* Other stations send every kind of command.
MCOthersCommands == Commands

================================================================================
