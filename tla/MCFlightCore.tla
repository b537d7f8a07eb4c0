------------------------------ MODULE MCFlightCore ------------------------------
(***************************************************************************)
(* Instances of FlightCore for TLC.                                        *)
(***************************************************************************)
EXTENDS FlightCore

CONSTANTS hover, racing

MCProfiles == {hover, racing}

Cmd(msg, id) == [msg |-> msg, id |-> id]

\* Every kind of command.
AllCommands == Commands

\* A profile and a reset, for the liveness runs.
FewCommands == {Cmd("set_profile", hover), Cmd("system_reset", NoProfile)}

OneProfile == {Cmd("set_profile", hover)}

================================================================================
