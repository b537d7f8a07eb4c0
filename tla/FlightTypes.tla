------------------------------ MODULE FlightTypes ------------------------------
(***************************************************************************)
(* The vocabulary shared by the modules of the flight estimator: flight    *)
(* profiles, system states and the table of legal state transitions.       *)
(***************************************************************************)

CONSTANTS
    Profiles,    \* the flight profiles an operator may select (ids 1..4)
    NoProfile    \* FlightProfileId::UNKNOWN, the id 0

ASSUME ProfilesAssumption == NoProfile \notin Profiles

SystemStates == {"UNINITIALIZED", "AWAITING_PROFILE", "BIST_AND_CALIBRATION",
                 "RUNNING_ESTIMATOR", "HARD_FAULT_LOCK"}

\* FlightFSM::is_transition_valid as the set of pairs it answers true for.
ValidTransition ==
    {<<"UNINITIALIZED",        "AWAITING_PROFILE">>,
     <<"AWAITING_PROFILE",     "BIST_AND_CALIBRATION">>,
     <<"BIST_AND_CALIBRATION", "RUNNING_ESTIMATOR">>}
    \cup (SystemStates \ {"HARD_FAULT_LOCK"}) \X {"HARD_FAULT_LOCK"}

================================================================================
