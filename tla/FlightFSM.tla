------------------------------- MODULE FlightFSM -------------------------------
(***************************************************************************)
(* What the flight software promises about the two variables every part of *)
(* it shares, g_system_state and g_active_profile, whatever task writes    *)
(* them:                                                                   *)
(*   - the system state only moves along FlightFSM::is_transition_valid;   *)
(*   - a profile is fixed once, while the system awaits one, and is then   *)
(*     immutable ("inmutabilidad en vuelo");                               *)
(*   - the self test is not entered without a profile;                     *)
(*   - nothing but a restart leads out of HARD_FAULT_LOCK or frees the     *)
(*     profile.                                                            *)
(* In the code the table is consulted at one of the six places that write  *)
(* the state; FlightCore is shown to implement this specification.         *)
(***************************************************************************)
EXTENDS FlightTypes

VARIABLES
    sysState,    \* g_system_state
    profile      \* g_active_profile

fsmVars == <<sysState, profile>>

Init ==
    /\ sysState = "UNINITIALIZED"
    /\ profile = NoProfile

FixProfile(p) ==
    /\ sysState = "AWAITING_PROFILE"
    /\ profile = NoProfile
    /\ profile' = p
    /\ UNCHANGED sysState

Advance(next) ==
    /\ <<sysState, next>> \in ValidTransition
    /\ next = "BIST_AND_CALIBRATION" => profile # NoProfile
    /\ sysState' = next
    /\ UNCHANGED profile

Restart ==
    /\ sysState' = "UNINITIALIZED"
    /\ profile' = NoProfile

Next ==
    \/ \E p \in Profiles : FixProfile(p)
    \/ \E next \in SystemStates : Advance(next)
    \/ Restart

Spec == Init /\ [][Next]_fsmVars

================================================================================
