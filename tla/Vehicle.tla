-------------------------------- MODULE Vehicle --------------------------------
(****************************************************************************)
(* The vehicle as its operator sees it, through the frames alone: each      *)
(* frame that announces a change is one step with the change it announces.  *)
(* Two things happen without a frame: the sensor is lost in flight, and the *)
(* vehicle restarts.                                                        *)
(*                                                                          *)
(* In the code an acknowledgement, a report and the stores they speak of    *)
(* are steps of their own, interleaved with those of the other core;        *)
(* FlightCore is shown to implement this.                                   *)
(****************************************************************************)
EXTENDS FlightTypes

VARIABLES
    mode,      \* "off", "awaiting", "testing", "failed", "running" or "lost"
    chosen,    \* the profile it was told to fly
    told       \* the kind of the last frame

modeVars == <<mode, chosen, told>>

Init == mode = "off" /\ chosen = NoProfile /\ told = "nothing"

Boot ==
    /\ mode = "off" /\ told = "nothing"
    /\ mode' = "awaiting"
    /\ UNCHANGED <<chosen, told>>

\* A frame that changes nothing, in one of the modes it belongs to.
Tell(frame, modes) ==
    /\ mode \in modes
    /\ told' = frame
    /\ UNCHANGED <<mode, chosen>>

\* A frame that comes with a change of mode.
Announce(frame, from, to) ==
    /\ mode = from
    /\ mode' = to
    /\ told' = frame

Accept(p) == Announce("accepted", "awaiting", "testing") /\ chosen' = p

Conclude ==
    /\ Announce("passed", "testing", "running") \/ Announce("failed", "testing", "failed")
    /\ UNCHANGED chosen

Lose ==
    /\ mode = "running"
    /\ mode' = "lost"
    /\ UNCHANGED <<chosen, told>>

AckReset ==
    /\ mode # "off"
    /\ mode' = "off" /\ chosen' = NoProfile /\ told' = "resetting"

Restart == mode' = "off" /\ chosen' = NoProfile /\ told' = "nothing"

Next ==
    \/ Boot
    \/ Tell("heartbeat", {"awaiting"})
    \/ Tell("rejected", {"awaiting", "testing", "failed", "running", "lost"})
    \/ Tell("progress", {"testing"})
    \/ Tell("telemetry", {"running", "lost"})
    \/ \E p \in Profiles : Accept(p)
    \/ Conclude
    \/ Lose
    \/ AckReset
    \/ Restart

Spec == Init /\ [][Next]_modeVars

================================================================================
