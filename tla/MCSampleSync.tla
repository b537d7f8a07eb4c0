------------------------------ MODULE MCSampleSync ------------------------------
(****************************************************************************)
(* Instances of SampleSync for TLC.  With four ticks to the period, the     *)
(* timer runs for six.  DRONE_HOVER's period of 5 ms makes a tick 1.25 ms:  *)
(* 16 of them are the 20 ms of the wait, one is more than a burst read of   *)
(* 14 bytes takes at 400 kHz, and four are more than the 4 ms of a failure. *)
(****************************************************************************)
EXTENDS SampleSync

HoverPeriod  == 4
HoverTimeout == 16

================================================================================
