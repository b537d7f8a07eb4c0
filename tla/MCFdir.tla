--------------------------------- MODULE MCFdir ---------------------------------
(****************************************************************************)
(* Instances of Fdir for TLC: two readings FDIR likes, and one of each kind *)
(* it does not.                                                             *)
(****************************************************************************)
EXTENDS Fdir

CONSTANTS still, turning, spinning, thrust, falling

MCReadings == {still, turning, spinning, thrust, falling}
MCOverrange == {spinning}
MCHighG     == {thrust}
MCFreeFall  == {falling}

\* A sensor that may freeze.
TwoReadings == {still, turning}

================================================================================
