------------------------------ MODULE MCFrameLine ------------------------------
(***************************************************************************)
(* Instances of FrameLine for TLC.                                         *)
(***************************************************************************)
EXTENDS FrameLine

\* The two profiles whose frames are most easily taken for one another, and the reset.
MCMessages == {SetProfile(1), SetProfile(4), SystemReset}

\* What a disturbed line yields: the bytes of the five commands' frames, the preamble among
\* them, lengths at the limit and beyond, and the two bytes that count alike in the
\* checksum.
MCNoise == UNION {{Wire(m)[i] : i \in 1..Len(Wire(m))} : m \in StationCommands}
           \union {MaxPayload, MaxPayload + 1, 0, 255}

================================================================================
