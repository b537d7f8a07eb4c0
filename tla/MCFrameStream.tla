----------------------------- MODULE MCFrameStream -----------------------------
(***************************************************************************)
(* An instance of FrameStream for TLC.  The alphabet has the preamble, a   *)
(* length the buffer holds, two it does not (the preamble bytes), and what *)
(* a frame with the right checksum takes.                                  *)
(***************************************************************************)
EXTENDS FrameStream

MCAlphabet == {170, 85, 1, 172}

================================================================================
