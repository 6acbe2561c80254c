---------------------------- MODULE MC_FrameCodec ----------------------------
(* Bounded instance of the frame codec: one well-formed and one malformed  *)
(* inner payload, and 2-bit request ids, so that 0, small and the largest  *)
(* id all occur.                                                           *)
EXTENDS FrameCodec, TLC

CONSTANTS p1, bad

MC_Payloads == {p1, bad}
MC_IdWidth == 2
=============================================================================
