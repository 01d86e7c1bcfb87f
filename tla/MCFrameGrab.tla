----------------------------- MODULE MCFrameGrab -----------------------------
(* Instances of FrameGrab for TLC.                                          *)
EXTENDS FrameGrab
=============================================================================
