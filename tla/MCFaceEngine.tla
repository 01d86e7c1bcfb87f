---------------------------- MODULE MCFaceEngine ----------------------------
(* Instances of FaceEngine for TLC.                                         *)
EXTENDS FaceEngine
=============================================================================
