---------------------------- MODULE MCRetention ----------------------------
(* Instances of Retention for TLC: three detections, which show a frame     *)
(* each or of which the first two come from one frame.                      *)
EXTENDS Retention, TLC

CONSTANTS e1, e2, e3, f1, f2, f3

OwnFrames == e1 :> f1 @@ e2 :> f2 @@ e3 :> f3
SharedFrame == e1 :> f1 @@ e2 :> f1 @@ e3 :> f2
=============================================================================
