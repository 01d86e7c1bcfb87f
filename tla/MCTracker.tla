------------------------------ MODULE MCTracker ------------------------------
(* Instances of Tracker for TLC.                                            *)
EXTENDS Tracker

MCPlaces == 0..4
MCFootpath == {3}
MCCrowd == <<3, 2, 1, 1>>
=============================================================================
