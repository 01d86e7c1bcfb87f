------------------------------- MODULE MCTrail -------------------------------
(* Instances of Trail for TLC.                                              *)
EXTENDS Trail

MCEpochs == 0..1
MCOneEpoch == {0}
MCTimes == 0..3
MCSlots == {1, 2}
MCOneSlot == {1}
=============================================================================
