--------------------------- MODULE MCAlertEngine ----------------------------
(* Small instances of AlertEngine for TLC.                                 *)
EXTENDS AlertEngine, TLC

CONSTANTS c1, c2, w1, a1

Sighting(evt, sq, en, t) ==
  [adapter |-> a1, event |-> evt, seq |-> sq, camera |-> c1, entry |-> en, ts |-> t]

InProcess(en, t) ==
  [adapter |-> Worker, event |-> 0, seq |-> 0, camera |-> c1, entry |-> en, ts |-> t]

(* One frame's detections by an adapter and a worker's own detection of    *)
(* the same target: every delivery contends for one key.                   *)
SameFrame == {Sighting(1, 1, w1, 1), Sighting(2, 2, w1, 1), InProcess(w1, 1)}

(* A retried envelope, a reused sequence number, a later detection that    *)
(* matches nothing, a worker's, and one from an unregistered camera.       *)
Mixed == {Sighting(1, 1, w1, 1), Sighting(2, 1, NoEntry, 2), InProcess(w1, 1),
          [Sighting(3, 3, w1, 1) EXCEPT !.camera = c2]}

(* All of them: any three are delivered.                                  *)
Every == SameFrame \cup Mixed

Symmetric == Permutations(Delivery)
=============================================================================
