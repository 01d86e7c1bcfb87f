--------------------------- MODULE MCStreamSampler ---------------------------
(* Instances of StreamSampler for TLC.  Every counter is bounded by a       *)
(* guard of the specification; the loops never stop.                        *)
EXTENDS StreamSampler
=============================================================================
