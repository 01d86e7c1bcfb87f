------------------------------ MODULE MCStartup ------------------------------
(* Instances of Startup for TLC.                                            *)
EXTENDS Startup

MCLeftovers == {<<>>, <<"k1">>, <<"k1", "k1">>}
MCEarlier == {[roles |-> "absent", gap |-> {"rakesh"}], [roles |-> "old", gap |-> {}]}
MCLacksTag == {[roles |-> "old", gap |-> {"rakesh"}]}
MCDoubled == {<<"k1", "k1">>}
=============================================================================
