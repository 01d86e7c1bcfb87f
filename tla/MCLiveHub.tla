----------------------------- MODULE MCLiveHub -----------------------------
(* Instances of LiveHub for TLC: a coordinator of d1, whose socket is c1,   *)
(* and an investigator without a home department, whose socket is c2.       *)
EXTENDS LiveHub, TLC

CONSTANTS coordinator, investigator, d1, d2, c1, c2, a1, a2

HomeOf == coordinator :> d1 @@ investigator :> None
OwnerOf == c1 :> coordinator @@ c2 :> investigator
OwnAlert == a1 :> d1
ForeignAlert == a2 :> d2
=============================================================================
