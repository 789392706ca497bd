----------------------------- MODULE MCBangers -----------------------------
\* Three props: one without parts, one that stays a permanent mover, and one of
\* two parts; two rooms, of which the second has the first as a neighbour.
EXTENDS Bangers, TLC

CONSTANTS post, sign, crate

MCNear == <<<<>>, <<1>>>>
MCHome == (post :> 2) @@ (sign :> 1) @@ (crate :> 1)
MCKind == (post :> "temp") @@ (sign :> "own") @@ (crate :> "temp")
MCParts == (post :> <<>>) @@ (sign :> <<"temp">>) @@ (crate :> <<"own", "perm">>)
=============================================================================
