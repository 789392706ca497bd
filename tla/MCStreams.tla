----------------------------- MODULE MCStreams ------------------------------
(* An archive of a header and two members, the first read without a buffer *)
(* (getmesh.cpp, vehinfo.cpp and texsheet.cpp open theirs so) and the      *)
(* second through one smaller than the base's; and a file of two kinds of  *)
(* bytes, written in pieces shorter than its buffer, equal and longer.     *)
EXTENDS Streams, TLC

MCCapacity   == (0 :> 3) @@ (1 :> 0) @@ (2 :> 2)
MCArchive    == <<1, 2, 1, 3, 2, 4, 5, 2, 6>>
MCOffset     == (1 :> 2) @@ (2 :> 5)
MCMemberSize == (1 :> 3) @@ (2 :> 4)
MCPieces     == {<<1>>, <<2>>, <<2, 1>>, <<1, 2, 1>>, <<2, 2, 1, 1>>}
=============================================================================
