------------------------------ MODULE MCPaging ------------------------------
(* Two or three objects that do not all fit into the heap together.  A     *)
(* program that an assertion has ended stutters.                           *)
EXTENDS Paging

MCSizeOf == [c \in Clients |-> IF c = "car" THEN 3 ELSE 2]

Ended      == mpc = "quit" /\ UNCHANGED allVars
MCNext     == PagingNext \/ Ended
MCSpec     == PagingInit /\ [][MCNext]_allVars
MCFairSpec == MCSpec /\ PagingFairness
=============================================================================
