----------------------------- MODULE MCDataCache -----------------------------
(* Three clients whose objects do not all fit into the heap together.      *)
EXTENDS DataCache

MCSizeOf == [road |-> 2, car |-> 3, skin |-> 2]
==============================================================================
