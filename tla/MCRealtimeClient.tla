--------------------------- MODULE MCRealtimeClient ---------------------------
(* Small instances of RealtimeClient.                                      *)
EXTENDS RealtimeClientProperties, TLC

Symmetry == Permutations(Consumers) \cup Permutations(Shareds)
==============================================================================
