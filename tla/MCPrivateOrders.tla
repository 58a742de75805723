--------------------------- MODULE MCPrivateOrders ---------------------------
(* Small instances of PrivateOrders.                                       *)
EXTENDS PrivateOrdersProperties, TLC

CONSTANTS o1, o2

\* Two orders appear and one leaves.
MCUnits == <<[put |-> {o1}, removed |-> {}], [put |-> {o2}, removed |-> {}],
             [put |-> {}, removed |-> {o1}]>>
MCUnit  == <<[put |-> {o1}, removed |-> {}]>>

Symmetry == Permutations(Streams) \cup Permutations(Consumers) \cup Permutations(Channels)

==============================================================================
