------------------------ MODULE MCOrderSubscription ------------------------
(* Small instances of OrderSubscription.                                   *)
EXTENDS OrderSubscriptionProperties

CONSTANTS o1, o2, x, y

\* One order appears; it leaves and another appears.
MCUnits == <<[put |-> {o1}, removed |-> {}], [put |-> {o2}, removed |-> {o1}]>>
\* The second order's symbol is new to the catalog.
MCListings == {{o1}, {o1, o2}}
==============================================================================
