------------------------ MODULE MCPrivateOrdersFeed ------------------------
(* PrivateOrders with a record of positions, and its refinement of OrderFeed. *)
(* A view does not tell its position (an order that was put and removed leaves *)
(* no trace), so the position of the orders a stream holds is recorded beside  *)
(* it, and so is the position of the view a consumer was given last.           *)
EXTENDS MCPrivateOrders

VARIABLES held,   \* the position of each stream's orders, also when it lost its cursor
          at      \* the position each consumer was shown

feedVars == <<vars, held, at>>

FeedInit == /\ Init
            /\ held = [s \in Streams |-> NoCursor]
            /\ at = [c \in Consumers |-> NoCursor]

Record ==
    /\ held' = [s \in Streams |-> IF stream'[s].cursor = NoCursor THEN held[s] ELSE stream'[s].cursor]
    /\ at' = [c \in Consumers |-> IF consumer'[c].view = consumer[c].view THEN at[c]
                                  ELSE held[consumer[c].s]]

FeedSpec     == FeedInit /\ [][Next /\ Record]_feedVars
FairFeedSpec == FeedSpec /\ Fairness

-----------------------------------------------------------------------------

Untrue == -2      \* not a position

\* What each consumer was told, as a feed of the account it joined.
ConsumerFeed == [c \in Consumers |->
    [channel |-> IF consumer[c].s = NoStream THEN NoChannel ELSE stream[consumer[c].s].channel,
     state |-> consumer[c].state,
     at |-> IF consumer[c].view = NoView THEN NoCursor
            ELSE IF at[c] \in Positions /\ consumer[c].view = ViewAt(at[c]) THEN at[c] ELSE Untrue]]

Feed == INSTANCE OrderFeed WITH feed <- ConsumerFeed, LastPosition <- Len(Units)

\* Every consumer's stream implements OrderFeed: what it is given is the live view of
\* its own account at a position the account has reached, and never an earlier one
\* than it has had, whatever cursors were lost, refused or expired on the way.
ImplementsOrderFeed == Feed!Spec
==============================================================================
