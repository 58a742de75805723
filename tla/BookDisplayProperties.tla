------------------------- MODULE BookDisplayProperties -------------------------
(* What BookDisplay guarantees, of any book the matching engine can have.  *)
EXTENDS BookDisplay

CONSTANTS MaxPrice, MaxQuantity, MaxLimit, MaxBucket    \* bounds of the books looked at

ASSUME DisplayAssumption ==
    MaxPrice \in Nat /\ MaxQuantity \in Nat /\ MaxLimit \in Nat \ {0} /\ MaxBucket \in Nat

VARIABLE display                 \* a book, and how it is asked to be shown

Sides == UNION {[prices -> 1 .. MaxQuantity] : prices \in SUBSET (1 .. MaxPrice)}
Uncrossed(bids, asks) == \A b \in DOMAIN bids, a \in DOMAIN asks : b < a

\* Every book, one after the other.
DisplayInit == display = [bids |-> <<>>, asks |-> <<>>, limit |-> 1, bucket |-> 0]
DisplayNext ==
    /\ display.bids = <<>> /\ display.asks = <<>>
    /\ display' \in {d \in [bids : Sides, asks : Sides, limit : 1 .. MaxLimit, bucket : 0 .. MaxBucket] :
                        Uncrossed(d.bids, d.asks)}

DisplayTypeOK == display \in [bids : Sides, asks : Sides, limit : 1 .. MaxLimit, bucket : 0 .. MaxBucket]

Shown(side) == SideToUI(display[side], side, display.limit, display.bucket)
Whole(side) == Aggregated(display[side], side, display.bucket)

\* What lies in a bucket's width from a price to the worse.
Within(side, at) ==
    {p \in DOMAIN display[side] :
        IF display.bucket = 0 THEN p = at
        ELSE IF side = "bids" THEN at <= p /\ p < at + display.bucket
        ELSE at - display.bucket < p /\ p <= at}

\* However wide the buckets: an uncrossed book is shown uncrossed, a level holds
\* exactly the orders at its price or better for the taker by less than a bucket,
\* no order is left out or counted twice, and nothing better than what is shown
\* is hidden.
ShownFaithfully ==
    /\ Uncrossed(Shown("bids"), Shown("asks"))
    /\ \A side \in {"bids", "asks"} :
          /\ \A at \in DOMAIN Shown(side) : Shown(side)[at] = Total(display[side], Within(side, at))
          /\ Total(Whole(side), DOMAIN Whole(side)) = Total(display[side], DOMAIN display[side])
          /\ \A at \in DOMAIN Whole(side) \ DOMAIN Shown(side), p \in DOMAIN Shown(side) :
                /\ Better(side, p, at)
                /\ Cardinality(DOMAIN Shown(side)) = display.limit
================================================================================
