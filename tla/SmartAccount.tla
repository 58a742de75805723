------------------------------ MODULE SmartAccount ------------------------------
(***************************************************************************)
(* User operations of a smart account                                      *)
(* (src/smart-account/smart-account.ts): sendPolyesterUserOperation, whose *)
(* preparation takes a gas price that all operations of a client share for *)
(* some time, and waitForPolyesterUserOperationReceipt, which polls the    *)
(* bundler until a deadline.  The bundler, the paymaster that quotes       *)
(* prices and the chain are external.  Of a preparation only the price     *)
(* matters here, and of a quote the price a bundler takes at its time.     *)
(***************************************************************************)
EXTENDS Integers, Sequences

CONSTANTS Operations,            \* the operations submitted
          NotFoundReceiptCheckEvery,   \* NOT_FOUND_RECEIPT_CHECK_EVERY
          MaxPolls,              \* bound: polls before the deadline
          MaxQuotes,             \* bound: prices asked for
          MaxGasPrice            \* bound: how high the price rises

CONSTANTS SendFaults,            \* what may go wrong outside, or in time
          MaxSendFaults          \* bound: how often

ASSUME SmartAccountAssumption == /\ NotFoundReceiptCheckEvery \in Nat \ {0}
                                 /\ MaxPolls \in Nat /\ MaxQuotes \in Nat /\ MaxGasPrice \in Nat
                                 /\ MaxSendFaults \in Nat

VARIABLES cached,                \* `cached` of cachedForTtl: a quote, or none
          quotes,                \* the prices asked for
          operation,             \* the operations, with their sender and with the bundler
          gasPrice,              \* external: the least price the bundler takes
          sendFaults,
          refused                \* history: the highest price known to be refused

sendVars == <<cached, quotes, operation, gasPrice, sendFaults, refused>>

NoQuote == 0
NoPrice == -1
Quote   == [state |-> "asked", price |-> NoPrice, fresh |-> TRUE]

\* `bundler` is where the operation is and `known` whether the bundler can say so;
\* `above` is what was known to be refused when it was begun, and `landed` counts
\* the polls since it was executed.
New == [phase |-> "new", quote |-> NoQuote, price |-> NoPrice, bundler |-> "absent",
        known |-> TRUE, polls |-> 0, notFound |-> 0, above |-> NoPrice, landed |-> 0]

SendFault(what) ==
    what \in SendFaults /\ sendFaults < MaxSendFaults /\ sendFaults' = sendFaults + 1

-----------------------------------------------------------------------------
(* cachedForTtl                                                            *)

\* get: the quote there is while it is fresh, or a new one.
HasQuote == cached # NoQuote /\ quotes[cached].fresh
Needed   == IF HasQuote THEN cached ELSE Len(quotes) + 1
Get == IF HasQuote THEN UNCHANGED <<cached, quotes>>
       ELSE /\ Len(quotes) < MaxQuotes
            /\ quotes' = Append(quotes, Quote)
            /\ cached' = Needed

\* Mutant: a refused price stays.
Kept == UNCHANGED cached
\* clear
Clear == cached' = NoQuote

\* The bundler refuses an operation for its price.
Refuse(o) == /\ Clear
             /\ refused' = IF operation[o].price > refused THEN operation[o].price ELSE refused

\* The paymaster answers, with a price the bundler takes by then.
QuoteArrives ==
    \E q \in DOMAIN quotes :
        /\ quotes[q].state = "asked"
        /\ quotes' = [quotes EXCEPT ![q].state = "there", ![q].price = gasPrice]
    /\ UNCHANGED <<cached, operation, gasPrice, sendFaults, refused>>

\* It does not: the quote is forgotten, unless another has taken its place.
QuoteFails ==
    /\ SendFault("quote")
    /\ \E q \in DOMAIN quotes :
          /\ quotes[q].state = "asked"
          /\ quotes' = [quotes EXCEPT ![q].state = "failed"]
          /\ cached' = IF cached = q THEN NoQuote ELSE cached
    /\ UNCHANGED <<operation, gasPrice, refused>>

\* ttlMs pass.
QuoteExpires ==
    /\ HasQuote /\ SendFault("expiry")
    /\ quotes' = [quotes EXCEPT ![cached].fresh = FALSE]
    /\ UNCHANGED <<cached, operation, gasPrice, refused>>

\* warmPolyesterSmartAccountClient
Warm == Get /\ UNCHANGED <<operation, gasPrice, sendFaults, refused>>

-----------------------------------------------------------------------------
(* sendPolyesterUserOperation                                              *)

Becomes(o, phase) == operation' = [operation EXCEPT ![o].phase = phase]

\* The preparation needs a price.
Prepare(o) ==
    /\ operation[o].phase = "new"
    /\ Get
    /\ operation' = [operation EXCEPT ![o].phase = "preparing", ![o].quote = Needed,
                                      ![o].above = refused]
    /\ UNCHANGED <<gasPrice, sendFaults, refused>>

\* It has one, and the wallet is asked to sign; or it fails, and the error is thrown.
Prepared(o) ==
    /\ operation[o].phase = "preparing"
    /\ LET quote == quotes[operation[o].quote]
       IN  \/ /\ quote.state = "there"
              /\ operation' = [operation EXCEPT ![o].phase = "signing", ![o].price = quote.price,
                                                ![o].quote = NoQuote]
           \/ quote.state = "failed" /\ Becomes(o, "ended")
    /\ UNCHANGED <<cached, quotes, gasPrice, sendFaults, refused>>

\* The wallet signs; or the rest of the preparation fails, or the prompt is
\* canceled, and the price is kept.
Signs(o) ==
    /\ operation[o].phase = "signing"
    /\ Becomes(o, "sending") \/ Becomes(o, "ended")
    /\ UNCHANGED <<cached, quotes, gasPrice, sendFaults, refused>>

Taken(o) == operation[o].price >= gasPrice

Lands(o, phase, bundler) ==
    operation' = [operation EXCEPT ![o].phase = phase, ![o].bundler = bundler]

\* eth_sendUserOperation is answered: the sender has the hash, waits for it, and
\* has it also from a timeout and from an operation that is already known.
SendAnswered(o) ==
    /\ operation[o].phase = "sending"
    /\ \/ Taken(o) /\ Lands(o, "waiting", "pending") /\ UNCHANGED sendFaults
       \/ SendFault("timeout") /\ Lands(o, "waiting", "absent")
    /\ UNCHANGED <<cached, quotes, gasPrice, refused>>

\* Any other error: the price may be the reason.  A connection that breaks says
\* nothing of the operation, and the sender has no hash to wait for.
SendRefused(o) ==
    /\ operation[o].phase = "sending"
    /\ \/ ~Taken(o) /\ Becomes(o, "ended") /\ Refuse(o) /\ UNCHANGED sendFaults
       \/ /\ SendFault("broken") /\ Clear /\ UNCHANGED refused
          /\ \/ Lands(o, "ended", "absent")
             \/ Taken(o) /\ Lands(o, "ended", "pending")
    /\ UNCHANGED <<quotes, gasPrice>>

-----------------------------------------------------------------------------
(* waitForPolyesterUserOperationReceipt                                    *)

\* What the bundler says of an operation.
Status(r) == CASE r.bundler = "absent" \/ ~r.known -> "not_found"
               [] r.bundler = "pending" /\ r.known -> "submitted"
               [] OTHER -> r.bundler

\* Mutant: the chain is checked once.
AtFirst(notFound) == notFound = 0
\* consecutiveNotFound++ % NOT_FOUND_RECEIPT_CHECK_EVERY === 0
IsChecked(notFound) == notFound % NotFoundReceiptCheckEvery = 0

\* After a poll that settles nothing: the next one, or the deadline.
Again(r, notFound) ==
    [r EXCEPT !.phase = IF r.polls + 1 = MaxPolls THEN "timedOut" ELSE "waiting",
              !.polls = @ + 1, !.notFound = notFound,
              !.landed = IF r.bundler = "included" THEN @ + 1 ELSE @]

Polled(r) ==
    CASE Status(r) = "included" -> [r EXCEPT !.phase = "done"]
      [] Status(r) \in {"failed", "rejected"} -> [r EXCEPT !.phase = "ended"]
      [] Status(r) = "not_found" ->
            IF IsChecked(r.notFound) /\ r.bundler = "included"
            THEN [r EXCEPT !.phase = "done"]
            ELSE Again(r, r.notFound + 1)
      [] OTHER -> Again(r, 0)

\* A poll; an operation the bundler rejected takes the price with it.
Poll(o) ==
    /\ operation[o].phase = "waiting" /\ operation[o].polls < MaxPolls
    /\ operation' = [operation EXCEPT ![o] = Polled(@)]
    /\ IF Status(operation[o]) = "rejected" THEN Refuse(o) ELSE UNCHANGED <<cached, refused>>
    /\ UNCHANGED <<quotes, gasPrice, sendFaults>>

\* A request of it fails or the deadline finds it under way.
PollFails(o) ==
    /\ operation[o].phase = "waiting"
    /\ SendFault("poll")
    /\ Becomes(o, "ended")
    /\ UNCHANGED <<cached, quotes, gasPrice, refused>>

-----------------------------------------------------------------------------
(* External: the bundler and the chain.                                    *)

BundlerMoves(o, bundler) == operation' = [operation EXCEPT ![o].bundler = bundler]

\* A send that timed out arrives all the same.
ArrivesLate(o) ==
    /\ operation[o].phase = "waiting" /\ operation[o].bundler = "absent" /\ Taken(o)
    /\ BundlerMoves(o, "pending")
    /\ UNCHANGED <<cached, quotes, gasPrice, sendFaults, refused>>

Executes(o) ==
    /\ operation[o].bundler = "pending"
    /\ BundlerMoves(o, "included")
    /\ UNCHANGED <<cached, quotes, gasPrice, sendFaults, refused>>

\* Its bundle reverts, or it is simulated again and its price has become too low.
Drops(o) ==
    /\ operation[o].bundler = "pending"
    /\ \/ SendFault("revert") /\ BundlerMoves(o, "failed")
       \/ ~Taken(o) /\ operation[o].known /\ BundlerMoves(o, "rejected") /\ UNCHANGED sendFaults
    /\ UNCHANGED <<cached, quotes, gasPrice, refused>>

\* The bundler restarts, and no longer knows what it has bundled.
BundlerRestarts ==
    /\ SendFault("restart")
    /\ operation' = [o \in Operations |->
                        IF operation[o].bundler = "absent" THEN operation[o]
                        ELSE [operation[o] EXCEPT !.known = FALSE]]
    /\ UNCHANGED <<cached, quotes, gasPrice, refused>>

PriceRises ==
    /\ gasPrice < MaxGasPrice
    /\ gasPrice' = gasPrice + 1
    /\ UNCHANGED <<cached, quotes, operation, sendFaults, refused>>

-----------------------------------------------------------------------------

SendInit ==
    /\ cached = NoQuote /\ quotes = <<>>
    /\ operation = [o \in Operations |-> New]
    /\ gasPrice = 0 /\ sendFaults = 0 /\ refused = NoPrice

SendNext ==
    \/ QuoteArrives \/ QuoteFails \/ QuoteExpires \/ Warm
    \/ \E o \in Operations :
          \/ Prepare(o) \/ Prepared(o) \/ Signs(o) \/ SendAnswered(o) \/ SendRefused(o)
          \/ Poll(o) \/ PollFails(o) \/ ArrivesLate(o) \/ Executes(o) \/ Drops(o)
    \/ BundlerRestarts \/ PriceRises

SendSpec == SendInit /\ [][SendNext]_sendVars
=================================================================================
