# polyester-sdk-typescript: verification development

TLA+ modules that model the stateful parts of the SDK in `src/src`, TLC
configurations that check them on small instances, and TLAPS proofs that hold
for every size. Paths below are relative to the repository.

The SDK is single-threaded JavaScript. Nothing runs in parallel, so every
difficulty comes from *when* the pieces of code run: an `await`, a microtask, a
timer, a socket event or a consumer's callback each give the rest of the program
a chance to change what the interrupted code has already read. The models are
built around that: an action is one uninterrupted piece of code.

## 1. Inventory

| component | source | state it keeps | hard behaviour | what makes it correct |
|---|---|---|---|---|
| Private order stream | `src/realtime/private-orders.ts` | subscriptions by account, consumers of each, pending requests, server subscription IDs, socket, generation, timers | token fetches that settle late, gaps, reconnects, retries with backoff, consumers that join and leave inside callbacks, termination | one connection, one subscribe attempt per stream, the view is the account's at the cursor, every consumer knows what its stream knows, it recovers |
| Realtime channel multiplexer | `src/realtime/client.ts` | channel entries with consumers, attachment epochs, the lazily loaded Centrifuge client and order stream | a microtask teardown racing a resubscribe, late subscribers, private disconnects while the library loads | a channel in use is attached exactly once, nothing else stays open, every consumer has been told of the subscription there is |
| Snapshot-then-stream | `src/realtime/snapshot-then-stream.ts` | generation, publication buffer, attempts, retry timer | a snapshot that arrives after a newer one or after a reconnect, gaps found during replay, a bounded buffer | the consumer's data never mixes generations; it becomes ready again |
| Order book subscription | `src/services/orderbook/orderbook.ts` | price levels, last sequence, bucket | sequence gaps, book not found, unsubscribing or changing the bucket inside an event | the book is the server's book at its sequence |
| Market overview subscription | `src/services/market-overview/market-overview.ts` | latest entry per market | keyed buffering while the snapshot is in flight | a feed at rest shows the server's rows of a page and of what was published since, or its consumer was told why not |
| Ready-gated subscriptions | `src/realtime/ready-gated-subscription.ts`, `src/shared/decimal-surface.ts` | queue of events until the catalog is ready, closed flag | overflow, failure and disposal while waiting | events reach the consumer in order, none is lost or repeated, and after its end it is quiet |
| Orders service | `src/services/orders/orders.ts` | live order IDs of a subscription | a lazy load that a disposal, a sign-out and another sign-in can overtake; units and resyncs turned into events and removals | what a consumer makes of the events is the account's live view |
| Balance merge, reconciliation | `src/services/balances/balances.merge.ts`, `src/shared/reconciliation.ts` | none (pure) | ordering of versions | the result does not depend on arrival order |
| Account signer authentication | `src/services/auth/*.ts`, `src/browser-core.ts` | identity, active account, generation of the last operation, logins in flight, one check of a rejected token, token and session storage | a logout, new signer, switched account or another tab while a login awaits the wallet; rejected tokens | older work has no effect; a cleared session is not brought back |
| Client catalog | `src/catalogs/client-catalog.ts`, `src/catalogs/readers.ts` | current snapshot, status, refresh in flight | `setSnapshot` during a refresh that then succeeds or fails | the status tells of the snapshot there is, and who waits for the catalog gets one or an error |
| Smart account operations | `src/smart-account/smart-account.ts` | clients per account, a quoted gas price shared for a time | a send whose outcome is unknown, a status that is lost, deadlines | no operation carries a price refused before; one that was executed is found before the deadline |
| Transports, request options | `src/shared/transports.ts`, `src/shared/request-options.ts`, `src/core-client.ts` | last request timestamp | equal clock readings | timestamps increase |
| Subaccount resolver | `src/services/subaccount-resolver.ts` | none (reads the auth state when called) | none | an explicit scope wins |
| Client composition, signer factory, event emitter | `src/client.ts`, `src/browser-client.ts`, `src/server-*.ts`, `src/environment.ts`, `src/account-signer`, `src/utils/event-emitter.ts` | configuration, listeners | listeners that change the set they are called from | a copy of the listeners is called |
| Trading withdrawals, Zipper | `src/services/trading-withdraws/trading-withdraws.ts`, `src/services/zipper/zipper.ts` | Zipper's subscription state | a snapshot racing publications | as for the order book |
| Decimals, RPC services, schemas, generated code | `src/utils`, `src/services`, `src/gen` | none | rounding, validation | pure conversions |

Interactions: services call `PolyesterRealtime` (`realtime/types.ts`); the
multiplexer owns the Centrifuge connection and hands `connectPrivateOrders` to
the private order stream; order book and market overview put
snapshot-then-stream between a channel and a consumer; the gate in
`decimal-surface.ts` holds back everything a consumer gets until the catalog is
ready. Tokens come from the account signer authentication.

## 2. The private order stream

| module | models |
|---|---|
| `OrderHistory` | external: an account's history of units, and its live view at every position |
| `PrivateServer` | external: the private WebSocket server as the client uses it |
| `PrivateOrders` | `PrivateOrderStream`, every method and every event handler |
| `PrivateOrdersProperties` | types, safety and liveness of it |
| `OrderFeed` | abstract: what a consumer of an account's orders is promised |
| `MCPrivateOrders` | TLC instances |
| `MCPrivateOrdersFeed` | the same with a record of positions, and the refinement mapping to `OrderFeed` |
| `MCPrivateOrdersLeaving` | the same with a record of who left by himself, for what a termination owes |
| `PrivateOrdersProofs` | TLAPS proofs of `TypeOK`, `OneConnection` and `TablesAgree` |
| `PrivateConsumersProofs` | TLAPS proofs of `OneAttempt`, `ViewMatchesCursor`, `ConsumersAgree`, `ConsumersHearNews`, `NoSilentEnd` and `NoOrphanSubscription` |
| `PrivateFeedProofs` | TLAPS proof that the stream implements `OrderFeed` |

### State and code

| variable | code |
|---|---|
| `subs` | `#subs`, with the channel as key |
| `stream` | the `StreamSubscription` objects, also those no longer in `#subs` (closures keep them) |
| `req` | `#pending`, `#bySub`, `#unsubscribing`, `#requestSeq` |
| `conn` | `#ws` (0: null, otherwise the number of the socket), `#connecting`, `#generation`, `#authSent`, `#reconnectAttempt`, `#reconnectTimer`; `strays` counts timers whose handle was overwritten |
| `fetches` | the `await`s of `fetchConnectToken` and `fetchSubscribeToken`, with what their closures captured |
| `micro` | `queueMicrotask` calls not yet run |
| `turn` | what the running event has still to do; empty when the stack is |
| `consumer` | the `Consumer` objects, and the state, view and staleness each was told |
| `net`, `log`, `faults` | the connection and the server, the accounts, faults so far |

`PrivateOrders` models a handler as one action up to the point where it calls a
consumer. From there the rest is a list of *jobs* in `turn`, because a consumer
may call `connect`, its disposer or `disconnect` from inside its callback
(`AppMayCall`), and the code goes on with what they left behind: `#deliver`
iterates the live consumer set, `#report` a copy it checks for membership,
`#terminate` a copy it does not check. Between two calls only the application
acts; server, network, microtasks, timers and fetches wait for `turn = <<>>`.

| action | code |
|---|---|
| `Connect`, `Remove`, `Disconnect` | `connect`, the disposer it returns, `disconnect` |
| `RunMicrotask` | `#catchUp`, the deferred `#teardown` of `#remove`, the deferred `#terminateAll` of `#open` |
| `FetchSettles` | what follows each `await` in `#open`, `#reauthenticate`, `#subscribe`, `#refresh`, for a token, a terminal and a retryable failure, and one that came too late |
| `ReconnectTimer`, `RetryTimer`, `HeartbeatTimer` | the timers of `#scheduleReconnect`, `#retrySubscribe`, `#armHeartbeat` |
| `SocketOpens`, `SocketCloses` | `#authenticate`, `#onClosed` |
| `OnFrame`, `OnGarbledFrame` | `#onFrame` with one disjunct per case, `#onRequestError`, a frame that does not decode |
| `CallConsumer`, `CallsDone`, `NextStream`, `Resume` | `#deliver`, `#report`, `#call`, and what `#terminateAll`, `#reportAll`, `#onClosed`, `#terminate`, `#onFrame` and the token failures do between and after calls |
| `AccountMoves`, `ServerSends`, `FrameLost`, `ConnectionEnds` | external |

### Abstractions

- Time is a nondeterministic choice: a timer that is set may fire whenever no
  code runs. Backoff delays, jitter and the 10 s of a stable connection
  disappear; whether the backoff was reset is a free choice, made only for an
  authenticated connection. The heartbeat is armed exactly while `authSent`.
- An order is reduced to the position of the unit that last put it, so that two
  views are equal only if they have the same orders in the same versions. A page
  carries the view at its position; a snapshot that lacks a page has the wrong
  count, the condition the code tests.
- `stale.orderIds` is one of no, some, all orders.
- The server handles what the client sends when it is sent. Delivery is in order
  and the server's own moves are free, so a later handling is indistinguishable
  from a slow server. Server and network moves wait for the end of a turn; a
  running turn reads none of what they change.
- A garbled frame is one of a subscription's sequence. See the hazards for what
  happens when an answer is garbled.
- Which consumer or stream a loop visits next is free, where the code uses
  insertion order: no property depends on the order.
- Objects are created once. `Consumers` and `Streams` bound how many, `MaxFaults`
  bounds how often something outside the client fails, `MaxWire` how many unread
  frames there are when the server sends another. `Units` is an account's
  history.

### Runs

| run | asks | instance |
|---|---|---|
| `private_orders_protocol` | `TypeOK`, `OneAttempt`, `ViewMatchesCursor`, `ImplementsOrderFeed`, `EventuallyServed` | one consumer, a history of three units, every fault of the model but a garbled frame, two per behaviour, under `Fairness` |
| `private_orders_shared` | `ConsumersAgree`, `ConsumersHearNews`, `NoSilentEnd` | three consumers of one account, two streams, one fault, also a garbled frame |
| `private_orders_accounts` | `OneConnection`, `TablesAgree`, `NoOrphanSubscription` | two accounts, two consumers, a history of one unit, one fault of the connection, the tokens or the frames |

Why these bounds are enough to be interesting: two faults let a second thing go
wrong while the recovery from the first is under way (a lost socket while a
resubscribe is pending, an expired cursor after a gap); behind one
unread frame the server may still send a whole snapshot, so that a loss in the
middle leaves the frame that reveals it;
three units put two orders and remove one, so a skipped, repeated or reordered
unit gives a view no position has; three consumers are one that causes a call,
one that is called and one that joins; the history is short where data
plays no part. `MCPrivateOrdersFeed` records at which position each view was
current, which `OrderFeed` speaks of and a view does not tell: a history that puts an
order and removes it comes back to a view it had. `MCPrivateOrdersLeaving` adds who left by himself, since
`NoSilentEnd` is about those the stream let go of. `CHECK_DEADLOCK FALSE`: once
consumers, streams and faults are used up and everyone has left there is nothing
to do.

Two comments say more than the code does. Both differences are small, and no run
is spent on them:

1. `#terminate` says "Tell every consumer that has not been told it is
   disconnected." (`private-orders.ts:645`). A consumer that joins after a close
   is caught up without being told anything, since only "connected" is passed
   on, and then counts as told. What does hold is `NoSilentEnd`: nobody is left
   believing in a connection.
2. `disconnect` is documented as dropping "every subscription without callbacks"
   and stopping "deliveries to the rest" (`private-orders.ts:159,163`).
   A termination in progress has already collected whom to call, and calls them.

### Fairness

`Fairness` asks for what the platform gives: queued work runs, a fetch settles
(requests have timeouts), timers fire, a socket that does not open is reported,
the frames of an open socket are read, the server goes on serving. It does not
ask that a dead socket is ever reported: only the heartbeat saves the client
there, and `HeartbeatTimer` is fair only while the connection really is gone.
Faults are bounded, so "once faults stop" is every behaviour's end. A garbled
frame is left out of that run: if it was the last one, nothing shows the
hole until the account moves again, which is the protocol's design.

### What is proved

`PrivateOrdersProofs` proves for all accounts, consumers, streams, histories,
faults and bounds:

- `TypesHold`: `Spec => []TypeOK`. `TypeOK` is strong where handlers rely on it:
  a frame of a kind has the fields its handler reads (a unit a position a unit
  can have), a job the stream and consumers it visits, a fetch the stream it is
  for. It is not inductive alone. A subscribe request carries the stream's
  channel, and a stream object has none before `connect` creates it; so the
  invariant is `TypeOK /\ Created`, where `Created` says that every stream named
  by the subscriptions, the request tables or a fetch has a channel.
- `OneConnectionHolds`: `Spec => []OneConnection`, from
  `TypeOK /\ Created /\ LinkInv`. `LinkInv` adds to `OneConnection` that no
  connect token being fetched belongs to a later generation than the client's;
  without it `#shutdown`, which only counts the generation up, could make an old
  fetch current.

Assumptions: the sentinels `NoStream`, `NoChannel`, `NoView` are none of the
values they stand for the absence of, `Streams` and an account's order ids are
finite, the bounds are naturals, and a history is a sequence of units. TLC evaluates them in every run.

The proofs go operator by operator: one lemma for what each shared step leaves
behind (`ResubscribeTypes`, `TeardownTypes`, ...), one per action, then the
disjunction. `Like(n)` collects what a server may turn connection `n` into, and
is what these two theorems need to know of the server.

And, under the same assumptions:

- `TablesAgreeHolds`: `Spec => []TablesAgree`, from
  `TypeOK /\ Created /\ LinkInv /\ RequestsInv`. `TablesAgree` says nothing
  while a turn has jobs left, and nothing of why a late frame or token cannot put
  a stale row back. `RequestsInv` says that, in every state: an unauthenticated
  or dead socket has no frames, and no fetch for it is younger than it
  (`SocketsInv`); a number names one request and at most one subscription,
  confirmed by one frame on the wire (`IdsInv`); a current stream is in the place
  of its channel (`Placed`), has at most one subscribe request or retry timer,
  and neither once it is subscribed; and requests, rows of `#bySub`, refresh
  tokens and retries that are due belong to streams that are still current
  (`Settled`). This is where the server's promise to name a subscription after
  the request that made it is used.

For it a step is first described by what it does to the requests: eleven outcomes
(`Outcome`: nothing, the socket is given up, a dial begins, a socket connects, a
stream leaves, waits, asks, refreshes its token, is confirmed, is accepted, fails)
and the opening of a socket. Each handler leads to one of them (`StepDoes`), and
each of them keeps `RequestsInv` (`OutcomeKeeps`), so that handlers times
conjuncts become handlers plus outcomes times conjuncts.

`PrivateConsumersProofs` goes on to what the streams come to:

- `OneAttemptHolds`: `Spec => []OneAttempt`. That there are not two attempts is in
  `RequestsInv`; that there is one needs to know, inside a turn, who will still
  make it. `AllTended`: a current stream of an authenticated socket is subscribed,
  asks, has a timer, or a job of the turn terminates it or sets its retry. `LinkSought`:
  there is a socket, a dial or a timer, or a microtask or a job gives up all streams
  or sets a timer, or every current stream is being terminated. Also needed is
  `AnswersInv`, that the answer to a token refresh is not the answer to a
  subscribe request: a `refreshed` takes its request out of `#pending`, and a stream
  whose subscribe request went that way would wait for ever.
- `ViewMatchesCursorHolds`: `Spec => []ViewMatchesCursor`, from `RequestsInv` and
  `InStep`. `InStep` says that client and server read one sequence: of two unread
  frames of a subscription with successive numbers the second may follow the first,
  and the last leaves the server's subscription where it says (`InOrder`); the next
  frame of its subscription, sent or yet to come, fits what a stream holds
  (`ReadersInv`, also for a stream whose request is not answered yet: it will start
  at the cursor the stream still has); a number the server may call a subscription by
  was given out, and is not that of a request whose token is still being fetched
  (`FreshInv`); and every stream, current or not, holds the view at its cursor
  (`HeldInv`). The unread frames are taken as a set, as each carries its number: so
  a frame the server skips (`FrameLost`) only makes the set smaller, and the
  client's check of the number does the rest. `ViewSteps` proves of the history that
  the view at a position is the view before it with the unit applied, and that a
  covered unit changes nothing; `EmptyCount` that a snapshot cut short before its
  page is told by its count, unless the account has no orders at all.

Most steps confuse nobody: what is on its way afterwards fits every reader it fitted
before (`Keeps`), and each stream goes on as it was, or forgets its cursor together
with its subscription (`Carries`). Only three do more: an accepted request
(`Accepted`), its confirmation (`Subscribes`), and a frame read in sequence
(`Advanced`). That every step is one of these four is `StepProceeds`, which the
refinement below uses again. TLC checked `RequestsInv`, `Watched` and `InStep` on the instances
of the runs before they were proved.

And to what consumers are told, which is where a turn's jobs matter: the code hands
out calls one at a time, and any of them may join, leave or disconnect.

- `ConsumersAgreeHolds`: `Spec => []ConsumersAgree`, from the invariants above and
  `AgreeInv`, which says in every state, also inside a turn, what is still owed. A
  consumer joins one stream once, and is caught up or has exactly one microtask that
  will do it (`JoinInv`, `TasksInv`); a stream object is blank until `connect` gives
  it a channel, and no job is about a blank one (`BlankInv`); a caught-up consumer
  knows its stream's connection state, orders and staleness, or a job that will
  visit it delivers them (`ToldAll`); and what is delivered is what the stream has
  come to by then (`CallsTrue`). The last holds only because of `TurnShape`: one event is
  delivered at a time, except to the consumer being caught up, whose two or three
  are of different kinds. Without that, a `connected` could wait behind a
  `disconnected` and leave a consumer with the older of the two.
- `ConsumersHearNewsHolds`: `Spec => ConsumersHearNews`, from the same invariant: an
  event in a job is news to whom the job has yet to call, so opens and closes
  alternate and a unit finds the view it changes.
- `NoSilentEndHolds`: `LeavingSpec => []NoSilentEnd`. `LeavingSpec` is `Spec` with a
  history variable, so each of its steps is one of `Spec` (`LeavingSteps`) and keeps
  the invariant above; `PartedInv` adds that whoever joined a stream is still with
  it, quit, or was or is being told of its end. Only the `finish` of a termination
  can put a stream away over its consumers' heads, and it first collects whom it
  owes the close (`OwedClose`); a consumer it leaves out is one that knows already,
  by `ToldAll`.

Steps are sorted by what they do to consumers. Most tell nothing (`QuietAgrees`) or
deliver one event of one stream to all of its consumers (`DeliverAgrees`); what is
left are joining, leaving, catching up, the calls themselves and the end of a
termination. TLC checked `AgreeInv` and `PartedInv` on the instance of
`private_orders_shared` before they were proved.

And to what the server keeps for the client.

- `NoOrphanSubscriptionHolds`: `Spec => []NoOrphanSubscription`, from the invariants
  above and `OrphanInv`. A subscription the server keeps is one a current stream
  uses, or its confirmation is still on the wire (when it is read, either a stream
  takes it or `OnSubscribed` gives it back at once); none is kept that a frame on
  the wire says is over, so a client that drops a subscription because of an
  `unsubscribed` or an unknown-subscription error leaves nothing behind; such a frame
  names a subscription whose number is used up, so a later one is not taken for it;
  and a connection that is not open keeps none. The two sides are followed apart:
  `Leads` says what a change of the network does to what the server keeps,
  `HoldersStay` and its kin what a step does to who uses it, and `Cleans` is a step
  that leaves nothing behind. Where a stream gives up its subscription, the code
  must send the server a cancellation, or have read that it is over
  (`OnErrorCleans`, `TeardownCleans`, `OnSubscribedCleans`). TLC checked `OrphanInv`
  on the instance of `private_orders_accounts` before it was proved.

And in `PrivateFeedProofs`, what all of this comes to for a consumer:

- `OrdersImplementOrderFeed`: `FeedSpec => ImplementsOrderFeed`. `FeedSpec` is `Spec`
  with two history variables that no action reads: `held`, the position of a stream's
  orders, which outlives a cursor that was refused, expired or reset, and `at`, the
  position of the view each consumer was given last. The abstract feed never shows a
  consumer an earlier position than it has had, nor one its account has not reached.
  That is not plain from the code: `SubscribeError` and `SnapshotEnd` throw the cursor
  away and `Resubscribe` starts a new snapshot, which replaces the orders whatever
  position it is of.

  `FeedInv` is `OrdersInv` and three more. `PlaceInv`: a stream shows the view at the
  position it holds, its account has reached it, and its cursor, if it has one, is that
  position. `AheadInv`: what a stream has yet to read of its subscription, what the
  server's end of it will go on from, and what an unanswered request will start with
  are of the stream's own account, of no earlier position than it holds and of none
  beyond the account's. `ShownInv`: a consumer's view is that at its recorded position,
  and its stream holds no earlier one, so that whatever it is told next shows no
  earlier one either. `AheadInv` stands on `Climbs`, a part of `InOrder`: the
  positions of one subscription never fall, from frame to frame and up to
  where the server's end stands. It is kept by the same four kinds of step as `InStep`:
  one that confuses no reader leads none back (`Keeps`), a new subscription starts
  at the cursor the client sent or with a snapshot of the present (`Accepted`), and
  what is read later is of a later position (`AdvancesAhead`).

  `StepTells` says what a step tells the consumers: nothing, that one has joined a
  stream, or one consumer the orders or the link of its stream. These map to `Attach`,
  `Show` and `Switch`, the account's own steps to `Move`, and all else to no step
  (`FeedSteps`). A consumer that is told the view it has already, of a later position,
  is such a step too: `at` moves only when the view does.

  The assumptions are those above: the server keeps the protocol of
  `PrivateServer`, and histories are any finite sequences of units, also such that
  come back to an earlier view.

Liveness stays with TLC (`EventuallyServed`), as fairness and `ENABLED` are out of the
prover's reach.

## 3. The order book and snapshot-then-stream

| module | models |
|---|---|
| `SnapshotThenStream` | `snapshotThenStream`: its local variables as one record, each of its functions an operator on it; no state of its own. `Buffered` is the buffer with a bound, `BufferedByKey` the one with a key |
| `BookHistory` | external: an order book as the history of its changes, and what a snapshot and a delta of it carry |
| `OrderBook` | `createSubscription` of the order book, on `SnapshotThenStream` |
| `BookFeed` | abstract: whole books that move back for a lagging snapshot only |
| `OrderBookProperties`, `MCOrderBook` | types, safety, liveness, the refinement mapping; the instance |
| `BookDisplay`, `BookDisplayProperties` | `sideToUI` and `sideToUIBucketed`: what `emit` shows of a book; checked by the run `services` (section 6) |
| `OrderBookProofs` | TLAPS proofs |

| variable | code |
|---|---|
| `st` | `ready`, `disposed`, `refreshGeneration`, `pendingPublications`, `retryAttempts`, `retryTimer` of `snapshot-then-stream.ts` |
| `book`, `seq`, `bucket` | `bidsMap` and `asksMap`, `currentBookSeq`, `bucketTicks` |
| `fetches` | the `fetchSnapshot` promises, with the generation their closure captured and the position of the book when they were sent |
| `turn` | what the running event does after the consumer returns: replay the rest of the buffer, schedule a retry, close |
| `shown` | the last `onEvent` |
| `lagged` | for the properties: the book is of a stale snapshot and no delta has been applied since |
| `link`, `wire`, `log`, `faults` | the channel, publications under way, the position of the server's book, faults so far |

| action | code |
|---|---|
| `Subscribed`, `CloseAfterError` | `onConnected`, `onDisconnected` |
| `OnPublication` | `onPublication`: buffered, or `handleDelta` |
| `SnapshotArrives`, `ReplayNext`, `ReplayEnds` | `applySnapshot` of the order book: install and emit, one buffered delta at a time, then `ready` |
| `StaleSnapshot` | an answer a later generation overtook |
| `SnapshotFails`, `RetryAfterError`, `RetryTimer` | the `catch` of `refreshSnapshot`, `scheduleSnapshotRetry`, its timer |
| `Unsubscribe`, `SetBucket` | the two functions a consumer holds; also enabled while `turn` is not empty, that is inside a callback |
| `Terminated` | `#terminateSubscriptions` of `realtime/client.ts` for this channel |
| `Disconnect`, `Publish`, `PublicationLost`, `ConnectionLost` | external; `realtime.disconnect()` tells no subscription |

A price level is a model value and a book a quantity for every level, both sides
together: no step treats them differently until levels are aggregated for
display. There `shown` records which bucket was used, and `BookDisplay` says what
is made of it: the levels gathered into buckets and cut to the asked depth, for
prices that are numbers. The formatting of levels is left out. The
delay of a retry is a nondeterministic timer. `PublicationLost` takes a
publication only when another follows it: the code's own comment
(`orderbook.ts:100`) says that a loss nothing follows is indistinguishable from
a quiet market. `MaxStep` bounds how many changes a delta covers, `MaxFaults`
how often something goes wrong.

| run | asks | instance |
|---|---|---|
| `order_book` | `TypeOK`, `BookIsTrue`, `OneRefresh`, `NeverStranded`, `QuietAfterUnsubscribe`, `ImplementsBookFeed`, `EventuallyCurrent` | two levels, a history of five changes that the client joins after the second, one bucket, a buffer of two, two retries, four faults of every kind, under `FairSpec` |
| `order_book_not_found` | `BookIsTrue` is violated | the book does not exist when the client subscribes |

In five changes a level appears, goes and comes back and another changes
quantity, so a delta skipped, repeated, or laid over the wrong book leaves
levels no position has. A buffer of two overflows while a snapshot is under way.
Four faults let every attempt fail, the first snapshot and both retries, and leave
one for a lost connection, the only thing that starts a refresh again; or they are
one that starts a refresh, one during it, and one during each retry.

A *stale* snapshot is one older than its request (a lagging replica): the book
then moves back, stays a true book, and catches up when the next delta shows the gap.
`BookFeed` lets the position move back in such a step and in no other;
`EventuallyCurrent` excepts a book that is of a stale snapshot with no delta since
(`lagged`).

The violation, `order_book_not_found`: `GetOrderBook` answering *not found* is
taken as the empty book at sequence 0, and with sequence 0 `handleDelta` checks
no gap (`orderbook.ts:238`). If the first delta is lost, the second is applied to
a book without it and nothing refetches, although the subscription "refetches on
observed sequence gaps" (`orderbook.ts:96`). Every theorem about the book's
contents assumes `FirstPosition > 0`.

Fairness: publications under way are read, a snapshot is answered (requests have
timeouts), timers fire, the transport resubscribes, and what an event has begun
is finished. The server is not asked to publish.

### What is proved

For all levels, histories, buckets, faults and bounds:

- `BookTypesHold`: `Spec => []TypeOK`.
- `OneRefreshHolds`: `Spec => []OneRefresh`, from `RefreshInv`. It adds that no
  fetch is of a later generation than the feed's (a refresh would otherwise meet
  an old fetch at its new number), that nothing is awaited while a turn replays a
  buffer or waits to retry, since its own fetch is consumed, and that a disposed
  feed has no timer.
- `BookIsTrueHolds`: `Spec => []BookIsTrue`, assuming `FirstPosition > 0`, from
  `TrueInv`: whenever deltas may be applied, `seq` is at least `FirstPosition`
  and so not the 0 that turns the gap check off. `AppliedTrue` does the rest: a
  delta that connects to `seq`, applied to `BookAt(seq)`, gives `BookAt(d.end)`.
- `OrderBookImplementsBookFeed`: `Spec => ImplementsBookFeed`, assuming
  `FirstPosition > 0`, from the two above and `OrderedInv`: the client's sequence and
  every delta on the wire, in the buffer or in a replay are within the log, and a
  fetch still awaited was sent when the book was at least where the client's is and
  no further than it is now. Every step is then a `Show` or a `Move`, a fault that
  shows nothing, or `FallsBack`, the stale snapshot.

- `NeverStrandedHolds`: `Spec => []NeverStranded`, from `StrandInv`: while a
  subscribed feed is not ready, a snapshot is awaited, the timer is set, the
  retries are used up, or the running turn is the retry or the replay of the
  feed's current generation. The last two hold inside a turn only, and are why
  `NeverStranded`, which speaks of the rest, is not inductive.
- `QuietAfterUnsubscribeHolds`: `Spec => QuietAfterUnsubscribe`, from a part of
  the same invariant: a turn that closes the feed has ended its link first.

`EventuallyCurrent` is model-checked only. It promises recovery or knowledge: once
faults stop, a subscribed consumer holds the current book, or `onError` has told it
that the snapshot failed as often as it is tried. In the second case it stays without
a current book until the transport reconnects or it subscribes again, since after the
last retry nothing starts another (`snapshot-then-stream.ts:143`).

## 4. The realtime channel multiplexer

| module | models |
|---|---|
| `RealtimeClient` | `RealtimeClient`; its `connectPrivateOrders` is in `OrderSubscription` (section 5) |
| `RealtimeClientProperties` | types, safety, liveness |
| `MCRealtimeClient` | the instance |
| `RealtimeClientProofs` | TLAPS proofs: types and all six safety properties |

| variable | code |
|---|---|
| `sharedSubs`, `pendingTeardowns` | `#sharedSubs`, `#pendingTeardowns` |
| `shared` | the `SharedSubscription` objects, also those that left both tables; `sub` is the state of their Centrifuge subscription, "none" for null, and `client` the number of their client |
| `client` | `#publicClient`, `#privateClient`: the number of a client, 0 for null |
| `consumer` | what the closures of a `subscribe()` call keep: its shared subscription, `closed`, `lastSubscribedEpoch` |
| `loader` | `loadedCentrifugeCtor`, `centrifugeCtorPromise`, and the attachments that await it |
| `micro` | microtasks: late `onSubscribed`, teardown, reported authentication errors, attachments whose load has settled, what Centrifuge does after a refused token |
| `turn` | loops over handlers that are under way, and the consumer being called |
| `auth`, `clients`, `faults`, `authChanges` | `hasAuth()`, the Centrifuge clients, bounds |

| action | code |
|---|---|
| `Subscribe` | `subscribe` with `#getOrCreateSubscription`: an existing channel, one whose teardown is pending, a new one |
| `Dispose` | the function `subscribe` returns |
| `Disconnect`, `DisconnectPrivate` | `disconnect`, `disconnectPrivate` |
| `RunMicrotask` | `#attachSubscriptionWhenLoaded` after its await, the late `onSubscribed`, the deferred teardown, the deferred error |
| `LoaderSettles` | the import of Centrifuge succeeds or fails |
| `ClientEnds`, `ChannelEnds` | the terminal "disconnected" and "unsubscribed" events, `#terminateSubscriptions` |
| `ConnectionTokenFails`, `SubscriptionTokenFails` | `getToken` of a private client, of a private subscription |
| `ChannelSubscribed`, `Published` | "subscribed"; "publication" and "error" |
| `Proceed` | the loops over handlers: over the live set, or over handlers collected before |
| `ClientConnects`, `ClientDrops`, `AuthChanges` | external |

Abstractions. A consumer has all four handlers, so the four handler sets are one;
a handler that throws changes nothing but who hears an error and is left out.
Every `subscribe()` is a consumer of its own, and inside a callback the called
consumer, or any other, may subscribe, dispose and disconnect. An error event is
delivered as a publication is and is not a second action. Authentication changes
only between tasks. Events of subscriptions that are no longer current are
dropped by the code's checks and are not generated, with one exception: token
requests go on after a silent `disconnect()`.

| run | asks | instance |
|---|---|---|
| `realtime_channels` | `TypeOK`, `AlwaysAttached`, `OneSubscription`, `NothingLeaks`, `EveryoneOpen`, `LeavingIsHeeded`, `SubscribeRestarts`, `EventuallyOpen` | a public and a private channel, two `subscribe()` calls, two shared subscriptions, one fault of any kind, one change of authentication, under `FairSpec` |
| `realtime_idle` | `IdleClientsClose` is violated | two public channels and a private one, three calls, no faults, no change of authentication |
| `realtime_restart` | `RestartsWhenCorrected` is violated | no faults, two changes of authentication |

Two calls are one that starts a channel and one that comes back while its teardown
or the load is pending, or joins inside the other's callback; two shared
subscriptions are the old and the new one of a channel, or one of each kind. What
the safety properties say of more calls, channels and faults is proved (below), and
was checked with three calls and three channels before. `CHECK_DEADLOCK FALSE`: the
calls are used up.

`RestartsWhenCorrected` fails by a bug of the client. A consumer of a private channel leaves
while its channel has no Centrifuge subscription (it is loading, or
authentication was gone when the load finished). Before the teardown's microtask
runs, somebody subscribes without authentication: the channel is put back into
`#sharedSubs` and then `#attachSubscription` throws (`client.ts:394-397`). The
branch for new channels takes the entry out again (`client.ts:420`), this one
does not. The entry stays, without consumers and without attachment; every later
`subscribe()` joins it, and none attaches it, although the doc of `subscribe`
promises a restart after the failure is corrected (`client.ts:598-599`). Only a
further leave whose teardown runs, or a disconnect, clears it. It takes a
sign-out and a sign-in, which is why `realtime_channels` allows one change of
authentication, and why `AlwaysAttached` is about states with
authentication.

`IdleClientsClose` fails by another, which needs three channels and nothing to go
wrong, and was found when `NothingLeaks`, which once included it and held for two
channels, resisted a proof. A channel that leaves before it was attached has no
Centrifuge subscription, and its teardown returns (`client.ts:495`) before it asks
whether the client of its kind is idle. Let `p` wait in the microtasks for its
attachment, and in the same tick let `r`, of its kind, be subscribed (attached at
once) and left, then `p` left and `q`, of the other kind, subscribed. The teardown of
`r` keeps the connection for `p`, whose teardown is still pending; that of `p` does
not look at it; and as `q` is in use, not everything is disconnected
(`client.ts:702`). The connection stays open without a channel until another
channel of its kind comes and goes, while the test says "disconnects only the idle
client when mixed public and private subscriptions unsubscribe"
(`client.test.ts:776`).

Fairness: what has begun is finished (`WF` of `Proceed` and `RunMicrotask`), the
load settles, clients connect and channels subscribe. The last three are strong:
a publication or a turn disables them for as long as its callbacks run, and the
event loop serves every queue between.

### What is proved

In `RealtimeClientProofs`, for any channels, consumers, faults and changes of
authentication, assuming only `RealtimeAssumption` (there are finitely many
consumers, a channel is of one kind, null is none of the objects):

- `TypesHold`: `Spec => []TypeOK`.
- `OneSubscriptionHolds`: `Spec => []OneSubscription`.
- `LeavingIsHeededHolds`: `Spec => LeavingIsHeeded`.
- `SubscribeRestartsHolds`: `Spec => SubscribeRestarts`.
- `EveryoneOpenHolds`: `Spec => []EveryoneOpen`.
- `AlwaysAttachedHolds`: `Spec => [](authChanges <= 1 => AlwaysAttached)`.
- `NothingLeaksHolds`: `Spec => [](authChanges <= 1 => NothingLeaks)`, and
  `OpenIsKnown`, its first half without that bound.

The types alone are not inductive, as the disposer takes one from
`SharedSubscription.consumers`. The inductive invariant `AttachInv` has four parts
besides them. `CountInv`: the count is the number of consumers that hold the
subscription and have not left it. `TablesInv`: a channel is in one of the two
tables at most, with a subscription of its own. `ClientsInv`: what is subscribed on
the current client of its kind is in a table, so that a client attached to has
nothing of this channel yet; a client that is replaced never comes back, as a new
one has a new number. `EntriesInv`: of the attachments that wait for Centrifuge one
at most is the last one begun of its subscription, and then that subscription is
not attached. Without it two of them could both find the epoch they captured.

Most steps only end subscriptions, take entries out of the tables and drop clients
(`Calm`), and one lemma shows the four parts for all of them; a subscribe, the last
disposer, the microtask that attaches and the load each have their own.
`LeavingIsHeeded` needs in addition that handlers are of holders and that who is
told of missing authentication holds nothing (`CallsInv`).

`EveryoneOpen` is about the rest between tasks only, so its invariant, `NewsInv`,
says for every moment who is still going to be told: a consumer on a subscribed
channel has heard of the subscription there is, or a late report in the microtasks
carries its epoch, or a loop of the turn under way does and has not reached him yet
(`ToldSoon`). The difficulty is that `lastSubscribedEpoch` only lets news through
that are newer than the last, so one report too early would silence the right one:
`EpochsInv` says that nobody has been told, and nothing pending tells, of a
subscription that has not come yet, and that an epoch counts on over every
attachment of its subscription. TLC checked `NewsInv` on the instance of
`realtime_channels` with every kind of fault before it was proved.

`AlwaysAttached` and `NothingLeaks` rest on a third invariant, `ServedInv`, of what
tables, clients and microtasks owe one another. `LinksInv`: what is in a table and
has a Centrifuge subscription has it on the current client of its kind, and an open
connection is a current one. `HoldersInv`: whoever holds a subscription that is in a
table is among its handlers. `TeardownsInv`: a pending teardown has its microtask.
`LoadInv`: who awaits Centrifuge has it loading. `DueInv`: a channel in use is attached
or its last attachment is still to come, and it has a handler.

`DueInv` is the part that the bug of `RestartsWhenCorrected` breaks, so it is claimed
for at most one change of authentication, and of a private channel without
authentication after that change (`Barred`) only in part. That no private channel is
in a table before anybody has signed in (`GuestsInv`) is what makes the one change
enough: a refused subscribe that revives a channel can only meet one that a sign-out
left behind, and with one change nobody signs in afterwards. With two changes both
properties are false, and by the same steps: the revived entry without consumers is
never attached, or, when its attachment is still waiting for Centrifuge, is attached
and stays subscribed for nobody.

Steps that only end subscriptions and drop clients are covered by one lemma once more
(`CalmServed`: who stays in a table stays on its client, and no attachment or teardown
is lost), and steps that attach, join or leave one subscription by another
(`EnteredServed`). TLC checked `ServedInv` before it was proved, with three calls and
with every kind of fault. Only liveness is left to TLC, and `IdleClientsClose` and
`RestartsWhenCorrected`, which fail.

## 5. The order subscription

`orders.subscribe` as it is composed: the account's order stream, reached through a
module that is loaded when it is first needed, behind a gate that holds
publications back until the catalog is ready.

| module | models |
|---|---|
| `ClientCatalog` | `createPolyesterCatalog`: which symbols are listed, its status, the refresh in flight; operators on a record |
| `ReadyGate` | `createReadyGate`: `state` and the queue; operators on a record |
| `OrderSubscription` | `subscribe` of the orders service over `connectReadyGated` and `connectPrivateOrders`, with both of the above |
| `OrderHistory`, `OrderFeed` | external and abstract, as in section 2 |
| `OrderSubscriptionProperties`, `MCOrderSubscription` | types, safety, liveness, the refinement mapping; the instance |
| `OrderSubscriptionProofs` | TLAPS proofs |

| variable | code |
|---|---|
| `cat` | the catalog's snapshot, status and refresh promise |
| `loader`, `epoch`, `auth` | `#privateOrders` with `#privateOrdersLoading`, `#privateOrdersEpoch`, `#hasAuth()` |
| `sub` | the closures of one `subscribe()`: its state, its gate, where its `ready()` stands, its link to the stream, the epoch it captured, `live` |
| `flushing` | the gate whose queue is being delivered, and what of it is left |
| `consumer` | what the callbacks amount to: the view, the position it is of, the link, the errors |
| `stream`, `log` | external: where the stream each subscription joined stands, and the account |

| action | code |
|---|---|
| `Subscribe`, `Unsubscribe` | `connectReadyGated` with `connectPrivateOrders`; the disposer |
| `Logout`, `Login` | `disconnectPrivate` after signing out, which moves the epoch on; `hasAuth()` again |
| `CallCatalog`, `RefreshSettles` | `setSnapshot`, `refresh`, and what its promise does |
| `CallReady`, `GateOpens`, `GateFails` | `ready()`, a microtask after the gate was made, and its outcome |
| `FlushNext` | the next delivery of the flush |
| `ModuleLoads`, `ModuleFails`, `JoinStream`, `HearOfFailure` | `import("./private-orders.js")`, and those that waited for it, one by one |
| `HearOfRefusal` | the queued error of a subscribe without authentication |
| `StreamOpens`, `StreamCloses`, `StreamEnds`, `StreamPublishes`, `StreamResyncs` | external; the handlers given to `connectPrivateOrders`, publications through the gate |

The stream does what the abstract `OrderFeed` of section 2 says, which is what
connects the two sections: the detailed stream implements `OrderFeed`, as
`private_orders_protocol` checks and `OrdersImplementOrderFeed` proves, and this module
assumes no more than that. With `SubscriptionImplementsOrderFeed` below the promise
reaches from the socket to the consumer of the orders service.

Abstractions. One delivery, with all the callbacks it makes, is one step, and a
consumer that throws is isolated by the code and left out. Between two
deliveries of a flush the consumer may do anything it may do at all.
`onStale` passes by the gate as `onConnected` does and is left out. A version of
an order is the position of the unit that wrote it. A catalog lists the orders
whose symbol it knows. `onSnapshot` is optional, and the two kinds of consumer
differ in how a view is kept: `WithSnapshots` says which is which. A catalog
whose options forbid refreshing is one that has a snapshot. The catalog's
status is modelled with the steps that set it; no property reads it.

| run | asks | instance |
|---|---|---|
| `order_subscription` | `TypeOK`, `ViewIsLive`, `StreamsMatch`, `UnbrokenOrTold`, `QuietAfterTheEnd`, `ImplementsOrderFeed`, `EventuallyServed` | two subscriptions, one with `onSnapshot`; two units; a symbol one catalog knows and another does not; a gate of two; one fault and one call of every kind, under `FairSpec` |
| `gate_flush` | `ClosedGateIsSilent` is violated | one subscription without `onSnapshot`, no faults |

Two subscriptions are needed for the module's load and the catalog's refresh,
which are shared, and for a subscription of an earlier epoch beside one of a
later; nothing in the code makes a third differ from a second. Of two units the
first puts an order, the second removes it and puts another: a unit lost,
repeated or swapped shows another view. A snapshot and both units are three
publications, one more than the gate holds. One fault and one call already
happen in every order relative to the load, the refresh and the deliveries.
`CHECK_DEADLOCK FALSE`: calls and units are used up.

`OrderFeed` lets positions jump, as a resync does, so that it would not see a
publication that the gate dropped; `ViewIsLive` and `UnbrokenOrTold` do. The second also
says what a gate that gives up, being full or without a catalog, owes its consumer:
the error and the close.

The violation, `gate_flush`: `close()` empties a queue that the flush has already
taken over with `splice` (`decimal-surface.ts:221`), so that a consumer which
unsubscribes inside a delivery still gets the rest of it. The comment at line 175 says
that `close()` "permanently prevents future delivery". `QuietAfterTheEnd`, which says
of everything else that an ended subscription hears nothing new, therefore excepts
the flush, and with it the report of missing authentication, which
`connectPrivateOrders` queues and does not take back.

Fairness: the refresh and the import settle, a flush goes on, `ready()` and those
that wait for the module are served, and a stream that is joined opens and
catches up, which is what section 2 checks of it.

### What is proved

For all accounts, histories, catalogs, subscriptions, faults and bounds, in
`OrderSubscriptionProofs`:

- `TypesHold`: `Spec => []TypeOK`.
- `StreamsMatchHolds`: `Spec => []StreamsMatch`, from `GateInv`: a gate is closed
  exactly when its subscription has ended, only a pending gate queues, no epoch is
  later than the client's, and a gate opens only over a catalog.
- `QuietHolds`: `Spec => QuietAfterTheEnd`, from both.
- `UnbrokenHolds`: `Spec => []UnbrokenOrTold`, from `OrderInv` below and `ToldInv`: only
  a full gate and a catalog that fails make a subscription terminal, and both tell
  the consumer in the same step.
- `ViewIsLiveHolds`: `Spec => []ViewIsLive`, from `OrderInv` and `LiveInv`.
  `OrderInv` is about everything a publication can still be in: what waits, in
  the gate or in the flush, goes on from the consumer's position and each from
  the one before, within the log, and the stream stands where the last ends.
  `LiveInv` says that `live` holds the orders of the position the consumer is at,
  without which `onRemoved` could not be complete after a resync.
- `SubscriptionImplementsOrderFeed`: `Spec => ImplementsOrderFeed`. Every step
  attaches a subscription, switches its link, shows it one publication that goes
  on from its position, moves the account, or shows nothing.

The last two rest on one lemma, `StepShape`: a step leaves a
subscription as it is, delivers the next publication of its flush or publishes
through its gate. Assumptions: the sentinels are none of the
values they stand beside, `WithSnapshots` is a set of subscriptions, listings are
sets of orders, the bounds are naturals, a history is a sequence of units.
`EventuallyServed` is model-checked only.

## 6. Services

Four components that share nothing. A behaviour of `MCServices` is of one of
them, chosen by `focus` at the start, so that one run asks about all four.

| module | models |
|---|---|
| `AccountSignerAuth`, `AccountSignerAuthProperties` | `AccountSignerAuthService` over `AuthSessionStore` and the cookies |
| `KeyedFeed`, `KeyedFeedProperties` | `subscribe` of the market overview and `subscribeZippedAssetSupply`, on `SnapshotThenStream` |
| `SmartAccount`, `SmartAccountProperties` | `sendPolyesterUserOperation`, `cachedForTtl`, `waitForPolyesterUserOperationReceipt` |
| `BookDisplay`, `BookDisplayProperties` | what `emit` of the order book shows (section 3) |
| `MCServices` | the instance |
| `BalanceMerge` | `mergeLedgerBalances`, `shouldApplyReconciliationUpdate`: proved, not model-checked |
| `ServicesProofs` | TLAPS proofs about all of them but what a book display adds up |

**Authentication.** `token` and `session` are the two cookies, which other tabs
write too; `user` is what the service shows; `generation` is
`#authOperationGeneration`; `ops` are the logins and restorations in flight, each
with the generation and the token it began with, so that a login is one wait (the
requests in it change nothing between them) and a restoration two (`me()`, then
the signer); `check` is the rejected token being confirmed; `issued` is the
server's side of the tokens. `createSubaccount`, which changes nothing here, and
`syncSessionUsername` are left out; every other public method is an action: `Login`, `RefreshSession`, `RestoreSession`,
`HydrateAuthState`, `SetAccountSigner`, `Logout`, `SwitchAccount`,
`HandleRejectedToken`. `history` records which operation signed in, with which
token, and which signed out last.

A refresh puts back the account that was active when it began, even if another
was chosen meanwhile (`account-signer-auth.ts:462`). The model does so too; no
property is about it, since nothing says which of the two should win.

**Keyed feeds.** Both buffer the newest publication of every key while a
snapshot is under way. `kind` says which of the two feeds a behaviour is of: the
overview waits for its snapshot and does not retry it; the supply retries, and
goes live without a snapshot once the catalog is there. A row is the number of times it changed.
The overview asks for one page, which holds 500 markets by volume when no limit is
given (`market-overview.schemas.ts:161`), and drops `nextPageToken`
(`market-overview.ts:176`): `Pages` are the sets of keys an answer may cover, for the
supply always all. A market beyond the page has no row until it is published, and
nothing tells the consumer so. A snapshot may also lag behind the channel (the fault
`stale`): the feeds carry no sequence, so that its rows stay until the next update of
their key. What the consumer can know since the channel opened is recorded:
`covered`, the keys of the snapshot that was applied, `lagged`, whether it lagged, and
`renewed`, the keys published since (or since that snapshot, if it lagged). Of a quiet
feed `CurrentOrTold` says that the consumer was told of the failure, or has a whole page;
that rows covered up to date and rows renewed are the server's; and that the overview
shows nothing for the other markets, rather than a row of an earlier connection.

**User operations.** Operations of a client share a quoted gas price: `cached` is
the entry of `cachedForTtl`, `quotes` all that were asked for, also those still
awaited by an operation after the cache was dropped. `operation` is where each
is, with its sender (preparing, signing, sending, polling) and with the bundler,
which may refuse it, drop it later, execute it, and forget it by restarting. A
quote is the price the bundler takes at that time, and the price only rises. A
poll asks status and, on every `NotFoundReceiptCheckEvery`-th *not found*, the
chain; the deadline is a number of polls, or finds a request under way
(`PollFails`). A connection that breaks after the bundler took an operation leaves its
sender with an error that names no operation (`smart-account.ts:380`); no property is
about that, as the code promises a hash for other errors only. Nonce, gas estimates, sponsorship and phase reports are left out.

**Book display.** Prices and quantities are numbers here, a side is a function
from prices to quantities, and a bucket is a width in ticks.

| run | asks | instance |
|---|---|---|
| `services` | `SignOutWins`, `SignedInAs`, `OnlyRejectedSignsOut`, `RejectedTokenGoes` of authentication; `CurrentOrTold` of the feeds; `NoSendInVain` of user operations; `ShownFaithfully` of the display | two main accounts, one with a subaccount, three operations, two events outside; two keys, one of them listed, a page of one, rows that change twice, two faults (a snapshot fails or lags, the channel drops), one retry; two operations, three quotes, three polls with the chain asked on every second, two faults; books of five prices, buckets up to three |
| `auth_active` | `ActiveIsOwn` is violated | the same accounts |

Three operations are one in flight, one that overtakes it and one more; two
events outside are another tab's login and the end of its token. With two keys, a
row that is buffered, buffered again and in the snapshot too is told apart from
one that is in one of these only. Every second poll
instead of every fourth asks the same of the counter in half the polls: an
operation can be executed right after the chain was asked. Three quotes are one
that is refused, one that replaces it and is dropped in turn, and one that an
operation gets at last. `CHECK_DEADLOCK FALSE`: calls, faults and books end.

Fairness, of authentication only: requests settle, and a token that the server
rejects goes on being used, as otherwise nothing would show that it is rejected.

The violation is a bug. `restoreSession` keeps the active account it has
(`account-signer-auth.ts:338`), whichever main account `me()` answers for. When
another tab has signed in to another account, the state then shows the new main
account with an active account that is not one of its own, and requests are sent
for that account. `session.types.ts:4` describes the active account as the "main
or subaccount", and of a refresh the tests say that it "resets the active account
when refresh resolves a different main account"
(`account-signer-auth.test.ts:475`).

### What is proved

`ServicesProofs` proves of authentication, for all accounts, tabs and bounds,
assuming of the accounts only that a main account is its own main account:

- `AuthTypesHold`: `AuthSpec => []AuthTypeOK`.
- `SignOutWinsHolds`: `AuthSpec => []SignOutWins`, from `GenerationInv`: the
  operations in flight are of different generations, and one that is current was
  begun after the last sign-out.
- `SignedInAsHolds`: `AuthSpec => []SignedInAs`, from `IdentityInv`, which adds to
  it that a restoration waiting for its signer knows the account of its token.
- `OnlyRejectedSignsOutHolds`: `AuthSpec => OnlyRejectedSignsOut`.

Of the keyed feeds, for all keys, rows, faults and retries, and every page of at
least one row:

- `CurrentOrToldHolds`: `FeedSpec => []CurrentOrTold`, from
  `FeedInvariantHolds`: `FeedSpec => [](FeedTypeOK /\ FeedInv)`. `CurrentOrTold` says
  only what there is when nothing is under way. `FeedInv` says of every state in
  which the channel is open why it will come to that: a row that is behind the
  server's, be it fetched and not yet applied, buffered, or shown, has a newer one on
  the wire (`Fresh`), and the last update of a key on the wire is the server's row
  (`WireInv`). A feed that is not ready awaits a fetch of its present generation, has
  a retry timer set, or has told the consumer that its snapshot failed
  (`SnapshotInv`); a row fetched up to date is fresh unless a newer one is in the buffer
  that is laid over it, and so is every shown row that a page covered up to date or
  that was published since (`RowsInv`). This is where a snapshot that overtakes the updates
  before it, or a late fetch of an earlier generation, would do harm. TLC checked
  `FeedInv` on the instance of `services` first.

Of balances that carry revisions it proves that merging is
idempotent, commutative and associative (`BalancesConverge`), assuming that one
revision of a balance has one amount, as the server's history has; and of
versioned updates that the newest stays, in either order (`UpdatesReconcile`).
There is no state for TLC to explore in them.

Of user operations, for all operations and bounds,
assuming only that the chain is asked every so many polls:

- `SendTypesHold`: `SendSpec => []SendTypeOK`, where a preparing operation waits
  for a quote that was asked for.
- `NoSendInVainHolds`: `SendSpec => []NoSendInVain`, from two invariants.
  `PriceInv`: what is known to be refused is below what the bundler takes, and the
  shared quote, once there, above it, because a refusal forgets the quote; so is
  the quote an operation waits for above what it knew. `WaitInv`: only a forgotten
  operation is polled on after its execution, and each such poll is one nearer to
  the next look at the chain. It needs the remainder of a counter, from
  `NextRemainder`: no more than *N* - 1 such polls lie between two looks.

And of all of them together, `ServicesTypesHold`: `FairSpec => []TypeOK`, where a step of
one leaves the types of the others alone. As these types are proved, no run checks
them.

`RejectedTokenGoes`, a liveness property, is model-checked only. So is
`ShownFaithfully`: buckets and totals are folds over the levels of a book, and what a
fold computes for every input takes an induction over data that these provers cannot
do.

## 7. Plan

What is done is in the sections above. What is left:

1. **Garbled answers** of the private stream: a `Subscribed` that cannot be
   decoded leaves its request pending while the heartbeat is fed
   (`private-orders.ts:367`). The model garbles frames of a sequence only.

Questions of one component share a run where the instance allows, so that the
number of runs stays small as modules are added; runs about one discrepancy each
give way first.

## 8. Not modelled, and why

- **Request/response services** (`src/services/*` apart from those named above),
  schemas and codecs: they validate, call a generated client and convert. There
  is no state to explore.
- **Generated code** (`src/gen`), which is most of the implementation's lines: it
  describes messages and holds no logic. The private WebSocket protocol it
  documents is the external `PrivateServer`.
- **Centrifuge** is external: a client and its subscriptions with the states and
  events `client.ts` relies on, not its frames or backoff.
- **Decimals, base58, 128-bit integers, timestamps** (`src/utils`): conversions
  without state.
- **Of smart accounts**: the clients memoized per account and options, address
  prediction and the gas buffer are lookups and arithmetic.
- **Handlers that throw.** Deliveries are isolated where the code isolates them. A
  consumer's `onError` that throws while it is told of a failed snapshot
  (`snapshot-then-stream.ts:176`) would skip the rest of that `catch`, going live and
  the retry; no model has it.
- **Delays and payloads**, as said with each module.

`PROJECT.json` lists the status of each component, and the hazards no property
covers with the reason.
