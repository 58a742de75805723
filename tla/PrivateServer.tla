---------------------------- MODULE PrivateServer ----------------------------
(***************************************************************************)
(* External: the private WebSocket server as the client in                 *)
(* private-orders.ts uses it (its protocol is documented in                *)
(* src/gen/privatews/v1/private_ws_pb.ts).  `n` is a connection: what has  *)
(* become of the socket, the frames the client has not read, and the       *)
(* server's subscriptions.  A message is handled when it is sent: what the *)
(* server does before reading it, it may as well do earlier.               *)
(***************************************************************************)
EXTENDS OrderHistory

-----------------------------------------------------------------------------

Frame(kind, id, sub, seq, pos, note) ==
    [kind |-> kind, id |-> id, sub |-> sub, seq |-> seq, pos |-> pos, note |-> note]
Reply(kind, id, sub, note) == Frame(kind, id, sub, 0, NoCursor, note)

Offline == [phase |-> "none", wire |-> <<>>, srv |-> {}]

Post(n, f) == [n EXCEPT !.wire = Append(@, f)]

Known(n, sub) == \E r \in n.srv : r.sub = sub

\* The next frames of subscription r's sequence leave it at pos, as q.
Emit(n, r, q, kinds, pos, note) ==
    [n EXCEPT !.wire = @ \o [i \in 1 .. Len(kinds) |->
                               Frame(kinds[i], 0, r.sub, r.seq + i, pos, note)],
              !.srv = (@ \ {r}) \cup {[q EXCEPT !.seq = r.seq + Len(kinds), !.pos = pos]}]

\* A subscription is named after the request that made it; without a position
\* it starts with a snapshot.
Accept(n, id, ch, pos) ==
    [Post(n, Reply("subscribed", id, id, "none")) EXCEPT
        !.srv = @ \cup {[sub |-> id, ch |-> ch, seq |-> 0, pos |-> pos,
                         ready |-> FALSE, stale |-> "no"]}]

Cancel(n, id, sub) ==
    IF n.phase # "open" THEN n
    ELSE [Post(n, IF Known(n, sub) THEN Reply("unsubscribed", id, sub, "none")
                                   ELSE Reply("error", id, sub, "unknown"))
            EXCEPT !.srv = {r \in @ : r.sub # sub}]

Renew(n, id, sub) ==
    IF n.phase # "open" THEN n
    ELSE Post(n, IF Known(n, sub) THEN Reply("refreshed", id, sub, "none")
                                  ELSE Reply("error", id, sub, "unknown"))

\* What the server may send by itself at account position `at`.
Serving(n, r, at) ==
    IF r.pos = NoCursor THEN {Emit(n, r, r, <<"begin", "page", "end">>, at, "none")}
    ELSE IF r.pos < at
    THEN LET u == Units[r.pos + 1]
         IN  {Emit(n, r, r, <<IF u.put \cup u.removed = {} THEN "covered" ELSE "unit">>,
                   r.pos + 1, "none")}
    ELSE {Emit(n, r, [r EXCEPT !.ready = TRUE], <<"ready">>, r.pos, "none") : x \in {r.ready} \ {TRUE}}

Recovering(n, r) ==
    {Emit(n, r, [r EXCEPT !.stale = "no"], <<"available">>, r.pos, "no") : x \in {r.stale} \ {"no"}}

\* What it sends when something is wrong, by the name of the fault.
Failing(n, r, kind, at) ==
    CASE kind = "shortSnapshot" /\ r.pos = NoCursor -> {Emit(n, r, r, <<"begin", "end">>, at, "none")}
      [] kind = "unavailable" -> {Emit(n, r, [r EXCEPT !.stale = scope], <<kind>>, r.pos, scope)
                                    : scope \in Scopes \ {"no", r.stale}}
      [] kind = "expiring"    -> {Post(n, Reply(kind, 0, r.sub, "none"))}
      [] kind = "ended"       -> {[Post(n, Reply("unsubscribed", 0, r.sub, "none")) EXCEPT !.srv = @ \ {r}]}
      [] kind = "forgotten"   -> {[Post(n, Reply("error", 0, r.sub, "unknown")) EXCEPT !.srv = @ \ {r}]}
      [] kind = "streamError" -> {Post(n, Reply("error", 0, r.sub, "other"))}
      [] OTHER -> {}
==============================================================================
