---------------------------- MODULE ClientCatalog ----------------------------
(***************************************************************************)
(* createPolyesterCatalog (src/catalogs/client-catalog.ts): the snapshot   *)
(* of assets and pairs that decimal conversion needs.  Its variables are a *)
(* record `cat`, each of its functions an operator on it.                  *)
(***************************************************************************)

\* `listed` is the singleton of what the current snapshot lists, or empty.
EmptyCatalog == [listed |-> {}, status |-> "empty", inFlight |-> FALSE]

HasSnapshot(cat) == cat.listed # {}
Lists(cat, x)    == \E listing \in cat.listed : x \in listing

\* setSnapshot, also while a refresh is in flight.
SetSnapshot(cat, listing) == [cat EXCEPT !.listed = {listing}, !.status = "fresh"]

\* refresh; one in flight is shared.
Refreshing(cat) ==
    IF cat.inFlight THEN cat ELSE [cat EXCEPT !.status = "refreshing", !.inFlight = TRUE]

\* The refresh in flight succeeds.
RefreshSucceeded(cat, listing) == [SetSnapshot(cat, listing) EXCEPT !.inFlight = FALSE]

\* The refresh in flight fails: a snapshot there is stays, and is called stale.
RefreshFailed(cat) == [cat EXCEPT !.status = "stale", !.inFlight = FALSE]

\* Mutant: ready() is passive, as the catalog's own ready() is.
EnsuredPassively(cat) == cat
\* ensureReady: an empty catalog is refreshed.
Ensured(cat) == IF HasSnapshot(cat) THEN cat ELSE Refreshing(cat)
\* What its caller waits for.
Awaited(cat) == IF HasSnapshot(cat) THEN "resolved" ELSE "refresh"
==============================================================================
