----------------------------- MODULE BalanceMerge -----------------------------
(***************************************************************************)
(* mergeLedgerBalances (src/services/balances/balances.merge.ts) and       *)
(* shouldApplyReconciliationUpdate (src/shared/reconciliation.ts): how     *)
(* updates of one balance, or of one entity, that arrive out of order or   *)
(* twice are laid over what is known.                                      *)
(*                                                                         *)
(* Revisions and timestamps are decimal strings without a bound, which     *)
(* compareUnsignedIntegerStrings compares as the numbers they write: here  *)
(* they are natural numbers.  `trading` is the trading, reserved and       *)
(* available amounts, which have one revision.                             *)
(***************************************************************************)
EXTENDS Integers

\* The server sends no revisions, as all of them are 0.
HasRevisions(existing, incoming) ==
    \E balance \in {existing, incoming} : balance.tradingRevision > 0 \/ balance.fundingRevision > 0

\* A balance laid over one of the same asset.
Merged(existing, incoming) ==
    LET tradingIsNewer == incoming.tradingRevision > existing.tradingRevision
        fundingIsNewer == incoming.fundingRevision > existing.fundingRevision
        trading        == IF tradingIsNewer THEN incoming ELSE existing
        funding        == IF fundingIsNewer THEN incoming ELSE existing
    IN  IF ~HasRevisions(existing, incoming) THEN incoming
        ELSE [tradingRevision |-> trading.tradingRevision, trading |-> trading.trading,
              fundingRevision |-> funding.fundingRevision, funding |-> funding.funding]

\* mergeLedgerBalances: `known` is the singleton of the balance there is, or empty.
MergeLedgerBalances(known, incoming) ==
    IF known = {} THEN {incoming} ELSE {Merged(existing, incoming) : existing \in known}

Unversioned == -1            \* no timestamp

\* shouldApplyReconciliationUpdate
ShouldApply(existing, incoming) ==
    \/ existing = Unversioned
    \/ incoming # Unversioned /\ incoming > existing

\* What an update with a timestamp leaves of a value with one.
Reconciled(existing, incoming) ==
    IF ShouldApply(existing.timestamp, incoming.timestamp) THEN incoming ELSE existing
===============================================================================
