---------------------- MODULE AccountSignerAuthProperties ----------------------
(* What AccountSignerAuth guarantees: types, safety, liveness.             *)
EXTENDS AccountSignerAuth

Sessions == [env : {"none", "own", "foreign"}, main : Accounts \cup {NoAccount},
             active : Accounts \cup {NoAccount}]
Tokens   == 0 .. Len(issued)
Users    == [main : Accounts \cup {NoAccount}, active : Accounts \cup {NoAccount}]
Ops      == [kind : {"login", "restore", "signer"}, generation : 1 .. generation, token : Tokens,
             account : Accounts \cup {NoAccount}, main : Accounts \cup {NoAccount}]
Issued   == [account : Accounts, state : {"good", "revoked", "expired"}]

StoreTypes   == token \in Tokens /\ session \in Sessions /\ check \in Tokens
UserTypes    == user \in Users /\ signer \in BOOLEAN
OpTypes      == ops \subseteq Ops /\ \A o \in ops : o.kind # "login" => o.token # NoToken
HistoryTypes == history \in [signedIn : 0 .. generation, signedOut : 0 .. generation, from : Tokens]
IssuedTypes  == issued \in Seq(Issued)
CountTypes   == generation \in Nat /\ outside \in Nat

AuthTypeOK ==
    StoreTypes /\ UserTypes /\ OpTypes /\ HistoryTypes /\ IssuedTypes /\ CountTypes

-----------------------------------------------------------------------------

\* "A later login, logout, signer change, or restore makes older work
\* observational only" (#authOperationGeneration): who is signed in was signed
\* in by an operation begun after the last sign-out.
SignOutWins == IsAuthenticated => history.signedIn > history.signedOut

\* The account shown is the one the stored token is for, unless another tab has
\* stored that token since, or the application has said otherwise.
SignedInAs ==
    IsAuthenticated /\ history.from # NoToken /\ token = history.from
        => user.main = AccountOf(token)

\* Whatever rejections arrive when, the user is signed out only by logout() or
\* for a token that is gone, foreign or no longer accepted; and a login in
\* flight is stopped only by a later call or by another tab.
OnlyRejectedSignsOut ==
    [][/\ IsAuthenticated /\ ~IsAuthenticated' =>
             Logout \/ BoundToken = NoToken \/ ~IsGood(token)
       /\ \A o \in LoginsInFlight :
             IsCurrent(o) /\ o \in ops' /\ ~IsCurrent(o)' =>
                AuthCalls \/ TabLogsIn \/ TabLogsOut]_authVars

-----------------------------------------------------------------------------

\* A token the server rejects does not stay: the session ends or the token is
\* replaced, whatever checks were shared or failed.
RejectedTokenGoes == <>[](token = NoToken \/ IsGood(token))

-----------------------------------------------------------------------------

\* "resets the active account when refresh resolves a different main account"
\* (account-signer-auth.test.ts): the active account is one of the account
\* signed in.
ActiveIsOwn == IsAuthenticated => MainOf[user.active] = user.main
================================================================================
