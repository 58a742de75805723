--------------------------- MODULE AccountSignerAuth ---------------------------
(***************************************************************************)
(* AccountSignerAuthService (src/services/auth/account-signer-auth.ts)     *)
(* over AuthSessionStore (session.ts) and the token storage: sign-in with  *)
(* a wallet, refresh, restoration, sign-out, and what is done about a      *)
(* token the server rejects, in one tab of a browser whose other tabs      *)
(* write the same cookies.                                                 *)
(*                                                                         *)
(* An operation is known by its generation.  The requests of a login       *)
(* (signer, challenge, signature, exchange) change nothing between them    *)
(* and are one wait; those of a restoration are two.                       *)
(***************************************************************************)
EXTENDS Integers, Sequences, FiniteSets

CONSTANTS Accounts, NoAccount,
          MainOf,                \* the main account of every account
          TabActions,            \* what other tabs and the server may do
          MaxGeneration,         \* bound: calls of the application that begin an operation
          MaxOutside             \* bound: how often something happens outside, or fails

ASSUME AuthAssumption == /\ NoAccount \notin Accounts
                         /\ MainOf \in [Accounts -> Accounts]
                         /\ \A a \in Accounts : MainOf[MainOf[a]] = MainOf[a]
                         /\ MaxGeneration \in Nat /\ MaxOutside \in Nat

VARIABLES token, session,        \* the two cookies all tabs share
          user,                  \* #isAuthenticated, #mainAccountId, #activeAccountId
          signer,                \* whether there is an #accountSigner
          generation,            \* #authOperationGeneration
          ops,                   \* logins and restorations in flight
          check,                 \* #rejectedTokenCheck: the token it is about
          issued,                \* external: the server's tokens
          outside,
          history                \* which operation signed in, and when it was last signed out

authVars == <<token, session, user, signer, generation, ops, check, issued, outside, history>>

NoToken   == 0
NoSession == [env |-> "none", main |-> NoAccount, active |-> NoAccount]
SignedOut == [main |-> NoAccount, active |-> NoAccount]
NoOne     == SignedOut
Mains     == {MainOf[a] : a \in Accounts}

IsAuthenticated == user.main # NoAccount
AccountOf(t)    == issued[t].account
IsGood(t)       == issued[t].state = "good"
IsJwtValid(t)   == issued[t].state \in {"good", "revoked"}

Outside(what) == what \in TabActions /\ outside < MaxOutside /\ outside' = outside + 1

\* The display session, when it is of this environment.
EnvironmentSession == IF session.env = "own" THEN session ELSE NoSession

\* A token kept beside another environment's session.
IsForeign == token # NoToken /\ session.env = "foreign"
\* getEnvironmentBoundToken returns no token then, and clears both cookies.
BoundToken == IF IsForeign THEN NoToken ELSE token
CookiesRead == IF IsForeign THEN token' = NoToken /\ session' = NoSession
               ELSE UNCHANGED <<token, session>>

LoginsInFlight == {o \in ops : o.kind = "login"}

\* Mutant: the generation is not compared.
IsCurrentToken(o) == token = o.token
\* Mutant: the token is not compared.
IsCurrentGeneration(o) == o.generation = generation
\* #isCurrentAuthOperation
IsCurrent(o) == o.generation = generation /\ token = o.token

\* Mutant: a login in flight does not matter.
IsStoredToken(t) == BoundToken = t
\* #isRejectableToken
IsRejectable(t) == LoginsInFlight = {} /\ BoundToken = t

\* #beginAuthOperation, by the application.
Begin == generation < MaxGeneration /\ generation' = generation + 1

\* logout and #clearExpiredSessionState, in operation g: everything is gone.
Cleared(g) ==
    /\ token' = NoToken /\ session' = NoSession
    /\ user' = SignedOut
    /\ history' = [history EXCEPT !.signedOut = g]

\* The state is set by operation g, while token t is stored.
SignedIn(main, active, g, t) ==
    /\ user' = [main |-> main, active |-> active]
    /\ history' = [history EXCEPT !.signedIn = g, !.from = t]

-----------------------------------------------------------------------------
(* Calls of the application.                                               *)

\* login and refreshSession, until the wallet and the server have answered;
\* a refresh keeps in mind which account was active.
StartLogin(previous) ==
    /\ Begin
    /\ ops' = ops \cup {[kind |-> "login", generation |-> generation', token |-> token,
                         account |-> previous.active, main |-> previous.main]}
    /\ UNCHANGED <<token, session, user, signer, check, issued, outside, history>>

Login == StartLogin(NoOne)
RefreshSession ==
    /\ IsAuthenticated
    /\ StartLogin([main |-> EnvironmentSession.main, active |-> EnvironmentSession.active])

\* restoreSession, until its me().
RestoreSession ==
    /\ Begin
    /\ IF BoundToken # NoToken /\ IsJwtValid(BoundToken)
       THEN /\ ops' = ops \cup {[kind |-> "restore", generation |-> generation',
                                 token |-> token, account |-> NoAccount, main |-> NoAccount]}
            /\ UNCHANGED <<token, session, user, history>>
       ELSE Cleared(generation + 1) /\ UNCHANGED ops
    /\ UNCHANGED <<signer, check, issued, outside>>

\* hydrateAuthState, with the state a server has rendered for some token.
HydrateAuthState ==
    /\ Begin
    /\ CookiesRead
    /\ IF BoundToken # NoToken /\ IsJwtValid(BoundToken)
       THEN \E a \in Accounts :
               /\ \E t \in DOMAIN issued : AccountOf(t) = MainOf[a]
               /\ SignedIn(MainOf[a], a, generation + 1, NoToken)
       ELSE UNCHANGED <<user, history>>
    /\ UNCHANGED <<signer, ops, check, issued, outside>>

SetAccountSigner ==
    /\ Begin
    /\ signer' \in BOOLEAN
    /\ UNCHANGED <<token, session, user, ops, check, issued, outside, history>>

Logout ==
    /\ Begin
    /\ Cleared(generation + 1)
    /\ UNCHANGED <<signer, ops, check, issued, outside>>

\* switchAccount, to an account of the user.
SwitchAccount ==
    /\ IsAuthenticated
    /\ \E a \in Accounts :
          /\ MainOf[a] = user.main /\ a # user.active
          /\ user' = [user EXCEPT !.active = a]
          /\ session' = IF session.env = "own" THEN [session EXCEPT !.active = a] ELSE session
    /\ UNCHANGED <<token, signer, generation, ops, check, issued, outside, history>>

-----------------------------------------------------------------------------
(* What they wait for.                                                     *)

\* The server has issued a token for `main`: commitLogin.
CommitLogin(o, main) ==
    LET active == IF o.main = main THEN o.account ELSE main
    IN  /\ issued' = Append(issued, [account |-> main, state |-> "good"])
        /\ token' = Len(issued')
        /\ session' = [env |-> "own", main |-> main, active |-> active]
        /\ SignedIn(main, active, o.generation, Len(issued) + 1)
        /\ signer' = TRUE

LoginSettles(o) ==
    /\ o.kind = "login"
    /\ ops' = ops \ {o}
    /\ \/ IsCurrent(o) /\ (\E main \in Mains : CommitLogin(o, main))
       \/ UNCHANGED <<token, session, user, signer, issued, history>>   \* refused, failed or superseded
    /\ UNCHANGED <<generation, check, outside>>

\* The end of restoreSession, when me() and the signer are there.
Restored(o, main, hasSigner) ==
    LET s      == EnvironmentSession
        active == IF user.active # NoAccount THEN user.active
                  ELSE IF s.active # NoAccount THEN s.active ELSE main
    IN  IF ~IsJwtValid(o.token) \/ IsForeign
        THEN Cleared(generation)
        ELSE /\ SignedIn(main, active, o.generation, token)
             /\ session' = IF hasSigner /\ s = NoSession
                           THEN [env |-> "own", main |-> main, active |-> main] ELSE session
             /\ UNCHANGED token

\* me() answers a restoration.
RestoreHearsMe(o) ==
    /\ o.kind = "restore"
    /\ \/ /\ IsGood(o.token) /\ IsCurrent(o) /\ signer
          /\ Restored(o, AccountOf(o.token), TRUE)
          /\ ops' = ops \ {o}
       \/ /\ IsGood(o.token) /\ IsCurrent(o) /\ ~signer
          /\ ops' = (ops \ {o}) \cup {[o EXCEPT !.kind = "signer", !.main = AccountOf(o.token)]}
          /\ UNCHANGED <<token, session, user, history>>
       \/ /\ ~IsGood(o.token) /\ IsCurrent(o)
          /\ Cleared(generation)
          /\ ops' = ops \ {o}
       \/ /\ ops' = ops \ {o}                   \* a transient failure, or superseded
          /\ UNCHANGED <<token, session, user, history>>
    /\ UNCHANGED <<signer, generation, check, issued, outside>>

\* resolveAccountSigner answers a restoration: with a signer, none or an error.
RestoreHasSigner(o) ==
    /\ o.kind = "signer"
    /\ ops' = ops \ {o}
    /\ \/ /\ IsCurrent(o)
          /\ signer' \in BOOLEAN
          /\ Restored(o, o.main, signer')
       \/ UNCHANGED <<token, session, user, signer, history>>
    /\ UNCHANGED <<generation, check, issued, outside>>

\* handleRejectedToken, after some endpoint answered 401 to a request with token
\* t: me() is asked, once for all.
HandleRejectedToken(t) ==
    /\ LoginsInFlight = {}
    /\ CookiesRead
    /\ check' = IF BoundToken = t /\ check = NoToken THEN t ELSE check
    /\ UNCHANGED <<user, signer, generation, ops, issued, outside, history>>

\* Mutant: the check is never over.
CheckKept(t) == t
\* finally: the check is over.
CheckOver(t) == NoToken

\* #confirmRejectedToken, when its me() was rejected.
RejectionConfirmed ==
    /\ check # NoToken /\ ~IsGood(check)
    /\ check' = CheckOver(check)
    /\ IF IsRejectable(check)
       THEN generation' = generation + 1 /\ Cleared(generation + 1)
       ELSE /\ IF LoginsInFlight = {} THEN CookiesRead ELSE UNCHANGED <<token, session>>
            /\ UNCHANGED <<generation, user, history>>
    /\ UNCHANGED <<signer, ops, issued, outside>>

\* Its me() was accepted, or failed.
RejectionDenied ==
    /\ check # NoToken
    /\ IF IsGood(check) THEN UNCHANGED outside ELSE Outside("failure")
    /\ check' = CheckOver(check)
    /\ UNCHANGED <<token, session, user, signer, generation, ops, issued, history>>

-----------------------------------------------------------------------------
(* External: the other tabs and the server.                                *)

TabLogsIn ==
    /\ \E env \in {"own", "foreign"}, main \in Mains :
          /\ Outside(env)
          /\ issued' = Append(issued, [account |-> main,
                                       state |-> IF env = "own" THEN "good" ELSE "revoked"])
          /\ session' = [env |-> env, main |-> main, active |-> main]
    /\ token' = Len(issued')
    /\ UNCHANGED <<user, signer, generation, ops, check, history>>

TabLogsOut ==
    /\ token # NoToken /\ Outside("logout")
    /\ token' = NoToken /\ session' = NoSession
    /\ UNCHANGED <<user, signer, generation, ops, check, issued, history>>

TokenEnds ==
    /\ \E t \in DOMAIN issued, state \in {"revoked", "expired"} :
          /\ IsGood(t) /\ Outside(state)
          /\ issued' = [issued EXCEPT ![t].state = state]
    /\ UNCHANGED <<token, session, user, signer, generation, ops, check, history>>

-----------------------------------------------------------------------------

AuthInit ==
    /\ token = NoToken /\ session = NoSession
    /\ user = SignedOut /\ signer = FALSE
    /\ generation = 0 /\ ops = {} /\ check = NoToken
    /\ issued = <<>> /\ outside = 0
    /\ history = [signedIn |-> 0, signedOut |-> 0, from |-> NoToken]

AuthCalls == \/ Login \/ RefreshSession \/ RestoreSession \/ HydrateAuthState
             \/ SetAccountSigner \/ Logout \/ SwitchAccount

AuthAnswers == \/ \E t \in DOMAIN issued : HandleRejectedToken(t)
               \/ RejectionConfirmed \/ RejectionDenied
               \/ \E o \in ops : LoginSettles(o) \/ RestoreHearsMe(o) \/ RestoreHasSigner(o)

AuthNext == AuthCalls \/ AuthAnswers \/ TabLogsIn \/ TabLogsOut \/ TokenEnds

AuthSpec == AuthInit /\ [][AuthNext]_authVars

\* Requests settle, and a token the server rejects goes on being used.
AuthFairness ==
    /\ WF_authVars(\E o \in ops : LoginSettles(o) \/ RestoreHearsMe(o) \/ RestoreHasSigner(o))
    /\ WF_authVars(RejectionConfirmed \/ RejectionDenied)
    /\ WF_authVars(token # NoToken /\ ~IsGood(token) /\ HandleRejectedToken(token))
================================================================================
