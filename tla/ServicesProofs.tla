----------------------------- MODULE ServicesProofs ----------------------------
(***************************************************************************)
(* Proofs about the services that share nothing with one another: account  *)
(* signer authentication, the feed by key with the balances and entities   *)
(* that are merged into it, and the smart account's user operations; and,  *)
(* at the end, about MCServices, which runs them side by side.             *)
(***************************************************************************)
EXTENDS MCServices, BalanceMerge, SequenceTheorems, TLAPS

------------------------------------------------------------------------------
(***************************************************************************)
(* AccountSignerAuth, for all accounts, calls and tabs.                      *)
(***************************************************************************)

-----------------------------------------------------------------------------
(* Shared steps.                                                           *)

LEMMA CookieTypes ==
    ASSUME StoreTypes
    PROVE  BoundToken \in Tokens /\ EnvironmentSession \in Sessions
  BY DEF StoreTypes, BoundToken, EnvironmentSession, Sessions, NoSession, Tokens, NoToken

LEMMA CookiesReadTypes ==
    ASSUME StoreTypes, IssuedTypes, CookiesRead, UNCHANGED <<issued, check>>
    PROVE  StoreTypes'
  BY DEF StoreTypes, IssuedTypes, CookiesRead, NoSession, NoToken, Sessions, Tokens

LEMMA ClearedTypes ==
    ASSUME StoreTypes, IssuedTypes, HistoryTypes, CountTypes,
           NEW g \in 0 .. generation', Cleared(g), UNCHANGED <<issued>>,
           generation' \in Nat, generation' >= generation, check' \in Tokens,
           signer' \in BOOLEAN
    PROVE  StoreTypes' /\ UserTypes' /\ HistoryTypes'
  BY DEF StoreTypes, IssuedTypes, HistoryTypes, CountTypes, UserTypes, Users, Cleared, NoSession, NoToken,
         SignedOut, Sessions, Tokens

LEMMA SignedInTypes ==
    ASSUME HistoryTypes, CountTypes, NEW main \in Accounts \cup {NoAccount}, NEW active \in Accounts \cup {NoAccount},
           NEW g \in 0 .. generation', NEW t \in Tokens', SignedIn(main, active, g, t),
           generation' \in Nat, generation' >= generation, signer' \in BOOLEAN
    PROVE  UserTypes' /\ HistoryTypes'
<1>1. user' \in Users /\ UserTypes'
  BY DEF SignedIn, UserTypes, Users
<1>2. history'.signedIn = g /\ history'.from = t /\ history'.signedOut = history.signedOut
      /\ history' \in [signedIn : 0 .. generation', signedOut : 0 .. generation', from : Tokens']
  <2>1. history' = [history EXCEPT !.signedIn = g, !.from = t]
    BY DEF SignedIn
  <2>2. history.signedOut \in 0 .. generation'
    BY DEF HistoryTypes, CountTypes
  <2>3. QED
    BY <2>1, <2>2 DEF HistoryTypes
<1>3. QED
  BY <1>1, <1>2 DEF HistoryTypes

-----------------------------------------------------------------------------
(* Types.                                                                  *)

LEMMA StartLoginTypes ==
    ASSUME AuthTypeOK, NEW p, p.main \in Accounts \cup {NoAccount},
           p.active \in Accounts \cup {NoAccount}, StartLogin(p)
    PROVE  AuthTypeOK'
<1>1. StoreTypes /\ UserTypes /\ OpTypes /\ HistoryTypes /\ IssuedTypes /\ CountTypes
  BY DEF AuthTypeOK
<1>2. generation' = generation + 1 /\ CountTypes'
  BY <1>1 DEF StartLogin, Begin, CountTypes
<1>3. StoreTypes' /\ UserTypes' /\ IssuedTypes'
  BY <1>1 DEF StartLogin, StoreTypes, UserTypes, IssuedTypes, Tokens
<1>4. HistoryTypes'
  BY <1>1, <1>2 DEF StartLogin, HistoryTypes, Tokens, CountTypes
<1>5. OpTypes'
  BY <1>1, <1>2 DEF StartLogin, OpTypes, Ops, StoreTypes, CountTypes, Tokens
<1>6. QED
  BY <1>2, <1>3, <1>4, <1>5 DEF AuthTypeOK

LEMMA CallTypes ==
    ASSUME AuthTypeOK, AuthCalls
    PROVE  AuthTypeOK'
<1>1. StoreTypes /\ UserTypes /\ OpTypes /\ HistoryTypes /\ IssuedTypes /\ CountTypes
  BY DEF AuthTypeOK
<1>b. BoundToken \in Tokens /\ EnvironmentSession \in Sessions
  BY <1>1, CookieTypes
<1>2. CASE Login
  BY <1>2, StartLoginTypes DEF Login, NoOne, SignedOut
<1>3. CASE RefreshSession
  <2>1. EnvironmentSession.main \in Accounts \cup {NoAccount}
        /\ EnvironmentSession.active \in Accounts \cup {NoAccount}
    BY <1>b DEF Sessions
  <2> DEFINE p == [main |-> EnvironmentSession.main, active |-> EnvironmentSession.active]
  <2>2. StartLogin(p) /\ p.main \in Accounts \cup {NoAccount} /\ p.active \in Accounts \cup {NoAccount}
    BY <1>3, <2>1 DEF RefreshSession
  <2> HIDE DEF p
  <2>3. QED
    BY <2>2, StartLoginTypes
<1>4. CASE RestoreSession
  <2>1. generation' = generation + 1 /\ CountTypes' /\ IssuedTypes'
    BY <1>1, <1>4 DEF RestoreSession, Begin, CountTypes, IssuedTypes
  <2>2. CASE BoundToken # NoToken /\ IsJwtValid(BoundToken)
    <3>1. StoreTypes' /\ UserTypes' /\ HistoryTypes'
      BY <1>1, <1>4, <2>1, <2>2 DEF RestoreSession, StoreTypes, UserTypes, HistoryTypes, Tokens, CountTypes
    <3>2. token # NoToken
      BY <2>2 DEF BoundToken
    <3>3. OpTypes'
      BY <1>1, <1>4, <2>1, <2>2, <3>2 DEF RestoreSession, OpTypes, Ops, StoreTypes, CountTypes, Tokens
    <3>4. QED
      BY <2>1, <3>1, <3>3 DEF AuthTypeOK
  <2>3. CASE ~(BoundToken # NoToken /\ IsJwtValid(BoundToken))
    <3>1. Cleared(generation + 1) /\ UNCHANGED <<ops, signer, check, issued>>
      BY <1>4, <2>3 DEF RestoreSession
    <3>2. check' \in Tokens /\ signer' \in BOOLEAN
      BY <1>1, <3>1 DEF StoreTypes, UserTypes
    <3>3. StoreTypes' /\ UserTypes' /\ HistoryTypes'
      BY <1>1, <2>1, <3>1, <3>2, ClearedTypes DEF CountTypes
    <3>4. OpTypes'
      BY <1>1, <2>1, <3>1 DEF OpTypes, Ops, Tokens, CountTypes
    <3>5. QED
      BY <2>1, <3>3, <3>4 DEF AuthTypeOK
  <2>4. QED
    BY <2>2, <2>3
<1>5. CASE HydrateAuthState
  <2>1. generation' = generation + 1 /\ CountTypes' /\ IssuedTypes' /\ UNCHANGED <<issued, check, ops, signer>>
    BY <1>1, <1>5 DEF HydrateAuthState, Begin, CountTypes, IssuedTypes
  <2>2. StoreTypes'
    BY <1>1, <1>5, <2>1, CookiesReadTypes DEF HydrateAuthState
  <2>3. OpTypes'
    BY <1>1, <2>1 DEF OpTypes, Ops, Tokens, CountTypes
  <2>4. UserTypes' /\ HistoryTypes'
    <3>1. CASE UNCHANGED <<user, history>>
      BY <1>1, <2>1, <3>1 DEF UserTypes, HistoryTypes, Tokens, CountTypes
    <3>2. CASE \E a \in Accounts : SignedIn(MainOf[a], a, generation + 1, NoToken)
      <4>1. PICK a \in Accounts : SignedIn(MainOf[a], a, generation + 1, NoToken)
        BY <3>2
      <4>2. MainOf[a] \in Accounts
        BY AuthAssumption
      <4>3. QED
        BY <1>1, <2>1, <4>1, <4>2, SignedInTypes DEF CountTypes, NoToken, IssuedTypes, Tokens, UserTypes
    <3>3. QED
      BY <1>5, <3>1, <3>2 DEF HydrateAuthState
  <2>5. QED
    BY <2>1, <2>2, <2>3, <2>4 DEF AuthTypeOK
<1>6. CASE SetAccountSigner
  <2>1. generation' = generation + 1 /\ CountTypes' /\ IssuedTypes'
    BY <1>1, <1>6 DEF SetAccountSigner, Begin, CountTypes, IssuedTypes
  <2>2. StoreTypes' /\ UserTypes' /\ HistoryTypes' /\ OpTypes'
    BY <1>1, <1>6, <2>1 DEF SetAccountSigner, StoreTypes, UserTypes, HistoryTypes, OpTypes, Ops, Tokens, CountTypes
  <2>3. QED
    BY <2>1, <2>2 DEF AuthTypeOK
<1>7. CASE Logout
  <2>1. generation' = generation + 1 /\ CountTypes' /\ IssuedTypes'
    BY <1>1, <1>7 DEF Logout, Begin, CountTypes, IssuedTypes
  <2>2. Cleared(generation + 1) /\ UNCHANGED <<ops, signer, check, issued>>
    BY <1>7 DEF Logout
  <2>3. check' \in Tokens /\ signer' \in BOOLEAN
    BY <1>1, <2>2 DEF StoreTypes, UserTypes
  <2>4. StoreTypes' /\ UserTypes' /\ HistoryTypes'
    BY <1>1, <2>1, <2>2, <2>3, ClearedTypes DEF CountTypes
  <2>5. OpTypes'
    BY <1>1, <2>1, <2>2 DEF OpTypes, Ops, Tokens, CountTypes
  <2>6. QED
    BY <2>1, <2>4, <2>5 DEF AuthTypeOK
<1>8. CASE SwitchAccount
  <2>1. PICK a \in Accounts :
           /\ user' = [user EXCEPT !.active = a]
           /\ session' = IF session.env = "own" THEN [session EXCEPT !.active = a] ELSE session
    BY <1>8 DEF SwitchAccount
  <2>2. UNCHANGED <<token, signer, generation, ops, check, issued, outside, history>>
    BY <1>8 DEF SwitchAccount
  <2>3. user' \in Users
    BY <1>1, <2>1 DEF UserTypes, Users
  <2>4. session' \in Sessions
    BY <1>1, <2>1 DEF StoreTypes, Sessions
  <2>5. QED
    BY <1>1, <2>2, <2>3, <2>4 DEF AuthTypeOK, StoreTypes, UserTypes, OpTypes, HistoryTypes, IssuedTypes, CountTypes, Ops, Tokens
<1>9. QED
  BY <1>2, <1>3, <1>4, <1>5, <1>6, <1>7, <1>8 DEF AuthCalls

\* A token in use is one the server has issued.
LEMMA IssuedAccount ==
    ASSUME IssuedTypes, NEW t \in Tokens, t # NoToken
    PROVE  t \in DOMAIN issued /\ AccountOf(t) \in Accounts
<1>1. t \in DOMAIN issued
  BY DEF IssuedTypes, Tokens, NoToken
<1>2. issued[t] \in Issued
  BY <1>1, ElementOfSeq DEF IssuedTypes
<1>3. QED
  BY <1>1, <1>2 DEF AccountOf, Issued

LEMMA CommitLoginTypes ==
    ASSUME AuthTypeOK, NEW o \in ops, NEW main \in Mains, CommitLogin(o, main),
           UNCHANGED <<generation, check, outside>>, ops' = ops \ {o}
    PROVE  AuthTypeOK'
<1>1. StoreTypes /\ UserTypes /\ OpTypes /\ HistoryTypes /\ IssuedTypes /\ CountTypes
  BY DEF AuthTypeOK
<1>2. main \in Accounts
  BY AuthAssumption DEF Mains
<1> DEFINE active == IF o.main = main THEN o.account ELSE main
<1>3. active \in Accounts \cup {NoAccount} /\ o.generation \in 1 .. generation
  BY <1>1, <1>2 DEF OpTypes, Ops
<1>4. /\ issued' = Append(issued, [account |-> main, state |-> "good"])
      /\ token' = Len(issued')
      /\ session' = [env |-> "own", main |-> main, active |-> active]
      /\ SignedIn(main, active, o.generation, Len(issued) + 1)
      /\ signer' = TRUE
  BY DEF CommitLogin
<1> HIDE DEF active
<1>5. IssuedTypes' /\ Len(issued') = Len(issued) + 1 /\ Len(issued) \in Nat
  BY <1>1, <1>2, <1>4 DEF IssuedTypes, Issued
<1>6. StoreTypes'
  BY <1>1, <1>2, <1>3, <1>4, <1>5 DEF StoreTypes, Tokens, Sessions
<1>7. UserTypes' /\ HistoryTypes'
  <2>1. Len(issued) + 1 \in Tokens'
    BY <1>5 DEF Tokens
  <2>2. o.generation \in 0 .. generation' /\ generation' \in Nat /\ generation' >= generation
    BY <1>1, <1>3 DEF CountTypes
  <2>3. QED
    BY <1>1, <1>2, <1>3, <1>4, <2>1, <2>2, SignedInTypes
<1>8. OpTypes'
  BY <1>1, <1>5 DEF OpTypes, Ops, Tokens
<1>9. QED
  BY <1>1, <1>5, <1>6, <1>7, <1>8 DEF AuthTypeOK, CountTypes

LEMMA RestoredTypes ==
    ASSUME StoreTypes, UserTypes, HistoryTypes, IssuedTypes, CountTypes,
           NEW o, o.generation \in 1 .. generation,
           NEW main \in Accounts \cup {NoAccount}, NEW has \in BOOLEAN,
           Restored(o, main, has), UNCHANGED <<generation, check, issued>>, signer' \in BOOLEAN
    PROVE  StoreTypes' /\ UserTypes' /\ HistoryTypes'
<1>g. generation' \in Nat /\ generation' >= generation /\ generation \in 0 .. generation'
      /\ check' \in Tokens
  BY DEF CountTypes, StoreTypes
<1>1. CASE ~IsJwtValid(o.token) \/ IsForeign
  BY <1>g, <1>1, ClearedTypes DEF Restored
<1>2. CASE ~(~IsJwtValid(o.token) \/ IsForeign)
  <2> DEFINE active == IF user.active # NoAccount THEN user.active
                       ELSE IF EnvironmentSession.active # NoAccount THEN EnvironmentSession.active
                       ELSE main
  <2>1. active \in Accounts \cup {NoAccount}
    <3>1. EnvironmentSession.active \in Accounts \cup {NoAccount}
      BY CookieTypes DEF Sessions
    <3>2. QED
      BY <3>1 DEF UserTypes, Users
  <2>2. /\ SignedIn(main, active, o.generation, token)
        /\ session' \in {session, [env |-> "own", main |-> main, active |-> main]}
        /\ UNCHANGED token
    BY <1>2 DEF Restored
  <2> HIDE DEF active
  <2>3. StoreTypes'
    BY <2>2 DEF StoreTypes, Sessions, Tokens
  <2>4. token \in Tokens' /\ o.generation \in 0 .. generation'
    BY <1>g DEF StoreTypes, Tokens, CountTypes
  <2>5. UserTypes' /\ HistoryTypes'
    BY <1>g, <2>1, <2>2, <2>4, SignedInTypes
  <2>6. QED
    BY <2>3, <2>5
<1>3. QED
  BY <1>1, <1>2

LEMMA AnswerTypes ==
    ASSUME AuthTypeOK, AuthAnswers
    PROVE  AuthTypeOK'
<1>1. StoreTypes /\ UserTypes /\ OpTypes /\ HistoryTypes /\ IssuedTypes /\ CountTypes
  BY DEF AuthTypeOK
<1>2. ASSUME NEW t \in DOMAIN issued, HandleRejectedToken(t)
      PROVE  AuthTypeOK'
  <2>1. CookiesRead /\ UNCHANGED <<user, signer, generation, ops, issued, outside, history>>
    BY <1>2 DEF HandleRejectedToken
  <2>2. check' \in Tokens'
    BY <1>1, <1>2, <2>1 DEF HandleRejectedToken, StoreTypes, IssuedTypes, Tokens
  <2>3. StoreTypes'
    BY <1>1, <2>1, <2>2 DEF StoreTypes, IssuedTypes, CookiesRead, NoSession, NoToken, Sessions, Tokens
  <2>4. QED
    BY <1>1, <2>1, <2>3 DEF AuthTypeOK, UserTypes, OpTypes, HistoryTypes, IssuedTypes, CountTypes, Ops, Tokens
<1>3. CASE RejectionConfirmed
  <2>1. check' = NoToken /\ check' \in Tokens /\ UNCHANGED <<signer, ops, issued, outside>>
    BY <1>1, <1>3 DEF RejectionConfirmed, CheckOver, Tokens, NoToken, IssuedTypes
  <2>2. CASE generation' = generation + 1 /\ Cleared(generation + 1)
    <3>1. generation' \in Nat /\ generation' >= generation /\ generation + 1 \in 0 .. generation'
      BY <1>1, <2>2 DEF CountTypes
    <3>2. StoreTypes' /\ UserTypes' /\ HistoryTypes'
      BY <1>1, <2>1, <2>2, <3>1, ClearedTypes DEF UserTypes
    <3>3. OpTypes'
      BY <1>1, <2>1, <2>2 DEF OpTypes, Ops, Tokens, CountTypes
    <3>4. QED
      BY <1>1, <2>1, <3>1, <3>2, <3>3 DEF AuthTypeOK, IssuedTypes, CountTypes
  <2>3. CASE /\ CookiesRead \/ UNCHANGED <<token, session>>
             /\ UNCHANGED <<generation, user, history>>
    <3>1. StoreTypes'
      BY <1>1, <2>1, <2>3 DEF StoreTypes, IssuedTypes, CookiesRead, NoSession, NoToken, Sessions, Tokens
    <3>2. QED
      BY <1>1, <2>1, <2>3, <3>1 DEF AuthTypeOK, UserTypes, OpTypes, HistoryTypes, IssuedTypes, CountTypes, Ops, Tokens
  <2>4. QED
    BY <1>3, <2>2, <2>3 DEF RejectionConfirmed
<1>4. CASE RejectionDenied
  <2>1. outside' \in Nat
    BY <1>1, <1>4 DEF RejectionDenied, Outside, CountTypes
  <2>2. check' \in Tokens /\ UNCHANGED <<token, session, user, signer, generation, ops, issued, history>>
    BY <1>1, <1>4 DEF RejectionDenied, CheckOver, Tokens, NoToken, IssuedTypes
  <2>3. QED
    BY <1>1, <2>1, <2>2 DEF AuthTypeOK, StoreTypes, UserTypes, OpTypes, HistoryTypes, IssuedTypes, CountTypes, Ops, Tokens
<1>5. ASSUME NEW o \in ops, LoginSettles(o)
      PROVE  AuthTypeOK'
  <2>1. CASE \E main \in Mains : CommitLogin(o, main)
    BY <1>5, <2>1, CommitLoginTypes DEF LoginSettles
  <2>2. CASE UNCHANGED <<token, session, user, signer, issued, history>>
    <3>1. ops' = ops \ {o} /\ UNCHANGED <<generation, check, outside>>
      BY <1>5 DEF LoginSettles
    <3>2. QED
      BY <1>1, <2>2, <3>1 DEF AuthTypeOK, StoreTypes, UserTypes, OpTypes, HistoryTypes, IssuedTypes, CountTypes, Ops, Tokens
  <2>3. QED
    BY <1>5, <2>1, <2>2 DEF LoginSettles
<1>6. ASSUME NEW o \in ops, RestoreHearsMe(o)
      PROVE  AuthTypeOK'
  <2>1. UNCHANGED <<signer, generation, check, issued, outside>> /\ o.kind = "restore"
    BY <1>6 DEF RestoreHearsMe
  <2>2. /\ o.generation \in 1 .. generation /\ o.token \in Tokens /\ o.token # NoToken /\ o \in Ops
        /\ AccountOf(o.token) \in Accounts
    <3>1. o.generation \in 1 .. generation /\ o.token \in Tokens /\ o.token # NoToken /\ o \in Ops
      BY <1>1, <2>1 DEF OpTypes, Ops
    <3>2. QED
      BY <1>1, <3>1, IssuedAccount
  <2>3. IssuedTypes' /\ CountTypes' /\ check' \in Tokens /\ signer' \in BOOLEAN
    BY <1>1, <2>1 DEF IssuedTypes, CountTypes, StoreTypes, UserTypes
  <2>4. CASE Restored(o, AccountOf(o.token), TRUE) /\ ops' = ops \ {o}
    <3>1. StoreTypes' /\ UserTypes' /\ HistoryTypes'
      BY <1>1, <2>1, <2>2, <2>3, <2>4, RestoredTypes
    <3>2. OpTypes'
      BY <1>1, <2>1, <2>4 DEF OpTypes, Ops, Tokens
    <3>3. QED
      BY <2>3, <3>1, <3>2 DEF AuthTypeOK
  <2>5. CASE /\ ops' = (ops \ {o}) \cup {[o EXCEPT !.kind = "signer", !.main = AccountOf(o.token)]}
             /\ UNCHANGED <<token, session, user, history>>
    <3>1. [o EXCEPT !.kind = "signer", !.main = AccountOf(o.token)] \in Ops
      BY <2>2 DEF Ops
    <3>2. [o EXCEPT !.kind = "signer", !.main = AccountOf(o.token)].token = o.token
      BY <2>2 DEF Ops
    <3>3. OpTypes'
      BY <1>1, <2>1, <2>2, <2>5, <3>1, <3>2 DEF OpTypes, Ops, Tokens
    <3>4. StoreTypes' /\ UserTypes' /\ HistoryTypes'
      BY <1>1, <2>1, <2>5 DEF StoreTypes, UserTypes, HistoryTypes, Tokens
    <3>5. QED
      BY <2>3, <3>3, <3>4 DEF AuthTypeOK
  <2>6. CASE Cleared(generation) /\ ops' = ops \ {o}
    <3>1. generation \in 0 .. generation' /\ generation' \in Nat /\ generation' >= generation
      BY <1>1, <2>1 DEF CountTypes
    <3>2. StoreTypes' /\ UserTypes' /\ HistoryTypes'
      BY <1>1, <2>1, <2>3, <2>6, <3>1, ClearedTypes
    <3>3. OpTypes'
      BY <1>1, <2>1, <2>6 DEF OpTypes, Ops, Tokens
    <3>4. QED
      BY <2>3, <3>2, <3>3 DEF AuthTypeOK
  <2>7. CASE ops' = ops \ {o} /\ UNCHANGED <<token, session, user, history>>
    BY <1>1, <2>1, <2>7 DEF AuthTypeOK, StoreTypes, UserTypes, OpTypes, HistoryTypes, IssuedTypes, CountTypes, Ops, Tokens
  <2>8. QED
    BY <1>6, <2>4, <2>5, <2>6, <2>7 DEF RestoreHearsMe
<1>7. ASSUME NEW o \in ops, RestoreHasSigner(o)
      PROVE  AuthTypeOK'
  <2>1. ops' = ops \ {o} /\ UNCHANGED <<generation, check, issued, outside>> /\ o.kind = "signer"
    BY <1>7 DEF RestoreHasSigner
  <2>2. OpTypes' /\ IssuedTypes' /\ CountTypes' /\ o.generation \in 1 .. generation
    BY <1>1, <2>1 DEF OpTypes, Ops, Tokens, IssuedTypes, CountTypes
  <2>3. CASE signer' \in BOOLEAN /\ Restored(o, o.main, signer')
    <3>1. o.main \in Accounts \cup {NoAccount}
      BY <1>1 DEF OpTypes, Ops
    <3>2. StoreTypes' /\ UserTypes' /\ HistoryTypes'
      BY <1>1, <2>1, <2>2, <2>3, <3>1, RestoredTypes
    <3>3. QED
      BY <2>2, <3>2 DEF AuthTypeOK
  <2>4. CASE UNCHANGED <<token, session, user, signer, history>>
    BY <1>1, <2>1, <2>2, <2>4 DEF AuthTypeOK, StoreTypes, UserTypes, HistoryTypes, Tokens
  <2>5. QED
    BY <1>7, <2>3, <2>4 DEF RestoreHasSigner
<1>8. QED
  BY <1>2, <1>3, <1>4, <1>5, <1>6, <1>7 DEF AuthAnswers

LEMMA OutsideTypes ==
    ASSUME AuthTypeOK, TabLogsIn \/ TabLogsOut \/ TokenEnds
    PROVE  AuthTypeOK'
<1>1. StoreTypes /\ UserTypes /\ OpTypes /\ HistoryTypes /\ IssuedTypes /\ CountTypes
  BY DEF AuthTypeOK
<1>2. CASE TabLogsIn
  <2>1. PICK env \in {"own", "foreign"}, main \in Mains :
           /\ Outside(env)
           /\ issued' = Append(issued, [account |-> main,
                                        state |-> IF env = "own" THEN "good" ELSE "revoked"])
           /\ session' = [env |-> env, main |-> main, active |-> main]
    BY <1>2 DEF TabLogsIn
  <2>2. main \in Accounts
    BY AuthAssumption DEF Mains
  <2>3. token' = Len(issued') /\ UNCHANGED <<user, signer, generation, ops, check, history>>
    BY <1>2 DEF TabLogsIn
  <2>4. IssuedTypes' /\ Len(issued') = Len(issued) + 1 /\ Len(issued) \in Nat
    BY <1>1, <2>1, <2>2 DEF IssuedTypes, Issued
  <2>5. outside' \in Nat
    BY <1>1, <2>1 DEF Outside, CountTypes
  <2>6. session' \in Sessions /\ token' \in Tokens' /\ check' \in Tokens'
    BY <1>1, <2>1, <2>2, <2>3, <2>4 DEF Sessions, Tokens, StoreTypes
  <2>7. OpTypes' /\ HistoryTypes'
    BY <1>1, <2>3, <2>4 DEF OpTypes, Ops, HistoryTypes, Tokens
  <2>8. QED
    BY <1>1, <2>3, <2>4, <2>5, <2>6, <2>7 DEF AuthTypeOK, StoreTypes, UserTypes, CountTypes
<1>3. CASE TabLogsOut
  <2>1. outside' \in Nat
    BY <1>1, <1>3 DEF TabLogsOut, Outside, CountTypes
  <2>2. StoreTypes'
    BY <1>1, <1>3 DEF TabLogsOut, StoreTypes, Sessions, NoSession, NoToken, Tokens, IssuedTypes
  <2>3. UNCHANGED <<user, signer, generation, ops, check, issued, history>>
    BY <1>3 DEF TabLogsOut
  <2>4. QED
    BY <1>1, <2>1, <2>2, <2>3
    DEF AuthTypeOK, UserTypes, OpTypes, HistoryTypes, IssuedTypes, CountTypes, Ops, Tokens
<1>4. CASE TokenEnds
  <2>1. PICK t \in DOMAIN issued, state \in {"revoked", "expired"} :
           Outside(state) /\ issued' = [issued EXCEPT ![t].state = state]
    BY <1>4 DEF TokenEnds
  <2>2. UNCHANGED <<token, session, user, signer, generation, ops, check, history>>
    BY <1>4 DEF TokenEnds
  <2>3. IssuedTypes' /\ Len(issued') = Len(issued)
    <3>1. issued[t] \in Issued
      BY <1>1, ElementOfSeq DEF IssuedTypes
    <3>2. [issued[t] EXCEPT !.state = state] \in Issued
      BY <3>1 DEF Issued
    <3>3. issued' = [issued EXCEPT ![t] = [issued[t] EXCEPT !.state = state]]
      BY <2>1
    <3>4. QED
      BY <1>1, <3>2, <3>3 DEF IssuedTypes
  <2>4. outside' \in Nat
    BY <1>1, <2>1 DEF Outside, CountTypes
  <2>5. QED
    BY <1>1, <2>2, <2>3, <2>4
    DEF AuthTypeOK, StoreTypes, UserTypes, OpTypes, HistoryTypes, CountTypes, Ops, Tokens
<1>5. QED
  BY <1>2, <1>3, <1>4

LEMMA InitTypes == AuthInit => AuthTypeOK
<1> SUFFICES ASSUME AuthInit PROVE AuthTypeOK
  OBVIOUS
<1>1. StoreTypes
  BY DEF AuthInit, StoreTypes, Sessions, Tokens, NoToken, NoSession
<1>2. UserTypes /\ OpTypes /\ CountTypes
  BY DEF AuthInit, UserTypes, OpTypes, CountTypes, Users, SignedOut
<1>3. IssuedTypes
  BY DEF AuthInit, IssuedTypes
<1>4. HistoryTypes
  BY DEF AuthInit, HistoryTypes, Tokens, NoToken
<1>5. QED
  BY <1>1, <1>2, <1>3, <1>4 DEF AuthTypeOK

LEMMA StepTypes == AuthTypeOK /\ [AuthNext]_authVars => AuthTypeOK'
<1> SUFFICES ASSUME AuthTypeOK, [AuthNext]_authVars PROVE AuthTypeOK'
  OBVIOUS
<1>1. CASE AuthNext
  BY <1>1, CallTypes, AnswerTypes, OutsideTypes DEF AuthNext
<1>2. CASE UNCHANGED authVars
  BY <1>2 DEF authVars, AuthTypeOK, StoreTypes, UserTypes, OpTypes, HistoryTypes, IssuedTypes,
              CountTypes, Ops, Tokens
<1>3. QED
  BY <1>1, <1>2

\* Every variable of the authentication keeps its type, whatever the calls, other
\* tabs and failures; tokens in use are ones the server issued.
THEOREM AuthTypesHold == AuthSpec => []AuthTypeOK
<1>1. QED
  BY InitTypes, StepTypes, PTL DEF AuthSpec

-----------------------------------------------------------------------------
(* A later call wins.                                                      *)

\* No two operations have one generation, and the operation of the current
\* generation was begun after the last sign-out.
OneOfAGeneration   == \A o, p \in ops : o.generation = p.generation => o = p
CurrentIsLater     == \A o \in ops : o.generation = generation => generation > history.signedOut
GenerationInv      == OneOfAGeneration /\ CurrentIsLater /\ SignOutWins

\* What the steps do to generations: a new one is begun, with an operation or none,
\* or the operation of the current one ends or goes on.
LEMMA NewGeneration ==
    ASSUME AuthTypeOK, GenerationInv, generation' = generation + 1,
           \/ ops' = ops
           \/ \E o : o.generation = generation + 1 /\ ops' = ops \cup {o}
    PROVE  /\ OneOfAGeneration'
           /\ history' = history => CurrentIsLater'
           /\ ops' = ops => CurrentIsLater'
<1>1. \A o \in ops : o.generation \in Nat /\ o.generation # generation + 1
  BY DEF AuthTypeOK, OpTypes, Ops, CountTypes
<1>2. generation \in Nat /\ history.signedOut \in 0 .. generation
  BY DEF AuthTypeOK, CountTypes, HistoryTypes
<1>3. OneOfAGeneration'
  BY <1>1 DEF GenerationInv, OneOfAGeneration
<1>4. history' = history => CurrentIsLater'
  BY <1>1, <1>2 DEF CurrentIsLater
<1>5. ops' = ops => CurrentIsLater'
  BY <1>1 DEF CurrentIsLater
<1>6. QED
  BY <1>3, <1>4, <1>5

LEMMA CallGenerations ==
    ASSUME AuthTypeOK, GenerationInv, AuthCalls
    PROVE  GenerationInv'
<1>1. /\ generation \in Nat /\ history.signedOut \in 0 .. generation
      /\ history.signedIn \in 0 .. generation /\ history.from \in Tokens
  BY DEF AuthTypeOK, CountTypes, HistoryTypes
<1>2. ASSUME NEW p, StartLogin(p) PROVE GenerationInv'
  <2>1. generation' = generation + 1 /\ history' = history /\ user' = user
    BY <1>2 DEF StartLogin, Begin
  <2>2. \E o : o.generation = generation + 1 /\ ops' = ops \cup {o}
    BY <1>2, <2>1 DEF StartLogin
  <2>3. QED
    BY <2>1, <2>2, NewGeneration DEF GenerationInv, SignOutWins, IsAuthenticated
<1>3. CASE RestoreSession
  <2>1. generation' = generation + 1
    BY <1>3 DEF RestoreSession, Begin
  <2>2. CASE Cleared(generation + 1) /\ ops' = ops
    <3>1. ~IsAuthenticated'
      BY <2>2 DEF Cleared, SignedOut, IsAuthenticated
    <3>2. QED
      BY <2>1, <2>2, <3>1, NewGeneration DEF GenerationInv, SignOutWins
  <2>3. CASE UNCHANGED <<token, session, user, history>>
             /\ \E o : o.generation = generation + 1 /\ ops' = ops \cup {o}
    BY <2>1, <2>3, NewGeneration DEF GenerationInv, SignOutWins, IsAuthenticated
  <2>4. QED
    BY <1>3, <2>1, <2>2, <2>3 DEF RestoreSession
<1>4. CASE HydrateAuthState
  <2>1. generation' = generation + 1 /\ ops' = ops
    BY <1>4 DEF HydrateAuthState, Begin
  <2>2. SignOutWins'
    <3>1. CASE UNCHANGED <<user, history>>
      BY <3>1 DEF GenerationInv, SignOutWins, IsAuthenticated
    <3>2. CASE history' = [history EXCEPT !.signedIn = generation + 1, !.from = NoToken]
      <4>1. history'.signedIn = generation + 1 /\ history'.signedOut = history.signedOut
        BY <3>2 DEF AuthTypeOK, HistoryTypes
      <4>2. QED
        BY <1>1, <4>1 DEF SignOutWins
    <3>3. QED
      BY <1>4, <3>1, <3>2 DEF HydrateAuthState, SignedIn
  <2>3. QED
    BY <2>1, <2>2, NewGeneration DEF GenerationInv
<1>5. CASE SetAccountSigner
  <2>1. generation' = generation + 1 /\ UNCHANGED <<ops, user, history>>
    BY <1>5 DEF SetAccountSigner, Begin
  <2>2. QED
    BY <2>1, NewGeneration DEF GenerationInv, SignOutWins, IsAuthenticated
<1>6. CASE Logout
  <2>1. generation' = generation + 1 /\ ops' = ops /\ Cleared(generation + 1)
    BY <1>6 DEF Logout, Begin
  <2>2. ~IsAuthenticated'
    BY <2>1 DEF Cleared, SignedOut, IsAuthenticated
  <2>3. QED
    BY <2>1, <2>2, NewGeneration DEF GenerationInv, SignOutWins
<1>7. CASE SwitchAccount
  <2>1. UNCHANGED <<generation, ops, history>>
    BY <1>7 DEF SwitchAccount
  <2>2. IsAuthenticated
    BY <1>7 DEF SwitchAccount
  <2>3. QED
    BY <2>1, <2>2 DEF GenerationInv, OneOfAGeneration, CurrentIsLater, SignOutWins
<1>8. QED
  BY <1>2, <1>3, <1>4, <1>5, <1>6, <1>7 DEF AuthCalls, Login, RefreshSession

\* The operation of the current generation signs in, or signs out.
LEMMA CurrentEnds ==
    ASSUME AuthTypeOK, GenerationInv, NEW o \in ops, o.generation = generation,
           ops' = ops \ {o}, generation' = generation,
           \/ Cleared(generation)
           \/ \E main, active, t : SignedIn(main, active, o.generation, t)
    PROVE  GenerationInv'
<1>1. \A p \in ops' : p.generation # generation'
  BY DEF GenerationInv, OneOfAGeneration
<1>2. OneOfAGeneration' /\ CurrentIsLater'
  BY <1>1 DEF GenerationInv, OneOfAGeneration, CurrentIsLater
<1>3. CASE Cleared(generation)
  BY <1>2, <1>3 DEF GenerationInv, SignOutWins, Cleared, SignedOut, IsAuthenticated
<1>4. CASE \E main, active, t : SignedIn(main, active, o.generation, t)
  <2>1. PICK t : history' = [history EXCEPT !.signedIn = o.generation, !.from = t]
    BY <1>4 DEF SignedIn
  <2>2. history'.signedIn = generation /\ history'.signedOut = history.signedOut
    BY <2>1 DEF AuthTypeOK, HistoryTypes
  <2>3. QED
    BY <1>2, <2>2 DEF GenerationInv, SignOutWins, CurrentIsLater
<1>5. QED
  BY <1>3, <1>4

LEMMA AnswerGenerations ==
    ASSUME AuthTypeOK, GenerationInv, AuthAnswers
    PROVE  GenerationInv'
<1>1. /\ generation \in Nat /\ history.signedOut \in 0 .. generation
      /\ \A o \in ops : o \in Ops
  BY DEF AuthTypeOK, CountTypes, HistoryTypes, OpTypes
<1>2. ASSUME ops' \subseteq ops, UNCHANGED <<generation, user, history>>
      PROVE  GenerationInv'
  BY <1>2 DEF GenerationInv, OneOfAGeneration, CurrentIsLater, SignOutWins, IsAuthenticated
<1>3. ASSUME NEW t \in DOMAIN issued, HandleRejectedToken(t) PROVE GenerationInv'
  BY <1>2, <1>3 DEF HandleRejectedToken
<1>4. CASE RejectionConfirmed
  <2>1. CASE generation' = generation + 1 /\ Cleared(generation + 1)
    <3>1. ~IsAuthenticated' /\ ops' = ops
      BY <1>4, <2>1 DEF Cleared, SignedOut, IsAuthenticated, RejectionConfirmed
    <3>2. QED
      BY <2>1, <3>1, NewGeneration DEF GenerationInv, SignOutWins
  <2>2. CASE UNCHANGED <<generation, user, history>>
    BY <1>2, <1>4, <2>2 DEF RejectionConfirmed
  <2>3. QED
    BY <1>4, <2>1, <2>2 DEF RejectionConfirmed
<1>5. CASE RejectionDenied
  BY <1>2, <1>5 DEF RejectionDenied
<1>6. ASSUME NEW o \in ops, LoginSettles(o) PROVE GenerationInv'
  <2>1. ops' = ops \ {o} /\ generation' = generation
    BY <1>6 DEF LoginSettles
  <2>2. CASE IsCurrent(o) /\ \E main \in Mains : CommitLogin(o, main)
    BY <2>1, <2>2, CurrentEnds DEF IsCurrent, CommitLogin
  <2>3. CASE UNCHANGED <<user, history>>
    BY <1>2, <2>1, <2>3
  <2>4. QED
    BY <1>6, <2>2, <2>3 DEF LoginSettles
<1>7. ASSUME NEW o \in ops, RestoreHearsMe(o) PROVE GenerationInv'
  <2>1. generation' = generation
    BY <1>7 DEF RestoreHearsMe
  <2>2. CASE IsCurrent(o) /\ Restored(o, AccountOf(o.token), TRUE) /\ ops' = ops \ {o}
    BY <2>1, <2>2, CurrentEnds DEF IsCurrent, Restored
  <2>3. CASE /\ ops' = (ops \ {o}) \cup {[o EXCEPT !.kind = "signer", !.main = AccountOf(o.token)]}
             /\ UNCHANGED <<user, history>>
    <3>1. [o EXCEPT !.kind = "signer", !.main = AccountOf(o.token)].generation = o.generation
      BY <1>1 DEF Ops
    <3>2. OneOfAGeneration'
      BY <2>3, <3>1 DEF GenerationInv, OneOfAGeneration
    <3>3. CurrentIsLater'
      BY <2>1, <2>3, <3>1 DEF GenerationInv, CurrentIsLater
    <3>4. QED
      BY <2>3, <3>2, <3>3 DEF GenerationInv, SignOutWins, IsAuthenticated
  <2>4. CASE IsCurrent(o) /\ Cleared(generation) /\ ops' = ops \ {o}
    BY <2>1, <2>4, CurrentEnds DEF IsCurrent
  <2>5. CASE ops' = ops \ {o} /\ UNCHANGED <<user, history>>
    BY <1>2, <2>1, <2>5
  <2>6. QED
    BY <1>7, <2>2, <2>3, <2>4, <2>5 DEF RestoreHearsMe
<1>8. ASSUME NEW o \in ops, RestoreHasSigner(o) PROVE GenerationInv'
  <2>1. ops' = ops \ {o} /\ generation' = generation
    BY <1>8 DEF RestoreHasSigner
  <2>2. CASE IsCurrent(o) /\ Restored(o, o.main, signer')
    BY <2>1, <2>2, CurrentEnds DEF IsCurrent, Restored
  <2>3. CASE UNCHANGED <<user, history>>
    BY <1>2, <2>1, <2>3
  <2>4. QED
    BY <1>8, <2>2, <2>3 DEF RestoreHasSigner
<1>9. QED
  BY <1>3, <1>4, <1>5, <1>6, <1>7, <1>8 DEF AuthAnswers

LEMMA StepGenerations == AuthTypeOK /\ GenerationInv /\ [AuthNext]_authVars => GenerationInv'
<1> SUFFICES ASSUME AuthTypeOK, GenerationInv, [AuthNext]_authVars PROVE GenerationInv'
  OBVIOUS
<1>1. CASE UNCHANGED <<user, generation, ops, history>>
  BY <1>1 DEF GenerationInv, OneOfAGeneration, CurrentIsLater, SignOutWins, IsAuthenticated
<1>2. QED
  BY <1>1, CallGenerations, AnswerGenerations
  DEF AuthNext, authVars, TabLogsIn, TabLogsOut, TokenEnds

\* A sign-out is final for everything begun before it: whoever is signed in was
\* signed in by an operation begun later, however many logins, restorations and
\* rejections are in flight and whatever other tabs do.
THEOREM SignOutWinsHolds == AuthSpec => []SignOutWins
<1>1. AuthInit => GenerationInv
  BY DEF AuthInit, GenerationInv, OneOfAGeneration, CurrentIsLater, SignOutWins, IsAuthenticated, SignedOut
<1>2. GenerationInv => SignOutWins
  BY DEF GenerationInv
<1>3. QED
  BY <1>1, <1>2, InitTypes, StepTypes, StepGenerations, PTL DEF AuthSpec

-----------------------------------------------------------------------------
(* The account shown.                                                      *)

\* Whoever was signed in with a token is shown as its account, also when the
\* account was asked for first and the wallet afterwards.
ShownAs     == IsAuthenticated /\ history.from # NoToken => user.main = AccountOf(history.from)
AskedAs     == \A o \in ops : o.kind = "signer" => o.main = AccountOf(o.token)
IdentityInv == ShownAs /\ AskedAs

\* A token stays the token of its account.
AccountsStay == \A t \in Tokens \ {NoToken} : issued'[t].account = issued[t].account

LEMMA AccountsAreKept ==
    ASSUME AuthTypeOK, [AuthNext]_authVars
    PROVE  AccountsStay
<1>1. \A t \in Tokens \ {NoToken} : t \in DOMAIN issued /\ t \in 1 .. Len(issued)
  BY DEF AuthTypeOK, IssuedTypes, Tokens, NoToken
<1>2. issued \in Seq(Issued)
  BY DEF AuthTypeOK, IssuedTypes
<1>3. CASE issued' = issued
  BY <1>3 DEF AccountsStay
<1>4. ASSUME NEW x, issued' = Append(issued, x) PROVE AccountsStay
  <2>1. \A t \in 1 .. Len(issued) : issued'[t] = issued[t]
    BY <1>2, <1>4
  <2>2. QED
    BY <1>1, <2>1 DEF AccountsStay
<1>5. ASSUME NEW u, NEW state, issued' = [issued EXCEPT ![u].state = state] PROVE AccountsStay
  <2>1. \A t \in DOMAIN issued : issued[t] \in Issued
    BY <1>2, ElementOfSeq
  <2>2. \A t \in DOMAIN issued : issued'[t].account = issued[t].account
    BY <1>5, <2>1 DEF Issued
  <2>3. QED
    BY <1>1, <2>2 DEF AccountsStay
<1>6. CASE AuthCalls
  BY <1>3, <1>6 DEF AuthCalls, Login, RefreshSession, StartLogin, RestoreSession, HydrateAuthState,
                    SetAccountSigner, Logout, SwitchAccount
<1>7. CASE AuthAnswers
  <2>1. issued' = issued \/ \E x : issued' = Append(issued, x)
    BY <1>7 DEF AuthAnswers, HandleRejectedToken, RejectionConfirmed, RejectionDenied, LoginSettles,
                CommitLogin, RestoreHearsMe, RestoreHasSigner
  <2>2. QED
    BY <1>3, <1>4, <2>1
<1>8. CASE TabLogsIn
  BY <1>4, <1>8 DEF TabLogsIn
<1>9. CASE TabLogsOut
  BY <1>3, <1>9 DEF TabLogsOut
<1>10. CASE TokenEnds
  BY <1>5, <1>10 DEF TokenEnds
<1>11. CASE UNCHANGED authVars
  BY <1>3, <1>11 DEF authVars
<1>12. QED
  BY <1>6, <1>7, <1>8, <1>9, <1>10, <1>11 DEF AuthNext

\* Steps that sign nobody in.
LEMMA IdentityStays ==
    ASSUME AuthTypeOK, IdentityInv, AccountsStay
    PROVE  /\ user'.main = user.main /\ history'.from = history.from => ShownAs'
           /\ user'.main = NoAccount => ShownAs'
           /\ \A o \in ops : o.kind = "signer" => o.main = issued'[o.token].account
<1>1. history.from \in Tokens /\ \A o \in ops : o.token \in Tokens
  BY DEF AuthTypeOK, HistoryTypes, OpTypes, Ops
<1>2. user'.main = user.main /\ history'.from = history.from => ShownAs'
  BY <1>1 DEF IdentityInv, ShownAs, IsAuthenticated, AccountsStay, AccountOf
<1>3. user'.main = NoAccount => ShownAs'
  BY DEF ShownAs, IsAuthenticated
<1>4. ASSUME NEW o \in ops, o.kind = "signer" PROVE o.main = issued'[o.token].account
  <2>1. o.token \in Tokens \ {NoToken} /\ o.main = issued[o.token].account
    BY <1>1, <1>4 DEF AuthTypeOK, OpTypes, IdentityInv, AskedAs, AccountOf
  <2>2. QED
    BY <2>1 DEF AccountsStay
<1>5. QED
  BY <1>2, <1>3, <1>4

\* A restoration shows the account of the token it is about.
LEMMA RestoredIdentity ==
    ASSUME AuthTypeOK, IdentityInv, AccountsStay, NEW o \in ops, token = o.token, NEW has,
           o.token # NoToken, issued' = issued, Restored(o, AccountOf(o.token), has)
    PROVE  ShownAs'
<1>1. CASE Cleared(generation)
  BY <1>1, IdentityStays DEF Cleared, SignedOut
<1>2. CASE \E active : SignedIn(AccountOf(o.token), active, o.generation, token)
  <2>1. user'.main = AccountOf(token)
    BY <1>2 DEF SignedIn
  <2>2. history'.from = token
    BY <1>2 DEF SignedIn, AuthTypeOK, HistoryTypes
  <2>3. QED
    BY <2>1, <2>2 DEF ShownAs, AccountOf
<1>3. QED
  BY <1>1, <1>2 DEF Restored

LEMMA StepIdentity == AuthTypeOK /\ IdentityInv /\ [AuthNext]_authVars => IdentityInv'
<1> SUFFICES ASSUME AuthTypeOK, IdentityInv, [AuthNext]_authVars PROVE IdentityInv'
  OBVIOUS
<1>1. AccountsStay
  BY AccountsAreKept
<1>2. /\ user'.main = user.main /\ history'.from = history.from => ShownAs'
      /\ user'.main = NoAccount => ShownAs'
      /\ \A o \in ops : o.kind = "signer" => o.main = issued'[o.token].account
  BY <1>1, IdentityStays
<1>3. ASSUME ops' \subseteq ops \/ \E p : p.kind # "signer" /\ ops' = ops \cup {p}
      PROVE  AskedAs'
  BY <1>2, <1>3 DEF AskedAs, AccountOf
<1>4. CASE AuthCalls
  <2>1. AskedAs'
    BY <1>3, <1>4 DEF AuthCalls, Login, RefreshSession, StartLogin, RestoreSession, HydrateAuthState,
                      SetAccountSigner, Logout, SwitchAccount
  <2> SUFFICES ShownAs'
    BY <2>1 DEF IdentityInv
  <2>2. CASE Login \/ RefreshSession \/ SetAccountSigner
    BY <1>2, <2>2 DEF Login, RefreshSession, StartLogin, SetAccountSigner
  <2>3. CASE RestoreSession \/ Logout
    BY <1>2, <2>3 DEF RestoreSession, Logout, Cleared, SignedOut
  <2>4. CASE HydrateAuthState
    <3>1. CASE UNCHANGED <<user, history>>
      BY <1>2, <3>1
    <3>2. CASE history' = [history EXCEPT !.signedIn = generation + 1, !.from = NoToken]
      <4>1. history'.from = NoToken
        BY <3>2 DEF AuthTypeOK, HistoryTypes
      <4>2. QED
        BY <4>1 DEF ShownAs
    <3>3. QED
      BY <2>4, <3>1, <3>2 DEF HydrateAuthState, SignedIn
  <2>5. CASE SwitchAccount
    <3>1. history' = history /\ user'.main = user.main
      BY <2>5 DEF SwitchAccount, AuthTypeOK, UserTypes, Users
    <3>2. QED
      BY <1>2, <3>1
  <2>6. QED
    BY <1>4, <2>2, <2>3, <2>4, <2>5 DEF AuthCalls
<1>5. CASE \E t \in DOMAIN issued : HandleRejectedToken(t)
  BY <1>2, <1>3, <1>5 DEF HandleRejectedToken, IdentityInv
<1>6. CASE RejectionConfirmed
  BY <1>2, <1>3, <1>6 DEF RejectionConfirmed, Cleared, SignedOut, IdentityInv
<1>7. CASE RejectionDenied
  BY <1>2, <1>3, <1>7 DEF RejectionDenied, IdentityInv
<1>8. ASSUME NEW o \in ops, LoginSettles(o) PROVE IdentityInv'
  <2>1. AskedAs'
    BY <1>3, <1>8 DEF LoginSettles
  <2>2. CASE \E main \in Mains : CommitLogin(o, main)
    <3>1. PICK main \in Mains : CommitLogin(o, main)
      BY <2>2
    <3>2. user'.main = main
      BY <3>1 DEF CommitLogin, SignedIn
    <3>3. history'.from = Len(issued) + 1
      BY <3>1 DEF CommitLogin, SignedIn, AuthTypeOK, HistoryTypes
    <3>4. issued'[Len(issued) + 1] = [account |-> main, state |-> "good"]
      BY <3>1 DEF CommitLogin, AuthTypeOK, IssuedTypes
    <3>5. QED
      BY <2>1, <3>2, <3>3, <3>4 DEF IdentityInv, ShownAs, AccountOf
  <2>3. CASE UNCHANGED <<user, history>>
    BY <1>2, <2>1, <2>3 DEF IdentityInv
  <2>4. QED
    BY <1>8, <2>2, <2>3 DEF LoginSettles
<1>9. ASSUME NEW o \in ops, RestoreHearsMe(o) PROVE IdentityInv'
  <2>1. o.token # NoToken /\ issued' = issued /\ o \in Ops
    BY <1>9 DEF RestoreHearsMe, AuthTypeOK, OpTypes
  <2>2. CASE IsCurrent(o) /\ Restored(o, AccountOf(o.token), TRUE) /\ ops' = ops \ {o}
    BY <1>1, <1>3, <2>1, <2>2, RestoredIdentity DEF IsCurrent, IdentityInv
  <2>3. CASE /\ ops' = (ops \ {o}) \cup {[o EXCEPT !.kind = "signer", !.main = AccountOf(o.token)]}
             /\ UNCHANGED <<user, history>>
    <3> DEFINE p == [o EXCEPT !.kind = "signer", !.main = AccountOf(o.token)]
    <3>1. p.main = issued'[p.token].account
      BY <2>1 DEF Ops, AccountOf
    <3> HIDE DEF p
    <3>2. AskedAs'
      BY <1>2, <2>3, <3>1 DEF AskedAs, AccountOf, p
    <3>3. QED
      BY <1>2, <2>3, <3>2 DEF IdentityInv
  <2>4. CASE Cleared(generation) /\ ops' = ops \ {o}
    BY <1>2, <1>3, <2>4 DEF Cleared, SignedOut, IdentityInv
  <2>5. CASE ops' = ops \ {o} /\ UNCHANGED <<user, history>>
    BY <1>2, <1>3, <2>5 DEF IdentityInv
  <2>6. QED
    BY <1>9, <2>2, <2>3, <2>4, <2>5 DEF RestoreHearsMe
<1>10. ASSUME NEW o \in ops, RestoreHasSigner(o) PROVE IdentityInv'
  <2>1. /\ ops' = ops \ {o} /\ issued' = issued
        /\ o.token # NoToken /\ o.main = AccountOf(o.token)
    BY <1>10 DEF RestoreHasSigner, AuthTypeOK, OpTypes, IdentityInv, AskedAs
  <2>2. CASE IsCurrent(o) /\ Restored(o, o.main, signer')
    <3>1. token = o.token /\ Restored(o, AccountOf(o.token), signer')
      BY <2>1, <2>2 DEF IsCurrent
    <3>2. QED
      BY <1>1, <1>3, <2>1, <3>1, RestoredIdentity DEF IdentityInv
  <2>3. CASE UNCHANGED <<user, history>>
    BY <1>2, <1>3, <2>1, <2>3 DEF IdentityInv
  <2>4. QED
    BY <1>10, <2>2, <2>3 DEF RestoreHasSigner
<1>11. CASE TabLogsIn \/ TabLogsOut \/ TokenEnds \/ UNCHANGED authVars
  BY <1>2, <1>3, <1>11 DEF TabLogsIn, TabLogsOut, TokenEnds, authVars, IdentityInv
<1>12. QED
  BY <1>4, <1>5, <1>6, <1>7, <1>8, <1>9, <1>10, <1>11 DEF AuthNext, AuthAnswers

\* The account shown is that of the token it was signed in with, whatever
\* operations overlapped.
THEOREM SignedInAsHolds == AuthSpec => []SignedInAs
<1>1. AuthInit => IdentityInv
  BY DEF AuthInit, IdentityInv, ShownAs, AskedAs, IsAuthenticated, SignedOut
<1>2. IdentityInv => SignedInAs
  BY DEF IdentityInv, ShownAs, SignedInAs
<1>3. QED
  BY <1>1, <1>2, InitTypes, StepTypes, StepIdentity, PTL DEF AuthSpec

-----------------------------------------------------------------------------
(* What ends a session or a login.                                         *)

\* A session is ended by a restoration only for a token that is gone, foreign or
\* no longer accepted.
LEMMA RestoredKeeps ==
    ASSUME AuthTypeOK, NEW o, token = o.token, NEW main, main # NoAccount, NEW has,
           Restored(o, main, has), ~IsAuthenticated'
    PROVE  BoundToken = NoToken \/ ~IsGood(token)
<1>1. CASE ~IsJwtValid(o.token) \/ IsForeign
  BY <1>1 DEF BoundToken, IsJwtValid, IsGood
<1>2. CASE \E active, t : SignedIn(main, active, o.generation, t)
  BY <1>2 DEF SignedIn, IsAuthenticated
<1>3. QED
  BY <1>1, <1>2 DEF Restored

SignOutCause == Logout \/ BoundToken = NoToken \/ ~IsGood(token)

LEMMA SessionEnds ==
    ASSUME AuthTypeOK, IdentityInv, [AuthNext]_authVars, IsAuthenticated, ~IsAuthenticated'
    PROVE  SignOutCause
<1>1. user' # user
  BY DEF IsAuthenticated
<1>2. CASE RestoreSession
  <2>1. BoundToken = NoToken \/ ~IsJwtValid(BoundToken)
    BY <1>1, <1>2 DEF RestoreSession
  <2>2. QED
    BY <2>1 DEF SignOutCause, BoundToken, IsJwtValid, IsGood
<1>3. CASE HydrateAuthState
  <2>1. PICK a \in Accounts : user' = [main |-> MainOf[a], active |-> a]
    BY <1>1, <1>3 DEF HydrateAuthState, SignedIn
  <2>2. QED
    BY <2>1, AuthAssumption DEF IsAuthenticated
<1>4. CASE SwitchAccount
  BY <1>4 DEF SwitchAccount, AuthTypeOK, UserTypes, Users, IsAuthenticated
<1>5. CASE RejectionConfirmed
  BY <1>1, <1>5 DEF RejectionConfirmed, IsRejectable, SignOutCause, BoundToken
<1>6. ASSUME NEW o \in ops, LoginSettles(o) PROVE SignOutCause
  <2>1. PICK main \in Mains : CommitLogin(o, main)
    BY <1>1, <1>6 DEF LoginSettles
  <2>2. user'.main \in Accounts
    BY <2>1, AuthAssumption DEF CommitLogin, SignedIn, Mains
  <2>3. QED
    BY <2>2, AuthAssumption DEF IsAuthenticated
<1>7. ASSUME NEW o \in ops, RestoreHearsMe(o) PROVE SignOutCause
  <2>1. o.token \in Tokens /\ o.token # NoToken
    BY <1>7 DEF RestoreHearsMe, AuthTypeOK, OpTypes, Ops
  <2>2. AccountOf(o.token) # NoAccount
    BY <2>1, IssuedAccount, AuthAssumption DEF AuthTypeOK
  <2>3. CASE IsCurrent(o) /\ Restored(o, AccountOf(o.token), TRUE)
    BY <2>2, <2>3, RestoredKeeps DEF IsCurrent, SignOutCause
  <2>4. CASE ~IsGood(o.token) /\ IsCurrent(o)
    BY <2>4 DEF IsCurrent, SignOutCause
  <2>5. QED
    BY <1>1, <1>7, <2>3, <2>4 DEF RestoreHearsMe
<1>8. ASSUME NEW o \in ops, RestoreHasSigner(o) PROVE SignOutCause
  <2>1. o.token \in Tokens /\ o.token # NoToken /\ o.main = AccountOf(o.token)
    BY <1>8 DEF RestoreHasSigner, AuthTypeOK, OpTypes, Ops, IdentityInv, AskedAs
  <2>2. o.main # NoAccount
    BY <2>1, IssuedAccount, AuthAssumption DEF AuthTypeOK
  <2>3. IsCurrent(o) /\ Restored(o, o.main, signer')
    BY <1>1, <1>8 DEF RestoreHasSigner
  <2>4. QED
    BY <2>2, <2>3, RestoredKeeps DEF IsCurrent, SignOutCause
<1>9. CASE \/ Login \/ RefreshSession \/ SetAccountSigner \/ Logout \/ RejectionDenied
           \/ \E t \in DOMAIN issued : HandleRejectedToken(t)
           \/ TabLogsIn \/ TabLogsOut \/ TokenEnds \/ UNCHANGED authVars
  BY <1>1, <1>9 DEF Login, RefreshSession, StartLogin, SetAccountSigner, RejectionDenied,
                    HandleRejectedToken, TabLogsIn, TabLogsOut, TokenEnds, authVars, SignOutCause
<1>10. QED
  BY <1>2, <1>3, <1>4, <1>5, <1>6, <1>7, <1>8, <1>9 DEF AuthNext, AuthCalls, AuthAnswers

LoginStopped(o) == o \in LoginsInFlight /\ IsCurrent(o) /\ o \in ops' /\ ~IsCurrent(o)'
StopCause       == AuthCalls \/ TabLogsIn \/ TabLogsOut

LEMMA LoginsGoOn ==
    ASSUME AuthTypeOK, GenerationInv, [AuthNext]_authVars, NEW o, LoginStopped(o)
    PROVE  StopCause
<1>1. /\ o \in ops /\ o.kind = "login" /\ LoginsInFlight # {}
      /\ o.generation = generation /\ token = o.token
      /\ token' # token \/ generation' # generation
  BY DEF LoginStopped, LoginsInFlight, IsCurrent
<1>2. ASSUME NEW p \in ops, p.generation = generation PROVE p = o
  BY <1>1, <1>2 DEF GenerationInv, OneOfAGeneration
<1>3. o \in ops'
  BY DEF LoginStopped
<1>4. ASSUME NEW p \in ops, LoginSettles(p) PROVE FALSE
  BY <1>1, <1>2, <1>3, <1>4 DEF LoginSettles, IsCurrent
<1>5. ASSUME NEW p \in ops, RestoreHearsMe(p) \/ RestoreHasSigner(p) PROVE FALSE
  <2>1. p.kind # "login" /\ generation' = generation
    BY <1>5 DEF RestoreHearsMe, RestoreHasSigner
  <2>2. ~IsCurrent(p)
    BY <1>1, <1>2, <2>1 DEF IsCurrent
  <2>3. token' = token
    BY <1>5, <2>2 DEF RestoreHearsMe, RestoreHasSigner
  <2>4. QED
    BY <1>1, <2>1, <2>3
<1>6. CASE RejectionConfirmed \/ RejectionDenied \/ \E t \in DOMAIN issued : HandleRejectedToken(t)
  BY <1>1, <1>6 DEF RejectionConfirmed, RejectionDenied, HandleRejectedToken, IsRejectable
<1>7. CASE TokenEnds \/ UNCHANGED authVars
  BY <1>1, <1>7 DEF TokenEnds, authVars
<1>8. QED
  BY <1>4, <1>5, <1>6, <1>7 DEF AuthNext, AuthAnswers, StopCause

\* Whatever rejections arrive when, only logout() and a token that is gone, foreign
\* or not accepted end a session, and only a later call or another tab stops a
\* login in flight.
THEOREM OnlyRejectedSignsOutHolds == AuthSpec => OnlyRejectedSignsOut
<1>1. AuthInit => GenerationInv /\ IdentityInv
  BY DEF AuthInit, GenerationInv, OneOfAGeneration, CurrentIsLater, SignOutWins, IsAuthenticated, SignedOut,
         IdentityInv, ShownAs, AskedAs
<1>2. AuthTypeOK /\ GenerationInv /\ IdentityInv /\ [AuthNext]_authVars =>
         [/\ IsAuthenticated /\ ~IsAuthenticated' =>
               Logout \/ BoundToken = NoToken \/ ~IsGood(token)
          /\ \A o \in LoginsInFlight :
               IsCurrent(o) /\ o \in ops' /\ ~IsCurrent(o)' =>
                  AuthCalls \/ TabLogsIn \/ TabLogsOut]_authVars
  BY SessionEnds, LoginsGoOn DEF SignOutCause, LoginStopped, StopCause
<1>3. QED
  BY <1>1, <1>2, InitTypes, StepTypes, StepGenerations, StepIdentity, PTL DEF AuthSpec, OnlyRejectedSignsOut


------------------------------------------------------------------------------
(***************************************************************************)
(* KeyedFeed and BalanceMerge: rows that come as a snapshot and as updates   *)
(* around it. The feed by key never settles on a stale row unless the        *)
(* consumer was told; balances and entities converge in whatever order       *)
(* their updates come.                                                       *)
(***************************************************************************)

-------------------------------------------------------------------------------
(* The operators of snapshotThenStream, field by field.                    *)

Feeds == [ready : BOOLEAN, disposed : BOOLEAN, generation : Nat, pending : Batches,
          attempts : 0 .. MaxAttempts, timer : BOOLEAN]

LEMMA NothingIsABatch == <<>> \in Batches /\ DOMAIN <<>> = {}
<1>1. DOMAIN <<>> = {}
  OBVIOUS
<1>2. <<>> \in [{} -> 1 .. MaxRow]
  OBVIOUS
<1>3. QED
  BY <1>1, <1>2 DEF Batches

LEMMA BatchRows ==
    ASSUME NEW batch \in Batches
    PROVE  /\ DOMAIN batch \subseteq Keys
           /\ \A k \in DOMAIN batch : batch[k] \in 1 .. MaxRow
  BY DEF Batches

LEMMA IsABatch ==
    ASSUME NEW changed \in SUBSET Keys, NEW batch \in [changed -> 1 .. MaxRow]
    PROVE  batch \in Batches
  BY DEF Batches

LEMMA Fields ==
    ASSUME NEW s \in Feeds
    PROVE  /\ s.ready \in BOOLEAN /\ s.disposed \in BOOLEAN /\ s.timer \in BOOLEAN
           /\ s.generation \in Nat /\ s.pending \in Batches
           /\ s.attempts \in 0 .. MaxAttempts
  BY DEF Feeds

LEMMA RefreshedFields ==
    ASSUME NEW s \in Feeds, NEW r \in BOOLEAN
    PROVE  /\ Refreshed(s, r) \in Feeds
           /\ ~Refreshed(s, r).ready /\ ~Refreshed(s, r).timer
           /\ Refreshed(s, r).generation = s.generation + 1
           /\ Refreshed(s, r).pending = s.pending
           /\ Refreshed(s, r).disposed = s.disposed
<1>1. Refreshed(s, r) = [s EXCEPT !.timer = FALSE, !.attempts = IF r THEN 0 ELSE s.attempts,
                                  !.generation = s.generation + 1, !.ready = FALSE]
  BY DEF Refreshed, Feeds
<1>2. (IF r THEN 0 ELSE s.attempts) \in 0 .. MaxAttempts
  BY Fields, StreamAssumption
<1>3. s.generation + 1 \in Nat
  BY Fields
<1>4. QED
  BY <1>1, <1>2, <1>3 DEF Feeds

LEMMA RescheduledFields ==
    ASSUME NEW s \in Feeds
    PROVE  /\ Rescheduled(s) \in Feeds
           /\ Rescheduled(s).ready = s.ready
           /\ Rescheduled(s).generation = s.generation
           /\ Rescheduled(s).pending = s.pending
           /\ Rescheduled(s).disposed = s.disposed
<1>1. CASE s.disposed \/ s.attempts >= MaxAttempts
  BY <1>1 DEF Rescheduled
<1>2. CASE ~(s.disposed \/ s.attempts >= MaxAttempts)
  <2>1. s.attempts + 1 \in 0 .. MaxAttempts
    BY <1>2, Fields, StreamAssumption
  <2>2. Rescheduled(s) = [s EXCEPT !.attempts = s.attempts + 1, !.timer = TRUE]
    BY <1>2 DEF Rescheduled, Feeds
  <2>3. QED
    BY <2>1, <2>2 DEF Feeds
<1>3. QED
  BY <1>1, <1>2

LEMMA EmptiedFields ==
    ASSUME NEW s \in Feeds
    PROVE  /\ [s EXCEPT !.pending = <<>>] \in Feeds
           /\ [s EXCEPT !.ready = TRUE, !.pending = <<>>] \in Feeds
  BY NothingIsABatch DEF Feeds

LEMMA SettledFields ==
    ASSUME NEW s \in Feeds, NEW g
    PROVE  /\ Settled(s, g) \in Feeds
           /\ Settled(s, g).ready = (IsAwaited(s, g) \/ s.ready)
           /\ Settled(s, g).generation = s.generation
           /\ Settled(s, g).pending = s.pending
           /\ Settled(s, g).disposed = s.disposed
           /\ Settled(s, g).timer = s.timer
<1>1. CASE IsAwaited(s, g)
  <2>1. 0 \in 0 .. MaxAttempts
    BY StreamAssumption
  <2>2. Settled(s, g) = [s EXCEPT !.ready = TRUE, !.attempts = 0]
    BY <1>1 DEF Settled
  <2>3. QED
    BY <1>1, <2>1, <2>2 DEF Feeds
<1>2. CASE ~IsAwaited(s, g)
  BY <1>2 DEF Settled, Feeds
<1>3. QED
  BY <1>1, <1>2

LEMMA EndedFields ==
    ASSUME NEW s \in Feeds
    PROVE  /\ Closed(s) \in Feeds /\ Closed(s).generation \in {s.generation, s.generation + 1}
           /\ Unsubscribed(s) \in Feeds /\ Unsubscribed(s).generation = s.generation + 1
<1>1. s.generation + 1 \in Nat
  BY Fields
<1>2. Unsubscribed(s) = [s EXCEPT !.disposed = TRUE, !.timer = FALSE, !.generation = s.generation + 1,
                                  !.pending = <<>>]
  BY DEF Unsubscribed, Feeds
<1>3. Closed(s) = IF s.disposed THEN s
                  ELSE [s EXCEPT !.timer = FALSE, !.generation = s.generation + 1, !.ready = FALSE,
                                 !.pending = <<>>]
  BY DEF Closed, Feeds
<1>4. CASE s.disposed
  BY <1>1, <1>2, <1>3, <1>4, NothingIsABatch DEF Feeds
<1>5. CASE ~s.disposed
  BY <1>1, <1>2, <1>3, <1>5, NothingIsABatch DEF Feeds
<1>6. QED
  BY <1>4, <1>5

LEMMA BufferedFields ==
    ASSUME NEW s \in Feeds, NEW batch \in Batches
    PROVE  /\ BufferedByKey(s, batch) \in Feeds
           /\ BufferedByKey(s, batch).ready = s.ready
           /\ BufferedByKey(s, batch).generation = s.generation
           /\ BufferedByKey(s, batch).disposed = s.disposed
           /\ BufferedByKey(s, batch).timer = s.timer
           /\ DOMAIN BufferedByKey(s, batch).pending = DOMAIN batch \cup DOMAIN s.pending
           /\ \A k \in DOMAIN BufferedByKey(s, batch).pending :
                BufferedByKey(s, batch).pending[k] = IF k \in DOMAIN batch THEN batch[k] ELSE s.pending[k]
<1> DEFINE both == [k \in DOMAIN batch \cup DOMAIN s.pending |->
                      IF k \in DOMAIN batch THEN batch[k] ELSE s.pending[k]]
<1>1. s.pending \in Batches
  BY DEF Feeds
<1>2. both \in [DOMAIN batch \cup DOMAIN s.pending -> 1 .. MaxRow]
  BY <1>1, BatchRows
<1>3. both \in Batches
  BY <1>1, <1>2, BatchRows, IsABatch
<1>4. BufferedByKey(s, batch) = [s EXCEPT !.pending = both]
  BY DEF BufferedByKey
<1>5. QED
  BY <1>3, <1>4 DEF Feeds

LEMMA OverRows ==
    ASSUME NEW batch, \A k \in DOMAIN batch \cap Keys : batch[k] \in {NoRow} \cup 0 .. MaxRow, NEW rows \in Rows
    PROVE  /\ Over(batch, rows) \in Rows
           /\ \A k \in Keys : Over(batch, rows)[k] = IF k \in DOMAIN batch THEN batch[k] ELSE rows[k]
  BY DEF Over, Rows

LEMMA ListedRows ==
    ASSUME NEW batch
    PROVE  /\ DOMAIN OnlyListed(batch) = DOMAIN batch \cap Listed
           /\ \A k \in DOMAIN OnlyListed(batch) : OnlyListed(batch)[k] = batch[k]
  BY DEF OnlyListed

-------------------------------------------------------------------------------
(* Types.                                                                  *)

Fetch == [generation : Nat, rows : Pieces \cup {<<>>}, lags : BOOLEAN]

LEMMA PiecesOfRows ==
    ASSUME NEW page \in SUBSET Keys, NEW rows \in [page -> 0 .. MaxRow]
    PROVE  rows \in Pieces
  BY DEF Pieces

LEMMA PagesStay ==
    ASSUME kind' = kind
    PROVE  Pages' = Pages
  BY DEF Pages

LEMMA PagesOfKeys == \A page \in Pages : page \in SUBSET Keys
  BY DEF Pages

LEMMA NoRowsAreRows == NoRows \in Rows
  BY DEF NoRows, Rows

LEMMA AppliedLive ==
    ASSUME FeedTypeOK, NEW batch \in Batches, NEW before \in SUBSET {"handler", "snapshot"},
           ApplyLive(batch, before)
    PROVE  /\ shown' \in Rows /\ told' \subseteq {"handler", "snapshot"}
           /\ before \subseteq told'
           /\ "handler" \notin told' =>
                 /\ told' = before
                 /\ \A k \in Listed : shown'[k] = IF k \in DOMAIN batch THEN batch[k] ELSE shown[k]
           /\ \A k \in Keys \ DOMAIN batch : shown'[k] = shown[k]
<1>1. CASE Unparsable(batch)
  BY <1>1 DEF ApplyLive, FeedTypeOK
<1>2. CASE ~Unparsable(batch)
  <2>1. shown' = Over(OnlyListed(batch), shown) /\ told' = before
    BY <1>2 DEF ApplyLive
  <2>2. \A k \in DOMAIN OnlyListed(batch) \cap Keys : OnlyListed(batch)[k] \in {NoRow} \cup 0 .. MaxRow
    <3>1. \A k \in DOMAIN batch : batch[k] \in {NoRow} \cup 0 .. MaxRow
      BY BatchRows
    <3>2. QED
      BY <3>1, ListedRows
  <2>3. /\ Over(OnlyListed(batch), shown) \in Rows
        /\ \A k \in Keys : Over(OnlyListed(batch), shown)[k]
              = IF k \in DOMAIN OnlyListed(batch) THEN OnlyListed(batch)[k] ELSE shown[k]
    BY <2>2, OverRows DEF FeedTypeOK
  <2>4. \A k \in Listed : shown'[k] = IF k \in DOMAIN batch THEN batch[k] ELSE shown[k]
    BY <2>1, <2>3, ListedRows, KeyedFeedAssumption
  <2>5. \A k \in Keys \ DOMAIN batch : shown'[k] = shown[k]
    BY <2>1, <2>3, ListedRows
  <2>6. QED
    BY <2>1, <2>3, <2>4, <2>5
<1>3. QED
  BY <1>1, <1>2

LEMMA AppliedSnapshot ==
    ASSUME FeedTypeOK, NEW rows \in Pieces, NEW buffered \in Batches,
           ApplySnapshot(rows, buffered)
    PROVE  /\ shown' \in Rows /\ told' \subseteq {"handler", "snapshot"}
           /\ told \subseteq told'
           /\ Unparsable(buffered) => "handler" \in told'
           /\ ~Unparsable(buffered) =>
                 /\ told' = told
                 /\ \A k \in Listed \cap DOMAIN buffered : shown'[k] = buffered[k]
                 /\ \A k \in (Listed \cap DOMAIN rows) \ DOMAIN buffered : shown'[k] = rows[k]
                 /\ kind = "overview" =>
                       \A k \in Keys \ (DOMAIN rows \cup DOMAIN buffered) : shown'[k] = NoRow
<1>1. CASE Unparsable(buffered)
  BY <1>1 DEF ApplySnapshot, FeedTypeOK
<1>2. CASE ~Unparsable(buffered)
  <2>1. told' = told
    BY <1>2 DEF ApplySnapshot
  <2>2. \A k \in DOMAIN buffered : buffered[k] \in {NoRow} \cup 0 .. MaxRow
    BY BatchRows
  <2>3. DOMAIN rows \subseteq Keys /\ \A k \in DOMAIN rows : rows[k] \in {NoRow} \cup 0 .. MaxRow
    BY DEF Pieces
  <2>4. CASE kind = "overview"
    <3>1. PICK base : base = Over(OnlyListed(rows), NoRows)
      OBVIOUS
    <3>2. shown' = Over(OnlyListed(buffered), base)
      BY <1>2, <2>4, <3>1 DEF ApplySnapshot
    <3>3. /\ base \in Rows
          /\ \A k \in Keys : base[k] = IF k \in DOMAIN OnlyListed(rows) THEN OnlyListed(rows)[k] ELSE NoRows[k]
      <4>1. \A k \in DOMAIN OnlyListed(rows) \cap Keys : OnlyListed(rows)[k] \in {NoRow} \cup 0 .. MaxRow
        BY <2>3, ListedRows
      <4>2. QED
        BY <3>1, <4>1, OverRows, NoRowsAreRows
    <3>4. \A k \in Keys : NoRows[k] = NoRow
      BY DEF NoRows
    <3>5. \A k \in DOMAIN OnlyListed(buffered) \cap Keys : OnlyListed(buffered)[k] \in {NoRow} \cup 0 .. MaxRow
      BY <2>2, ListedRows
    <3>6. /\ shown' \in Rows
          /\ \A k \in Keys : shown'[k]
               = IF k \in DOMAIN OnlyListed(buffered) THEN OnlyListed(buffered)[k] ELSE base[k]
      BY <3>2, <3>3, <3>5, OverRows
    <3>7. \A k \in Listed \cap DOMAIN buffered : shown'[k] = buffered[k]
      BY <3>6, ListedRows, KeyedFeedAssumption
    <3>8. \A k \in (Listed \cap DOMAIN rows) \ DOMAIN buffered : shown'[k] = rows[k]
      BY <3>3, <3>6, ListedRows, KeyedFeedAssumption
    <3>9. \A k \in Keys \ (DOMAIN rows \cup DOMAIN buffered) : shown'[k] = NoRow
      BY <3>3, <3>4, <3>6, ListedRows
    <3>10. QED
      BY <1>2, <2>1, <3>6, <3>7, <3>8, <3>9 DEF FeedTypeOK
  <2>5. CASE kind # "overview"
    <3>1. PICK base : base = Over(rows, shown)
      OBVIOUS
    <3>2. shown' = Over(buffered, base)
      BY <1>2, <2>5, <3>1 DEF ApplySnapshot
    <3>3. /\ base \in Rows
          /\ \A k \in Keys : base[k] = IF k \in DOMAIN rows THEN rows[k] ELSE shown[k]
      BY <2>3, <3>1, OverRows DEF FeedTypeOK
    <3>4. /\ shown' \in Rows
          /\ \A k \in Keys : shown'[k] = IF k \in DOMAIN buffered THEN buffered[k] ELSE base[k]
      BY <3>2, <3>3, <2>2, OverRows
    <3>5. QED
      BY <1>2, <2>1, <2>5, <3>3, <3>4, KeyedFeedAssumption DEF FeedTypeOK
  <2>6. QED
    BY <2>4, <2>5
<1>3. QED
  BY <1>1, <1>2

-------------------------------------------------------------------------------
(* The inductive invariant: however stale a row that is fetched, buffered  *)
(* or shown, its successor is still under way behind it.                   *)

OnWire(k)   == \E i \in DOMAIN wire : k \in DOMAIN wire[i]
\* The row is the server's row of k, or what is under way will replace it.
Fresh(k, row) == OnWire(k) \/ row = server[k]
Awaited     == {f \in fetches : f.generation = st.generation}

\* The last batch under way that has a key carries the server's row.
WireInv == \A i \in DOMAIN wire : \A k \in DOMAIN wire[i] :
              (\A j \in DOMAIN wire : j > i => k \notin DOMAIN wire[j]) => wire[i][k] = server[k]

\* A snapshot is awaited once, and only by a feed that is not live.
SnapshotInv ==
    /\ ~st.disposed
    /\ \A f, g \in Awaited : f = g
    /\ Awaited # {} => ~st.ready /\ ~st.timer
    /\ covered # {} => st.ready /\ ~st.timer
    /\ ~st.ready => Awaited # {} \/ st.timer \/ "snapshot" \in told
    /\ st.ready /\ told = {} => covered \in Pages

\* The row of k was published, or covered by a snapshot that does not lag.
Sure(k) == (k \in covered /\ ~lagged) \/ k \in renewed

\* What is buffered, fetched or shown is the server's row, or will be replaced.
RowsInv ==
    /\ st.ready => DOMAIN st.pending = {}
    /\ DOMAIN st.pending \subseteq renewed
    /\ kind = "overview" => ~st.timer
    /\ kind = "overview" /\ ~st.ready => renewed \subseteq DOMAIN st.pending
    /\ \A k \in DOMAIN st.pending : Fresh(k, st.pending[k])
    /\ \A f \in Awaited : f.rows # <<>> /\ ~f.lags =>
          \A k \in DOMAIN f.rows \ DOMAIN st.pending : Fresh(k, f.rows[k])
    /\ "handler" \notin told =>
          /\ \A k \in Listed \ DOMAIN st.pending : Sure(k) => Fresh(k, shown[k])
          /\ kind = "overview" /\ st.ready =>
                \A k \in Keys \ (covered \cup renewed) : shown[k] = NoRow

FeedInv ==
    /\ \A f \in fetches : f.generation <= st.generation
    /\ \A f \in fetches : f.rows # <<>> => DOMAIN f.rows \in Pages
    /\ link # "connected" => wire = <<>>
    /\ link = "connected" => WireInv /\ SnapshotInv /\ RowsInv

LEMMA FeedInits == FeedInit => FeedTypeOK /\ FeedInv
<1> SUFFICES ASSUME FeedInit PROVE FeedTypeOK /\ FeedInv
  OBVIOUS
<1>1. st \in Feeds
  BY NothingIsABatch, StreamAssumption DEF FeedInit, NewFeed, Feeds
<1>2. shown \in Rows /\ server \in [Keys -> 0 .. MaxRow]
  BY NoRowsAreRows, KeyedFeedAssumption DEF FeedInit
<1>3. wire \in Seq(Batches) /\ feedFaults \in Nat
  BY DEF FeedInit
<1>4. /\ kind \in {"overview", "supply"} /\ catalogReady \in BOOLEAN /\ covered = {} /\ lagged = FALSE
      /\ fetches = {} /\ told = {} /\ renewed = {} /\ link = "connecting"
  BY DEF FeedInit
<1>5. FeedTypeOK
  BY <1>1, <1>2, <1>3, <1>4 DEF FeedTypeOK, Feeds
<1>6. FeedInv
  BY DEF FeedInit, FeedInv
<1>7. QED
  BY <1>5, <1>6

LEMMA FetchesTyped ==
    ASSUME NEW old \in SUBSET Fetch, NEW g \in Nat, NEW rows \in Pieces \cup {<<>>}, NEW lags \in BOOLEAN
    PROVE  old \cup {[generation |-> g, rows |-> rows, lags |-> lags]} \in SUBSET Fetch
  BY DEF Fetch

\* A batch taken off the wire carried the server's rows, or their successors follow it.
LEMMA TakenOff ==
    ASSUME FeedTypeOK, WireInv, wire # <<>>, NEW head, head = Head(wire), wire' = Tail(wire), UNCHANGED server
    PROVE  /\ head \in Batches /\ wire' \in Seq(Batches)
           /\ WireInv'
           /\ \A k \in DOMAIN head : Fresh(k, head[k])'
           /\ \A k, row : k \notin DOMAIN head /\ Fresh(k, row) => Fresh(k, row)'
<1>1. wire \in Seq(Batches)
  BY DEF FeedTypeOK
<1>2. /\ head \in Batches /\ wire' \in Seq(Batches)
      /\ Len(wire) \in Nat \ {0} /\ Len(wire') = Len(wire) - 1
      /\ head = wire[1]
      /\ \A i \in 1 .. Len(wire') : wire'[i] = wire[i + 1]
  BY <1>1
<1>3. DOMAIN wire = 1 .. Len(wire) /\ DOMAIN wire' = 1 .. Len(wire')
  BY <1>1, <1>2
<1>4. WireInv'
  <2> SUFFICES ASSUME NEW i \in DOMAIN wire', NEW k \in DOMAIN wire'[i],
                      \A j \in DOMAIN wire' : j > i => k \notin DOMAIN wire'[j]
               PROVE  wire'[i][k] = server'[k]
    BY DEF WireInv
  <2>1. server' = server
    OBVIOUS
  <2>2. i + 1 \in 1 .. Len(wire) /\ wire'[i] = wire[i + 1]
    BY <1>2, <1>3
  <2>3. \A j \in 1 .. Len(wire) : j > i + 1 => k \notin DOMAIN wire[j]
    <3> TAKE j \in 1 .. Len(wire)
    <3> HAVE j > i + 1
    <3>1. j - 1 \in 1 .. Len(wire') /\ j - 1 > i /\ (j - 1) + 1 = j
      BY <1>2
    <3>2. wire'[j - 1] = wire[j]
      BY <3>1, <1>2
    <3>3. QED
      BY <3>1, <3>2, <1>3
  <2>4. QED
    BY <2>1, <2>2, <2>3, <1>3 DEF WireInv
<1>5. ASSUME NEW k, OnWire(k)
      PROVE  OnWire(k)' \/ k \in DOMAIN head
  <2>1. PICK i \in 1 .. Len(wire) : k \in DOMAIN wire[i]
    BY <1>3, <1>5 DEF OnWire
  <2>2. CASE i = 1
    BY <2>1, <2>2, <1>2
  <2>3. CASE i # 1
    <3>1. i - 1 \in 1 .. Len(wire') /\ (i - 1) + 1 = i
      BY <2>3, <1>2
    <3>2. wire'[i - 1] = wire[i]
      BY <3>1, <1>2
    <3>3. QED
      BY <2>1, <3>1, <3>2, <1>3 DEF OnWire
  <2>4. QED
    BY <2>2, <2>3
<1>6. \A k \in DOMAIN head : Fresh(k, head[k])'
  <2> SUFFICES ASSUME NEW k \in DOMAIN head, ~OnWire(k)'
               PROVE  head[k] = server'[k]
    BY DEF Fresh
  <2>1. server' = server
    OBVIOUS
  <2>2. \A j \in 1 .. Len(wire) : j > 1 => k \notin DOMAIN wire[j]
    <3> TAKE j \in 1 .. Len(wire)
    <3> HAVE j > 1
    <3>1. j - 1 \in 1 .. Len(wire') /\ (j - 1) + 1 = j
      BY <1>2
    <3>2. wire'[j - 1] = wire[j]
      BY <3>1, <1>2
    <3>3. QED
      BY <3>1, <3>2, <1>3 DEF OnWire
  <2>3. 1 \in 1 .. Len(wire) /\ k \in DOMAIN wire[1]
    BY <1>2
  <2>4. wire[1][k] = server[k]
    BY <2>2, <2>3, <1>3 DEF WireInv
  <2>5. QED
    BY <2>1, <2>4, <1>2
<1>7. \A k, row : k \notin DOMAIN head /\ Fresh(k, row) => Fresh(k, row)'
  BY <1>5 DEF Fresh
<1>8. QED
  BY <1>2, <1>4, <1>6, <1>7

-------------------------------------------------------------------------------
(* Each action keeps it.                                                   *)

\* A refresh starts a generation, whose snapshot is the only one awaited.
LEMMA OneAwaited ==
    ASSUME FeedTypeOK, \A f \in fetches : f.generation <= st.generation,
           \A f \in fetches : f.rows # <<>> => DOMAIN f.rows \in Pages, kind' = kind,
           NEW new, new = [generation |-> st'.generation, rows |-> <<>>, lags |-> FALSE],
           st'.generation = st.generation + 1, fetches' = fetches \cup {new}
    PROVE  /\ \A f \in fetches' : f.generation <= st'.generation
           /\ \A f \in fetches' : f.rows # <<>> => DOMAIN f.rows \in Pages'
           /\ Awaited' = {new}
           /\ fetches' \in SUBSET Fetch
<1>1. st.generation \in Nat /\ \A f \in fetches : f.generation \in Nat
  BY DEF FeedTypeOK
<1>2. new.generation = st.generation + 1
  OBVIOUS
<1>3. \A f \in fetches : f.generation < st.generation + 1
  BY <1>1
<1>4. \A f \in fetches' : f.generation <= st'.generation
  BY <1>1, <1>2, <1>3
<1>5. \A f \in fetches : f.generation # st'.generation
  BY <1>1, <1>3
<1>6. Awaited' = {new}
  BY <1>2, <1>5 DEF Awaited
<1>7. fetches' \in SUBSET Fetch
  <2>1. fetches \in SUBSET Fetch
    BY DEF FeedTypeOK, Fetch
  <2>2. st'.generation \in Nat
    BY <1>1
  <2>3. QED
    BY <2>1, <2>2, FetchesTyped
<1>8. Pages' = Pages
  BY DEF Pages
<1>9. new.rows = <<>>
  OBVIOUS
<1>10. \A f \in fetches' : f.rows # <<>> => DOMAIN f.rows \in Pages'
  BY <1>8, <1>9
<1>11. QED
  BY <1>4, <1>6, <1>7, <1>10

LEMMA ConnectedStep ==
    ASSUME FeedTypeOK, FeedInv, FeedConnected
    PROVE  FeedTypeOK' /\ FeedInv'
<1> DEFINE before == [st EXCEPT !.pending = <<>>]
<1>1. st \in Feeds /\ fetches \in SUBSET Fetch
  BY DEF FeedTypeOK, Feeds, Fetch
<1>2. /\ before \in Feeds /\ before.pending = <<>> /\ before.generation = st.generation
      /\ before.disposed = st.disposed
  BY <1>1, EmptiedFields DEF Feeds
<1>3. st' = Refreshed(before, TRUE)
      /\ fetches' = fetches \cup {[generation |-> st'.generation, rows |-> <<>>, lags |-> FALSE]}
  BY DEF FeedConnected, RefreshSnapshot
<1>4. /\ st' \in Feeds /\ ~st'.ready /\ ~st'.timer /\ ~st'.disposed
      /\ st'.generation = st.generation + 1 /\ st'.pending = <<>>
  <2> HIDE DEF before
  <2>1. ~st.disposed
    BY DEF FeedConnected
  <2>2. QED
    BY <1>2, <1>3, <2>1, RefreshedFields
<1>5. PICK new : new = [generation |-> st'.generation, rows |-> <<>>, lags |-> FALSE]
  OBVIOUS
<1>6. /\ \A f \in fetches' : f.generation <= st'.generation
      /\ \A f \in fetches' : f.rows # <<>> => DOMAIN f.rows \in Pages'
      /\ Awaited' = {new} /\ fetches' \in SUBSET Fetch
  <2>1. kind' = kind
    BY DEF FeedConnected
  <2>2. QED
    BY <2>1, <1>3, <1>4, <1>5, OneAwaited DEF FeedInv
<1>7. wire = <<>> /\ link' = "connected" /\ told' = {} /\ covered' = {} /\ lagged' = FALSE /\ renewed' = {}
      /\ UNCHANGED <<kind, catalogReady, shown, wire, server, feedFaults>>
  BY DEF FeedConnected, FeedInv
<1>8. FeedTypeOK'
  BY <1>4, <1>6, <1>7 DEF FeedTypeOK, Feeds, Fetch
<1>9. WireInv'
  BY <1>7 DEF WireInv
<1>10. SnapshotInv'
  BY <1>4, <1>7, <1>6 DEF SnapshotInv
<1>11. RowsInv'
  BY <1>4, <1>5, <1>7, <1>6, NothingIsABatch DEF RowsInv, Sure
<1>12. QED
  BY <1>7, <1>8, <1>6, <1>9, <1>10, <1>11 DEF FeedInv

LEMMA PublicationStep ==
    ASSUME FeedTypeOK, FeedInv, FeedPublication
    PROVE  FeedTypeOK' /\ FeedInv'
<1>1. PICK head : head = Head(wire)
  OBVIOUS
<1>2. st \in Feeds /\ fetches \in SUBSET Fetch
  BY DEF FeedTypeOK, Feeds, Fetch
<1>3. /\ wire # <<>> /\ wire' = Tail(wire) /\ renewed' = renewed \cup DOMAIN head
      /\ UNCHANGED <<kind, catalogReady, fetches, covered, lagged, link, server, feedFaults>>
  BY <1>1 DEF FeedPublication
<1>4. link = "connected" /\ WireInv /\ SnapshotInv /\ RowsInv
  BY <1>3 DEF FeedInv, FeedTypeOK
<1>5. /\ head \in Batches /\ wire' \in Seq(Batches) /\ WireInv'
      /\ \A k \in DOMAIN head : Fresh(k, head[k])'
      /\ \A k, row : k \notin DOMAIN head /\ Fresh(k, row) => Fresh(k, row)'
  BY <1>1, <1>3, <1>4, TakenOff
<1>6. renewed' \subseteq Keys
  BY <1>3, <1>5, BatchRows DEF FeedTypeOK
<1>7. CASE st.ready
  <2>1. ApplyLive(head, told) /\ UNCHANGED st
    BY <1>1, <1>7 DEF FeedPublication
  <2>2. /\ shown' \in Rows /\ told' \subseteq {"handler", "snapshot"} /\ told \subseteq told'
        /\ "handler" \notin told' =>
              \A k \in Listed : shown'[k] = IF k \in DOMAIN head THEN head[k] ELSE shown[k]
        /\ \A k \in Keys \ DOMAIN head : shown'[k] = shown[k]
    BY <2>1, <1>5, AppliedLive DEF FeedTypeOK
  <2>3. FeedTypeOK'
    BY <1>3, <1>5, <1>6, <2>1, <2>2 DEF FeedTypeOK
  <2>4. Awaited' = Awaited /\ Awaited = {} /\ DOMAIN st.pending = {}
    BY <1>3, <1>4, <1>7, <2>1 DEF Awaited, SnapshotInv, RowsInv
  <2>5. SnapshotInv'
    BY <1>3, <1>4, <2>1, <2>2, <2>4, PagesStay DEF SnapshotInv
  <2>6. ASSUME "handler" \notin told', NEW k \in Listed, Sure(k)'
        PROVE  Fresh(k, shown[k])'
    <3>1. CASE k \in DOMAIN head
      BY <3>1, <2>2, <2>6, <1>5
    <3>2. CASE k \notin DOMAIN head
      <4>1. Fresh(k, shown[k])
        BY <3>2, <2>2, <2>4, <2>6, <1>3, <1>4 DEF RowsInv, Sure
      <4>2. \A row : row = shown[k] => Fresh(k, row)'
        BY <4>1, <3>2, <1>5
      <4>3. shown'[k] = shown[k]
        BY <3>2, <2>2, <2>6
      <4>4. QED
        BY <4>2, <4>3 DEF Fresh
    <3>3. QED
      BY <3>1, <3>2
  <2>7. ASSUME "handler" \notin told', kind' = "overview", NEW k \in Keys \ (covered' \cup renewed')
        PROVE  shown'[k] = NoRow
    BY <1>3, <1>4, <1>7, <2>2, <2>7 DEF RowsInv
  <2>8. RowsInv'
    BY <1>3, <1>4, <1>7, <2>1, <2>4, <2>6, <2>7 DEF RowsInv
  <2>9. /\ \A f \in fetches' : f.generation <= st'.generation
        /\ \A f \in fetches' : f.rows # <<>> => DOMAIN f.rows \in Pages'
    BY <1>3, <2>1, PagesStay DEF FeedInv
  <2>10. QED
    BY <1>3, <1>4, <1>5, <2>1, <2>3, <2>5, <2>8, <2>9 DEF FeedInv
<1>8. CASE ~st.ready
  <2>1. st' = BufferedByKey(st, head) /\ UNCHANGED <<shown, told>>
    BY <1>1, <1>8 DEF FeedPublication
  <2>2. /\ st' \in Feeds /\ ~st'.ready /\ st'.generation = st.generation
        /\ st'.disposed = st.disposed /\ st'.timer = st.timer
        /\ DOMAIN st'.pending = DOMAIN head \cup DOMAIN st.pending
        /\ \A k \in DOMAIN st'.pending :
             st'.pending[k] = IF k \in DOMAIN head THEN head[k] ELSE st.pending[k]
    BY <1>2, <1>5, <1>8, <2>1, BufferedFields
  <2>3. FeedTypeOK'
    BY <1>3, <1>5, <1>6, <2>1, <2>2 DEF FeedTypeOK, Feeds
  <2>4. Awaited' = Awaited
    BY <1>3, <2>2 DEF Awaited
  <2>5. SnapshotInv'
    BY <1>3, <1>4, <1>8, <2>1, <2>2, <2>4 DEF SnapshotInv
  <2>6. ASSUME NEW k \in DOMAIN st'.pending
        PROVE  Fresh(k, st.pending[k])'
    <3>1. CASE k \in DOMAIN head
      BY <3>1, <2>2, <1>5 DEF Fresh
    <3>2. CASE k \notin DOMAIN head
      <4>1. Fresh(k, st.pending[k])
        BY <3>2, <2>2, <1>4 DEF RowsInv
      <4>2. \A row : row = st.pending[k] => Fresh(k, row)'
        BY <4>1, <3>2, <1>5
      <4>3. st'.pending[k] = st.pending[k]
        BY <3>2, <2>2
      <4>4. QED
        BY <4>2, <4>3 DEF Fresh
    <3>3. QED
      BY <3>1, <3>2
  <2>7. ASSUME NEW f \in Awaited', f.rows # <<>>, ~f.lags, NEW k \in DOMAIN f.rows \ DOMAIN st'.pending
        PROVE  Fresh(k, f.rows[k])'
    BY <1>4, <1>5, <2>2, <2>4, <2>7 DEF RowsInv
  <2>8. ASSUME "handler" \notin told', NEW k \in Listed \ DOMAIN st'.pending, Sure(k)'
        PROVE  Fresh(k, shown[k])'
    <3>1. k \notin DOMAIN head /\ k \notin DOMAIN st.pending
      BY <2>2
    <3>2. Fresh(k, shown[k])
      BY <1>3, <1>4, <2>1, <2>8, <3>1 DEF RowsInv, Sure
    <3>3. \A row : row = shown[k] => Fresh(k, row)'
      BY <3>1, <3>2, <1>5
    <3>4. QED
      BY <2>1, <3>3 DEF Fresh
  <2>9. RowsInv'
    <3>1. /\ DOMAIN st'.pending \subseteq renewed'
          /\ kind' = "overview" => ~st'.timer /\ renewed' \subseteq DOMAIN st'.pending
      BY <1>3, <1>4, <1>8, <2>2 DEF RowsInv
    <3>2. QED
      BY <2>2, <2>6, <2>7, <2>8, <3>1 DEF RowsInv
  <2>10. /\ \A f \in fetches' : f.generation <= st'.generation
         /\ \A f \in fetches' : f.rows # <<>> => DOMAIN f.rows \in Pages'
    BY <1>3, <2>2, PagesStay DEF FeedInv
  <2>11. QED
    BY <1>3, <1>4, <1>5, <2>2, <2>3, <2>5, <2>9, <2>10 DEF FeedInv
<1>9. QED
  BY <1>7, <1>8

LEMMA SnapshotTakenStep ==
    ASSUME FeedTypeOK, FeedInv, SnapshotTaken
    PROVE  FeedTypeOK' /\ FeedInv'
<1>1. PICK f \in fetches, page \in Pages :
        /\ f.rows = <<>>
        /\ \/ Answered(f, [k \in page |-> server[k]], FALSE) /\ UNCHANGED feedFaults
           \/ /\ FeedFault("stale")
              /\ \E past \in [page -> 0 .. MaxRow] :
                    /\ \A k \in page : past[k] <= server[k]
                    /\ Answered(f, past, TRUE)
  BY DEF SnapshotTaken
<1>2. /\ catalogReady' = TRUE
      /\ UNCHANGED <<kind, st, shown, told, covered, lagged, renewed, link, wire, server>>
  BY DEF SnapshotTaken
<1>3. page \in SUBSET Keys
  BY PagesOfKeys
<1>4. PICK rows \in [page -> 0 .. MaxRow], lags \in BOOLEAN :
        /\ ~lags => \A k \in page : rows[k] = server[k]
        /\ Answered(f, rows, lags)
        /\ feedFaults' \in Nat
  <2>1. CASE Answered(f, [k \in page |-> server[k]], FALSE) /\ UNCHANGED feedFaults
    <3>1. [k \in page |-> server[k]] \in [page -> 0 .. MaxRow]
      BY <1>3 DEF FeedTypeOK
    <3>2. feedFaults' \in Nat
      BY <2>1 DEF FeedTypeOK
    <3>3. QED
      BY <2>1, <3>1, <3>2
  <2>2. CASE ~(Answered(f, [k \in page |-> server[k]], FALSE) /\ UNCHANGED feedFaults)
    <3>1. /\ FeedFault("stale")
          /\ \E past \in [page -> 0 .. MaxRow] : Answered(f, past, TRUE)
      <4> DEFINE Good == Answered(f, [k \in page |-> server[k]], FALSE) /\ UNCHANGED feedFaults
      <4> HIDE DEF Good
      <4>1. ~Good
        BY <2>2 DEF Good
      <4>2. Good \/ /\ FeedFault("stale")
                    /\ \E past \in [page -> 0 .. MaxRow] : Answered(f, past, TRUE)
        BY <1>1 DEF Good
      <4>3. QED
        BY <4>1, <4>2
    <3>2. feedFaults' \in Nat
      BY <3>1 DEF FeedFault, FeedTypeOK
    <3>3. PICK past \in [page -> 0 .. MaxRow] : Answered(f, past, TRUE)
      BY <3>1
    <3>4. QED
      BY <3>2, <3>3
  <2>3. QED
    BY <2>1, <2>2
<1>5. PICK g : g = [f EXCEPT !.rows = rows, !.lags = lags]
  OBVIOUS
<1>6. fetches' = (fetches \ {f}) \cup {g}
  BY <1>4, <1>5 DEF Answered
<1>7. /\ f \in Fetch /\ fetches \in SUBSET Fetch
      /\ g \in Fetch /\ g.generation = f.generation /\ g.rows = rows /\ g.lags = lags
      /\ DOMAIN g.rows \in Pages
  <2>1. f \in Fetch /\ fetches \in SUBSET Fetch
    BY DEF FeedTypeOK, Fetch
  <2>2. rows \in Pieces
    BY <1>3, PiecesOfRows
  <2>3. DOMAIN rows = page
    BY <1>4
  <2>4. QED
    BY <2>1, <2>2, <2>3, <1>5 DEF Fetch
<1>8. FeedTypeOK'
  <2>1. fetches' \in SUBSET Fetch
    BY <1>6, <1>7
  <2>2. QED
    BY <1>2, <1>4, <2>1 DEF FeedTypeOK, Fetch
<1>9. /\ \A e \in fetches' : e.generation <= st'.generation
      /\ \A e \in fetches' : e.rows # <<>> => DOMAIN e.rows \in Pages'
  BY <1>2, <1>6, <1>7, PagesStay DEF FeedInv
<1>10. ASSUME link = "connected"
       PROVE  WireInv' /\ SnapshotInv' /\ RowsInv'
  <2>1. WireInv /\ SnapshotInv /\ RowsInv
    BY <1>10 DEF FeedInv
  <2>2. WireInv'
    BY <1>2, <2>1 DEF WireInv
  <2>3. g.generation = st'.generation <=> f.generation = st.generation
    BY <1>2, <1>7
  <2>4. Pages' = Pages
    BY <1>2, PagesStay
  <2>5. \A k : Sure(k)' = Sure(k)
    BY <1>2 DEF Sure
  <2>6. CASE f.generation = st.generation
    <3>1. Awaited = {f}
      BY <2>1, <2>6 DEF Awaited, SnapshotInv
    <3>2. Awaited' = {g}
      BY <1>2, <1>6, <2>3, <2>6, <3>1 DEF Awaited
    <3>3. SnapshotInv'
      BY <1>2, <2>1, <2>4, <3>1, <3>2 DEF SnapshotInv
    <3>4. ~g.lags => \A k \in DOMAIN g.rows : Fresh(k, g.rows[k])'
      BY <1>2, <1>4, <1>7 DEF Fresh
    <3>5. RowsInv'
      BY <1>2, <2>1, <2>5, <3>2, <3>4 DEF RowsInv, Fresh, OnWire
    <3>6. QED
      BY <2>2, <3>3, <3>5
  <2>7. CASE f.generation # st.generation
    <3>1. Awaited' = Awaited
      BY <1>2, <1>6, <2>3, <2>7 DEF Awaited
    <3>2. SnapshotInv'
      BY <1>2, <2>1, <2>4, <3>1 DEF SnapshotInv
    <3>3. RowsInv'
      BY <1>2, <2>1, <2>5, <3>1 DEF RowsInv, Fresh, OnWire
    <3>4. QED
      BY <2>2, <3>2, <3>3
  <2>8. QED
    BY <2>6, <2>7
<1>11. QED
  BY <1>2, <1>8, <1>9, <1>10 DEF FeedInv

LEMMA FeedSnapshotStep ==
    ASSUME FeedTypeOK, FeedInv, FeedSnapshot
    PROVE  FeedTypeOK' /\ FeedInv'
<1>1. PICK f \in fetches :
        /\ f.rows # <<>>
        /\ fetches' = fetches \ {f}
        /\ IF IsAwaited(st, f.generation)
           THEN /\ ApplySnapshot(f.rows, st.pending)
                /\ st' = Settled([st EXCEPT !.pending = <<>>], f.generation)
                /\ covered' = IF Unparsable(st.pending) THEN {} ELSE DOMAIN f.rows
                /\ lagged' = f.lags
                /\ renewed' = IF f.lags THEN DOMAIN st.pending ELSE renewed
           ELSE UNCHANGED <<st, shown, told, covered, lagged, renewed>>
        /\ UNCHANGED <<kind, catalogReady, link, wire, server, feedFaults>>
  BY DEF FeedSnapshot
<1>2. /\ st \in Feeds /\ fetches \in SUBSET Fetch /\ f \in Fetch /\ f.rows \in Pieces
      /\ f.lags \in BOOLEAN /\ st.pending \in Batches
  BY <1>1 DEF FeedTypeOK, Feeds, Fetch
<1>3. /\ \A e \in fetches' : e.rows # <<>> => DOMAIN e.rows \in Pages'
      /\ DOMAIN f.rows \in Pages /\ DOMAIN f.rows \subseteq Keys /\ Pages' = Pages
  BY <1>1, PagesStay, PagesOfKeys DEF FeedInv
<1>4. CASE IsAwaited(st, f.generation)
  <2>1. PICK before : before = [st EXCEPT !.pending = <<>>]
    OBVIOUS
  <2>2. /\ before \in Feeds /\ before.generation = st.generation /\ before.pending = <<>>
        /\ before.disposed = st.disposed /\ before.timer = st.timer
    BY <1>2, <2>1, EmptiedFields DEF Feeds
  <2>3. IsAwaited(before, f.generation)
    BY <1>4, <2>2 DEF IsAwaited
  <2>4. /\ st' \in Feeds /\ st'.ready /\ st'.generation = st.generation
        /\ st'.pending = <<>> /\ st'.disposed = st.disposed /\ st'.timer = st.timer
    <3>1. st' = Settled(before, f.generation)
      BY <1>1, <1>4, <2>1
    <3>2. QED
      BY <2>2, <2>3, <3>1, SettledFields
  <2>5. /\ shown' \in Rows /\ told' \subseteq {"handler", "snapshot"} /\ told \subseteq told'
        /\ Unparsable(st.pending) => "handler" \in told'
        /\ ~Unparsable(st.pending) =>
              /\ told' = told
              /\ \A k \in Listed \cap DOMAIN st.pending : shown'[k] = st.pending[k]
              /\ \A k \in (Listed \cap DOMAIN f.rows) \ DOMAIN st.pending : shown'[k] = f.rows[k]
              /\ kind = "overview" =>
                    \A k \in Keys \ (DOMAIN f.rows \cup DOMAIN st.pending) : shown'[k] = NoRow
    BY <1>1, <1>2, <1>4, AppliedSnapshot
  <2>6. /\ covered' = IF Unparsable(st.pending) THEN {} ELSE DOMAIN f.rows
        /\ lagged' = f.lags
        /\ renewed' = IF f.lags THEN DOMAIN st.pending ELSE renewed
    BY <1>1, <1>4
  <2>7. FeedTypeOK'
    <3>1. DOMAIN st.pending \subseteq Keys
      BY <1>2, BatchRows
    <3>2. covered' \subseteq Keys /\ renewed' \subseteq Keys /\ lagged' \in BOOLEAN
      BY <1>2, <1>3, <2>6, <3>1 DEF FeedTypeOK
    <3>3. QED
      BY <1>1, <1>2, <2>4, <2>5, <3>2 DEF FeedTypeOK, Feeds, Fetch
  <2>8. \A e \in fetches' : e.generation <= st'.generation
    BY <1>1, <2>4 DEF FeedInv
  <2>9. ASSUME link = "connected"
        PROVE  WireInv' /\ SnapshotInv' /\ RowsInv'
    <3>1. WireInv /\ SnapshotInv /\ RowsInv
      BY <2>9 DEF FeedInv
    <3>2. f \in Awaited
      BY <1>4 DEF Awaited, IsAwaited
    <3>3. Awaited' = {} /\ ~st.ready
      BY <1>1, <2>4, <3>1, <3>2 DEF Awaited, SnapshotInv
    <3>4. WireInv'
      BY <1>1, <3>1 DEF WireInv
    <3>5. SnapshotInv'
      BY <1>3, <2>4, <2>5, <2>6, <3>1, <3>2, <3>3 DEF SnapshotInv
    <3>6. \A k, row : Fresh(k, row) => Fresh(k, row)'
      BY <1>1 DEF Fresh, OnWire
    <3>7. ASSUME "handler" \notin told', NEW k \in Listed, Sure(k)'
          PROVE  Fresh(k, shown[k])'
      <4>1. ~Unparsable(st.pending) /\ k \in Keys
        BY <2>5, <3>7, KeyedFeedAssumption
      <4>2. CASE k \in DOMAIN st.pending
        <5>1. Fresh(k, st.pending[k])
          BY <4>2, <3>1 DEF RowsInv
        <5>2. \A row : row = st.pending[k] => Fresh(k, row)'
          BY <5>1, <3>6
        <5>3. QED
          BY <2>5, <4>1, <4>2, <5>2 DEF Fresh
      <4>3. CASE k \notin DOMAIN st.pending
        <5>1. ~f.lags /\ (k \in DOMAIN f.rows \/ k \in renewed)
          BY <2>6, <3>7, <4>1, <4>3 DEF Sure
        <5>2. k \in DOMAIN f.rows
          <6>1. CASE kind = "overview"
            BY <3>1, <3>3, <4>3, <5>1, <6>1 DEF RowsInv
          <6>2. CASE kind # "overview"
            BY <1>3, <4>1, <6>2 DEF Pages, FeedTypeOK
          <6>3. QED
            BY <6>1, <6>2
        <5>3. Fresh(k, f.rows[k])
          BY <1>1, <3>1, <3>2, <4>3, <5>1, <5>2 DEF RowsInv
        <5>4. \A row : row = f.rows[k] => Fresh(k, row)'
          BY <5>3, <3>6
        <5>5. QED
          BY <2>5, <4>1, <4>3, <5>2, <5>4 DEF Fresh
      <4>4. QED
        BY <4>2, <4>3
    <3>8. ASSUME "handler" \notin told', kind' = "overview", NEW k \in Keys \ (covered' \cup renewed')
          PROVE  shown'[k] = NoRow
      <4>1. ~Unparsable(st.pending) /\ kind = "overview"
        BY <1>1, <2>5, <3>8
      <4>2. k \notin DOMAIN f.rows /\ k \notin DOMAIN st.pending
        BY <2>6, <3>1, <3>8, <4>1 DEF RowsInv
      <4>3. QED
        BY <2>5, <3>8, <4>1, <4>2
    <3>9. RowsInv'
      BY <1>1, <2>4, <3>1, <3>3, <3>7, <3>8, NothingIsABatch DEF RowsInv
    <3>10. QED
      BY <3>4, <3>5, <3>9
  <2>10. QED
    BY <1>1, <1>3, <2>7, <2>8, <2>9 DEF FeedInv
<1>5. CASE ~IsAwaited(st, f.generation)
  <2>1. UNCHANGED <<st, shown, told, covered, lagged, kind, catalogReady, renewed, link, wire, server, feedFaults>>
    BY <1>1, <1>5
  <2>2. FeedTypeOK'
    BY <1>1, <2>1 DEF FeedTypeOK
  <2>3. \A e \in fetches' : e.generation <= st'.generation
    BY <1>1, <2>1 DEF FeedInv
  <2>4. ASSUME link = "connected"
        PROVE  WireInv' /\ SnapshotInv' /\ RowsInv'
    <3>1. WireInv /\ SnapshotInv /\ RowsInv
      BY <2>4 DEF FeedInv
    <3>2. Awaited' = Awaited
      BY <1>1, <1>5, <2>1, <3>1 DEF Awaited, IsAwaited, SnapshotInv
    <3>3. QED
      BY <1>3, <2>1, <3>1, <3>2 DEF WireInv, SnapshotInv, RowsInv, Sure, Fresh, OnWire
  <2>5. QED
    BY <1>1, <1>3, <2>1, <2>2, <2>3, <2>4 DEF FeedInv
<1>6. QED
  BY <1>4, <1>5

LEMMA SnapshotFailsStep ==
    ASSUME FeedTypeOK, FeedInv, FeedSnapshotFails
    PROVE  FeedTypeOK' /\ FeedInv'
<1>1. PICK live \in BOOLEAN : live = (kind = "supply" /\ catalogReady')
  OBVIOUS
<1>2. PICK next : next = IF live THEN [st EXCEPT !.ready = TRUE, !.pending = <<>>] ELSE st
  OBVIOUS
<1>3. PICK f \in fetches :
        /\ feedFaults' = feedFaults + 1
        /\ fetches' = fetches \ {f}
        /\ catalogReady' \in {catalogReady, TRUE}
        /\ IF ~IsAwaited(st, f.generation)
           THEN UNCHANGED <<st, shown, told>>
           ELSE /\ IF live THEN ApplyLive(st.pending, told \cup {"snapshot"})
                   ELSE told' = told \cup {"snapshot"} /\ UNCHANGED shown
                /\ st' = IF kind = "supply" THEN Rescheduled(next) ELSE next
        /\ UNCHANGED <<kind, covered, lagged, renewed, link, wire, server>>
  BY <1>1, <1>2 DEF FeedSnapshotFails, FeedFault
<1>4. /\ st \in Feeds /\ fetches \in SUBSET Fetch /\ st.pending \in Batches
      /\ catalogReady' \in BOOLEAN /\ feedFaults' \in Nat
  <2>1. st \in Feeds /\ fetches \in SUBSET Fetch
    BY DEF FeedTypeOK, Feeds, Fetch
  <2>2. st.pending \in Batches
    BY <2>1, Fields
  <2>3. catalogReady' \in BOOLEAN
    BY <1>3 DEF FeedTypeOK
  <2>4. feedFaults' \in Nat
    BY <1>3 DEF FeedTypeOK
  <2>5. QED
    BY <2>1, <2>2, <2>3, <2>4
<1>5. CASE IsAwaited(st, f.generation)
  <2>1. /\ next \in Feeds /\ next.ready = (live \/ st.ready) /\ next.generation = st.generation
        /\ next.pending = (IF live THEN <<>> ELSE st.pending)
        /\ next.disposed = st.disposed
    BY <1>4, <1>2, EmptiedFields DEF Feeds
  <2>2. /\ st' \in Feeds /\ st'.ready = (live \/ st.ready) /\ st'.generation = st.generation
        /\ st'.pending = (IF live THEN <<>> ELSE st.pending)
        /\ st'.disposed = st.disposed
    <3>1. st' \in {next, Rescheduled(next)}
      BY <1>3, <1>5
    <3>2. QED
      BY <2>1, <3>1, RescheduledFields
  <2>3. /\ shown' \in Rows /\ told' \subseteq {"handler", "snapshot"} /\ told \subseteq told'
        /\ "snapshot" \in told'
        /\ "handler" \notin told' =>
              \A k \in Listed : shown'[k] = IF live /\ k \in DOMAIN st.pending THEN st.pending[k] ELSE shown[k]
    <3>1. CASE live
      <4>1. told \cup {"snapshot"} \in SUBSET {"handler", "snapshot"}
        BY DEF FeedTypeOK
      <4>2. ApplyLive(st.pending, told \cup {"snapshot"})
        BY <1>3, <1>5, <3>1
      <4>3. QED
        BY <1>4, <3>1, <4>1, <4>2, AppliedLive
    <3>2. CASE ~live
      BY <1>3, <1>5, <3>2 DEF FeedTypeOK
    <3>3. QED
      BY <3>1, <3>2
  <2>4. FeedTypeOK'
    BY <1>3, <1>4, <2>2, <2>3 DEF FeedTypeOK, Feeds, Fetch
  <2>5. /\ \A e \in fetches' : e.generation <= st'.generation
        /\ \A e \in fetches' : e.rows # <<>> => DOMAIN e.rows \in Pages'
    BY <1>3, <2>2, PagesStay DEF FeedInv
  <2>6. ASSUME link = "connected"
        PROVE  WireInv' /\ SnapshotInv' /\ RowsInv'
    <3>1. WireInv /\ SnapshotInv /\ RowsInv
      BY <2>6 DEF FeedInv
    <3>2. f \in Awaited
      BY <1>5 DEF Awaited, IsAwaited
    <3>3. Awaited' = {} /\ covered = {} /\ ~st.ready
      BY <1>3, <2>2, <3>1, <3>2 DEF Awaited, SnapshotInv
    <3>4. WireInv'
      BY <1>3, <3>1 DEF WireInv
    <3>5. SnapshotInv'
      BY <1>3, <2>2, <2>3, <3>1, <3>3, PagesStay DEF SnapshotInv
    <3>6. \A k, row : Fresh(k, row) => Fresh(k, row)'
      BY <1>3 DEF Fresh, OnWire
    <3>7. st'.ready => DOMAIN st'.pending = {}
      BY <2>2, <3>3, NothingIsABatch
    <3>8. ASSUME NEW k \in DOMAIN st'.pending
          PROVE  Fresh(k, st.pending[k])'
      <4>1. st'.pending = st.pending
        BY <2>2, <3>8, NothingIsABatch
      <4>2. Fresh(k, st.pending[k])
        BY <3>1, <3>8, <4>1 DEF RowsInv
      <4>3. QED
        BY <1>3, <4>1, <4>2 DEF Fresh, OnWire
    <3>9. ASSUME "handler" \notin told', NEW k \in Listed \ DOMAIN st'.pending, Sure(k)'
          PROVE  Fresh(k, shown[k])'
      <4>1. "handler" \notin told /\ k \in renewed
        BY <1>3, <2>3, <3>3, <3>9 DEF Sure
      <4>2. CASE k \in DOMAIN st.pending
        <5>1. Fresh(k, st.pending[k])
          BY <4>2, <3>1 DEF RowsInv
        <5>2. live
          BY <2>2, <3>9, <4>2
        <5>3. shown'[k] = st.pending[k]
          BY <2>3, <3>9, <4>2, <5>2
        <5>4. QED
          BY <1>3, <5>1, <5>3 DEF Fresh, OnWire
      <4>3. CASE k \notin DOMAIN st.pending
        <5>1. Fresh(k, shown[k])
          BY <4>1, <4>3, <3>1 DEF RowsInv, Sure
        <5>2. shown'[k] = shown[k]
          BY <2>3, <3>9, <4>3
        <5>3. QED
          BY <1>3, <5>1, <5>2 DEF Fresh, OnWire
      <4>4. QED
        BY <4>2, <4>3
    <3>10. /\ DOMAIN st'.pending \subseteq renewed'
           /\ kind' = "overview" => /\ ~st'.ready /\ ~st'.timer
                                    /\ renewed' \subseteq DOMAIN st'.pending
      <4>1. CASE kind = "overview"
        <5>1. ~live
          BY <4>1, <1>1
        <5>2. st' = st
          BY <4>1, <5>1, <1>2, <1>3, <1>5
        <5>3. QED
          BY <4>1, <5>2, <1>3, <3>1, <3>3 DEF RowsInv
      <4>2. CASE kind # "overview"
        BY <4>2, <1>3, <2>2, <3>1, NothingIsABatch DEF RowsInv
      <4>3. QED
        BY <4>1, <4>2
    <3>11. RowsInv'
      BY <3>3, <3>7, <3>8, <3>9, <3>10 DEF RowsInv
    <3>12. QED
      BY <3>4, <3>5, <3>11
  <2>7. QED
    BY <1>3, <2>4, <2>5, <2>6 DEF FeedInv
<1>6. CASE ~IsAwaited(st, f.generation)
  <2>1. UNCHANGED <<st, shown, told, covered, lagged, kind, renewed, link, wire, server>>
    BY <1>3, <1>6
  <2>2. FeedTypeOK'
    BY <1>3, <1>4, <2>1 DEF FeedTypeOK
  <2>3. /\ \A e \in fetches' : e.generation <= st'.generation
        /\ \A e \in fetches' : e.rows # <<>> => DOMAIN e.rows \in Pages'
    BY <1>3, <2>1, PagesStay DEF FeedInv
  <2>4. ASSUME link = "connected"
        PROVE  WireInv' /\ SnapshotInv' /\ RowsInv'
    <3>1. WireInv /\ SnapshotInv /\ RowsInv
      BY <2>4 DEF FeedInv
    <3>2. Awaited' = Awaited
      BY <1>3, <1>6, <2>1, <3>1 DEF Awaited, IsAwaited, SnapshotInv
    <3>3. QED
      BY <2>1, <3>1, <3>2, PagesStay DEF WireInv, SnapshotInv, RowsInv, Sure, Fresh, OnWire
  <2>5. QED
    BY <1>3, <2>1, <2>2, <2>3, <2>4 DEF FeedInv
<1>7. QED
  BY <1>5, <1>6

LEMMA RetriesStep ==
    ASSUME FeedTypeOK, FeedInv, FeedRetries
    PROVE  FeedTypeOK' /\ FeedInv'
<1>1. st \in Feeds /\ fetches \in SUBSET Fetch
  BY DEF FeedTypeOK, Feeds, Fetch
<1>2. /\ st.timer /\ st' = Refreshed(st, FALSE)
      /\ fetches' = fetches \cup {[generation |-> st'.generation, rows |-> <<>>, lags |-> FALSE]}
      /\ UNCHANGED <<kind, catalogReady, shown, told, covered, lagged, renewed, link, wire, server, feedFaults>>
  BY DEF FeedRetries, RefreshSnapshot
<1>3. /\ st' \in Feeds /\ ~st'.ready /\ ~st'.timer /\ st'.generation = st.generation + 1
      /\ st'.pending = st.pending /\ st'.disposed = st.disposed
  BY <1>1, <1>2, RefreshedFields
<1>4. PICK new : new = [generation |-> st'.generation, rows |-> <<>>, lags |-> FALSE]
  OBVIOUS
<1>5. /\ \A f \in fetches' : f.generation <= st'.generation
      /\ \A f \in fetches' : f.rows # <<>> => DOMAIN f.rows \in Pages'
      /\ Awaited' = {new} /\ fetches' \in SUBSET Fetch
  <2>1. kind' = kind
    BY <1>2
  <2>2. QED
    BY <2>1, <1>2, <1>3, <1>4, OneAwaited DEF FeedInv
<1>6. FeedTypeOK'
  BY <1>2, <1>3, <1>5 DEF FeedTypeOK, Feeds, Fetch
<1>7. ASSUME link = "connected"
      PROVE  WireInv' /\ SnapshotInv' /\ RowsInv'
  <2>1. WireInv /\ SnapshotInv /\ RowsInv
    BY <1>7 DEF FeedInv
  <2>2. WireInv'
    BY <1>2, <2>1 DEF WireInv
  <2>3. SnapshotInv'
    BY <1>2, <1>3, <1>5, <2>1, PagesStay DEF SnapshotInv
  <2>4. new.rows = <<>>
    BY <1>4
  <2>5. RowsInv'
    <3>1. kind # "overview"
      BY <1>2, <2>1 DEF RowsInv
    <3>2. QED
      BY <1>2, <1>3, <1>5, <2>1, <2>4, <3>1 DEF RowsInv, Sure, Fresh, OnWire
  <2>6. QED
    BY <2>2, <2>3, <2>5
<1>8. QED
  BY <1>2, <1>5, <1>6, <1>7 DEF FeedInv

LEMMA UnsubscribeStep ==
    ASSUME FeedTypeOK, FeedInv, FeedUnsubscribe
    PROVE  FeedTypeOK' /\ FeedInv'
<1>1. st \in Feeds
  BY DEF FeedTypeOK, Feeds
<1>2. /\ st' = Unsubscribed(st) /\ link' = "none" /\ wire' = <<>>
      /\ UNCHANGED <<kind, catalogReady, fetches, shown, told, covered, lagged, renewed, server, feedFaults>>
  BY DEF FeedUnsubscribe
<1>3. st' \in Feeds /\ st'.generation = st.generation + 1
  BY <1>1, <1>2, EndedFields
<1>4. wire' \in Seq(Batches)
  BY <1>2
<1>5. FeedTypeOK'
  BY <1>2, <1>3, <1>4 DEF FeedTypeOK, Feeds
<1>6. st.generation \in Nat /\ \A f \in fetches : f.generation \in Nat /\ f.generation <= st.generation
  BY DEF FeedTypeOK, FeedInv
<1>7. /\ \A f \in fetches' : f.generation <= st'.generation
      /\ \A f \in fetches' : f.rows # <<>> => DOMAIN f.rows \in Pages'
  BY <1>2, <1>3, <1>6, PagesStay DEF FeedInv
<1>8. QED
  BY <1>2, <1>5, <1>7 DEF FeedInv

LEMMA DroppedStep ==
    ASSUME FeedTypeOK, FeedInv, FeedDropped
    PROVE  FeedTypeOK' /\ FeedInv'
<1>1. st \in Feeds
  BY DEF FeedTypeOK, Feeds
<1>2. /\ st' = Closed(st) /\ link' = "connecting" /\ wire' = <<>> /\ feedFaults' = feedFaults + 1
      /\ UNCHANGED <<kind, catalogReady, fetches, shown, told, covered, lagged, renewed, server>>
  BY DEF FeedDropped, FeedFault
<1>3. st' \in Feeds /\ st'.generation \in {st.generation, st.generation + 1}
  BY <1>1, <1>2, EndedFields
<1>4. wire' \in Seq(Batches) /\ feedFaults' \in Nat
  BY <1>2 DEF FeedTypeOK
<1>5. FeedTypeOK'
  BY <1>2, <1>3, <1>4 DEF FeedTypeOK, Feeds
<1>6. st.generation \in Nat /\ \A f \in fetches : f.generation \in Nat /\ f.generation <= st.generation
  BY DEF FeedTypeOK, FeedInv
<1>7. /\ \A f \in fetches' : f.generation <= st'.generation
      /\ \A f \in fetches' : f.rows # <<>> => DOMAIN f.rows \in Pages'
  BY <1>2, <1>3, <1>6, PagesStay DEF FeedInv
<1>8. QED
  BY <1>2, <1>5, <1>7 DEF FeedInv

LEMMA RowsChangeStep ==
    ASSUME FeedTypeOK, FeedInv, RowsChange
    PROVE  FeedTypeOK' /\ FeedInv'
<1>1. PICK changed \in SUBSET Keys :
        /\ \A k \in changed : server[k] < MaxRow
        /\ server' = [k \in Keys |-> IF k \in changed THEN server[k] + 1 ELSE server[k]]
        /\ wire' = IF link = "connected" THEN Append(wire, [k \in changed |-> server'[k]]) ELSE wire
        /\ UNCHANGED <<kind, st, catalogReady, fetches, shown, told, covered, lagged, renewed, link, feedFaults>>
  BY DEF RowsChange
<1>2. PICK batch : batch = [k \in changed |-> server'[k]]
  OBVIOUS
<1>3. /\ server' \in [Keys -> 0 .. MaxRow]
      /\ \A k \in changed : server'[k] \in 1 .. MaxRow
      /\ \A k \in Keys \ changed : server'[k] = server[k]
  <2>1. \A k \in Keys : server[k] \in 0 .. MaxRow
    BY DEF FeedTypeOK
  <2>2. \A k \in changed : server[k] + 1 \in 1 .. MaxRow
    BY <1>1, <2>1, KeyedFeedAssumption
  <2>3. \A k \in changed : server[k] + 1 \in 0 .. MaxRow
    BY <2>2
  <2>4. server' \in [Keys -> 0 .. MaxRow]
    BY <1>1, <2>1, <2>3
  <2>5. \A k \in changed : server'[k] \in 1 .. MaxRow
    BY <1>1, <2>2
  <2>6. \A k \in Keys \ changed : server'[k] = server[k]
    BY <1>1
  <2>7. QED
    BY <2>4, <2>5, <2>6
<1>4. batch \in Batches /\ DOMAIN batch = changed /\ \A k \in changed : batch[k] = server'[k]
  <2>1. batch \in [changed -> 1 .. MaxRow]
    BY <1>2, <1>3
  <2>2. QED
    BY <1>2, <2>1, IsABatch
<1>5. wire \in Seq(Batches)
  BY DEF FeedTypeOK
<1>6. wire' \in Seq(Batches)
  BY <1>1, <1>2, <1>4, <1>5
<1>7. FeedTypeOK'
  BY <1>1, <1>3, <1>6 DEF FeedTypeOK
<1>8. /\ \A f \in fetches' : f.generation <= st'.generation
      /\ \A f \in fetches' : f.rows # <<>> => DOMAIN f.rows \in Pages'
  BY <1>1, PagesStay DEF FeedInv
<1>9. ASSUME link = "connected"
      PROVE  WireInv' /\ SnapshotInv' /\ RowsInv'
  <2>1. WireInv /\ SnapshotInv /\ RowsInv
    BY <1>9 DEF FeedInv
  <2>2. /\ wire' = Append(wire, batch) /\ Len(wire) \in Nat /\ Len(wire') = Len(wire) + 1
        /\ wire'[Len(wire) + 1] = batch
        /\ \A i \in 1 .. Len(wire) : wire'[i] = wire[i]
    BY <1>1, <1>2, <1>5, <1>9
  <2>3. DOMAIN wire = 1 .. Len(wire) /\ DOMAIN wire' = 1 .. Len(wire')
    BY <1>5, <1>6
  <2>4. WireInv'
    <3> SUFFICES ASSUME NEW i \in DOMAIN wire', NEW k \in DOMAIN wire'[i],
                        \A j \in DOMAIN wire' : j > i => k \notin DOMAIN wire'[j]
                 PROVE  wire'[i][k] = server'[k]
      BY DEF WireInv
    <3>1. CASE i = Len(wire) + 1
      BY <3>1, <2>2, <1>4
    <3>2. CASE i # Len(wire) + 1
      <4>1. i \in 1 .. Len(wire) /\ wire'[i] = wire[i]
        BY <3>2, <2>2, <2>3
      <4>2. k \notin changed
        <5>1. Len(wire) + 1 \in DOMAIN wire' /\ Len(wire) + 1 > i
          BY <2>2, <2>3, <4>1
        <5>2. QED
          BY <5>1, <2>2, <1>4
      <4>3. \A j \in DOMAIN wire : j > i => k \notin DOMAIN wire[j]
        <5> TAKE j \in DOMAIN wire
        <5> HAVE j > i
        <5>1. j \in DOMAIN wire' /\ wire'[j] = wire[j]
          BY <2>2, <2>3
        <5>2. QED
          BY <5>1
      <4>4. wire[i][k] = server[k]
        BY <4>1, <4>3, <2>1, <2>3 DEF WireInv
      <4>5. k \in Keys
        <5>1. wire[i] \in Batches
          BY <4>1, <1>5
        <5>2. QED
          BY <4>1, <5>1, BatchRows
      <4>6. QED
        BY <4>1, <4>2, <4>4, <4>5, <1>3
    <3>3. QED
      BY <3>1, <3>2
  <2>5. \A k \in Keys : \A row : Fresh(k, row) => Fresh(k, row)'
    <3> TAKE k \in Keys
    <3> TAKE row
    <3> HAVE Fresh(k, row)
    <3>1. CASE k \in changed
      <4>1. Len(wire) + 1 \in DOMAIN wire' /\ k \in DOMAIN wire'[Len(wire) + 1]
        BY <3>1, <2>2, <2>3, <1>4
      <4>2. QED
        BY <4>1 DEF Fresh, OnWire
    <3>2. CASE OnWire(k)
      <4>1. PICK i \in DOMAIN wire : k \in DOMAIN wire[i]
        BY <3>2 DEF OnWire
      <4>2. i \in DOMAIN wire' /\ wire'[i] = wire[i]
        BY <2>2, <2>3
      <4>3. QED
        BY <4>1, <4>2 DEF Fresh, OnWire
    <3>3. CASE k \notin changed /\ ~OnWire(k)
      BY <3>3, <1>3 DEF Fresh
    <3>4. QED
      BY <3>1, <3>2, <3>3
  <2>6. Awaited' = Awaited
    BY <1>1 DEF Awaited
  <2>7. SnapshotInv'
    BY <1>1, <2>1, <2>6, PagesStay DEF SnapshotInv
  <2>8. RowsInv'
    <3>1. \A k \in DOMAIN st.pending : Fresh(k, st.pending[k])'
      <4> TAKE k \in DOMAIN st.pending
      <4>1. k \in Keys
        <5>1. st.pending \in Batches
          BY DEF FeedTypeOK
        <5>2. QED
          BY <5>1, BatchRows
      <4>2. \A row : row = st.pending[k] => Fresh(k, row)'
        BY <2>1, <2>5, <4>1 DEF RowsInv
      <4>3. QED
        BY <4>2, <1>1 DEF Fresh
    <3>2. ASSUME NEW f \in Awaited, f.rows # <<>>, ~f.lags
          PROVE  \A k \in DOMAIN f.rows \ DOMAIN st.pending : Fresh(k, f.rows[k])'
      <4>1. DOMAIN f.rows \subseteq Keys
        BY <3>2, PagesOfKeys DEF FeedInv, Awaited
      <4>2. QED
        BY <2>1, <2>5, <3>2, <4>1 DEF RowsInv
    <3>3. ASSUME "handler" \notin told, NEW k \in Listed \ DOMAIN st.pending, Sure(k)
          PROVE  Fresh(k, shown[k])'
      <4>1. \A row : row = shown[k] => Fresh(k, row)'
        BY <2>1, <2>5, <3>3, KeyedFeedAssumption DEF RowsInv
      <4>2. QED
        BY <4>1, <1>1 DEF Fresh
    <3>4. \A k : Sure(k)' = Sure(k)
      BY <1>1 DEF Sure
    <3>5. QED
      BY <1>1, <2>1, <2>6, <3>1, <3>2, <3>3, <3>4 DEF RowsInv
  <2>9. QED
    BY <2>4, <2>7, <2>8
<1>10. ASSUME link # "connected"
       PROVE  wire' = <<>>
  BY <1>1, <1>10 DEF FeedInv
<1>11. QED
  BY <1>1, <1>7, <1>8, <1>9, <1>10 DEF FeedInv

-------------------------------------------------------------------------------

\* A step keeps the types and the invariant of the feed.
LEMMA FeedInvariantStep == FeedTypeOK /\ FeedInv /\ [FeedNext]_feedVars => (FeedTypeOK /\ FeedInv)'
<1> SUFFICES ASSUME FeedTypeOK, FeedInv, [FeedNext]_feedVars
             PROVE  FeedTypeOK' /\ FeedInv'
  OBVIOUS
<1>1. CASE FeedConnected
  BY <1>1, ConnectedStep
<1>2. CASE FeedPublication
  BY <1>2, PublicationStep
<1>3. CASE SnapshotTaken
  BY <1>3, SnapshotTakenStep
<1>4. CASE FeedSnapshot
  BY <1>4, FeedSnapshotStep
<1>5. CASE FeedSnapshotFails
  BY <1>5, SnapshotFailsStep
<1>6. CASE FeedRetries
  BY <1>6, RetriesStep
<1>7. CASE FeedUnsubscribe
  BY <1>7, UnsubscribeStep
<1>8. CASE FeedDropped
  BY <1>8, DroppedStep
<1>9. CASE RowsChange
  BY <1>9, RowsChangeStep
<1>10. CASE UNCHANGED feedVars
  <2>1. UNCHANGED <<kind, st, catalogReady, fetches, shown, told, covered, lagged, renewed, link, wire, server, feedFaults>>
    BY <1>10 DEF feedVars
  <2>2. FeedTypeOK'
    BY <2>1 DEF FeedTypeOK
  <2>3. QED
    BY <2>1, <2>2, PagesStay DEF FeedInv, WireInv, SnapshotInv, RowsInv, Sure, Fresh, OnWire, Awaited
<1>11. QED
  BY <1>1, <1>2, <1>3, <1>4, <1>5, <1>6, <1>7, <1>8, <1>9, <1>10 DEF FeedNext

\* Whatever the channel, the server and the fetches do, the feed keeps its types,
\* and behind every stale row it fetched, buffered or shows, a newer one is under way.
THEOREM FeedInvariantHolds == FeedSpec => [](FeedTypeOK /\ FeedInv)
  BY FeedInits, FeedInvariantStep, PTL DEF FeedSpec

LEMMA SettledIsCurrent == FeedTypeOK /\ FeedInv => CurrentOrTold
<1> SUFFICES ASSUME FeedTypeOK, FeedInv, link = "connected", ~Settles
             PROVE  /\ ~st.ready => "snapshot" \in told
                    /\ "handler" \notin told =>
                          /\ told = {} => covered \in Pages
                          /\ \A k \in Listed :
                                (k \in covered /\ ~lagged) \/ (st.ready /\ k \in renewed)
                                   => shown[k] = server[k]
                          /\ kind = "overview" /\ st.ready =>
                                \A k \in Keys \ (covered \cup renewed) : shown[k] = NoRow
  BY DEF CurrentOrTold
<1>1. SnapshotInv /\ RowsInv
  BY DEF FeedInv
<1>2. wire = <<>> /\ ~st.timer /\ Awaited = {}
  BY <1>1 DEF Settles, Awaited, IsAwaited, SnapshotInv
<1>3. ~st.ready => "snapshot" \in told
  BY <1>1, <1>2 DEF SnapshotInv
<1>4. \A k, row : Fresh(k, row) => row = server[k]
  BY <1>2 DEF Fresh, OnWire
<1>5. told = {} => covered \in Pages
  BY <1>1, <1>3 DEF SnapshotInv
<1>6. ASSUME "handler" \notin told, NEW k \in Listed,
             (k \in covered /\ ~lagged) \/ (st.ready /\ k \in renewed)
      PROVE  shown[k] = server[k]
  <2>1. st.ready /\ Sure(k)
    BY <1>1, <1>6 DEF SnapshotInv, Sure
  <2>2. Fresh(k, shown[k])
    BY <1>1, <1>6, <2>1 DEF RowsInv
  <2>3. QED
    BY <2>2, <1>4
<1>7. "handler" \notin told /\ kind = "overview" /\ st.ready =>
         \A k \in Keys \ (covered \cup renewed) : shown[k] = NoRow
  BY <1>1 DEF RowsInv
<1>8. QED
  BY <1>3, <1>5, <1>6, <1>7

\* For every page limit and whatever overtook what, lagged or failed, a feed with
\* nothing under way has told its consumer of a failed snapshot or of a batch it
\* could not parse, or shows a whole snapshot of the supply, one page of the
\* overview; and it shows the server's row of every key it can resolve that was
\* published since, or that a snapshot covered which did not lag.
THEOREM CurrentOrToldHolds == FeedSpec => []CurrentOrTold
  BY FeedInvariantHolds, SettledIsCurrent, PTL

-------------------------------------------------------------------------------
(* Balances and entities.                                                  *)

\* The balance of history h at revisions t and f: each revision of either part
\* has one amount.
At(h, t, f) == [tradingRevision |-> t, trading |-> h.trading[t],
                fundingRevision |-> f, funding |-> h.funding[f]]
Later(m, n) == IF n > m THEN n ELSE m

-------------------------------------------------------------------------------

\* Merging two balances of one history gives the balance of the later revision
\* of each part, whichever of them was there first.
LEMMA MergeIsLater ==
    ASSUME NEW h, NEW t1 \in Nat, NEW f1 \in Nat, NEW t2 \in Nat, NEW f2 \in Nat
    PROVE  Merged(At(h, t1, f1), At(h, t2, f2)) = At(h, Later(t1, t2), Later(f1, f2))
<1> DEFINE b1 == At(h, t1, f1)
           b2 == At(h, t2, f2)
<1>1. CASE HasRevisions(b1, b2)
  BY <1>1 DEF Merged, At, Later
<1>2. CASE ~HasRevisions(b1, b2)
  <2>1. t1 = 0 /\ f1 = 0 /\ t2 = 0 /\ f2 = 0
    BY <1>2 DEF HasRevisions, At
  <2>2. QED
    BY <2>1, <1>2 DEF Merged, At, Later
<1>3. QED
  BY <1>1, <1>2

\* mergeLedgerBalances of one history's balances does not depend on their order,
\* on how they are grouped, or on how often one of them comes: a snapshot and the
\* events around it, replayed or overtaking one another, end in the same balance.
THEOREM BalancesConverge ==
    ASSUME NEW h,
           NEW t1 \in Nat, NEW f1 \in Nat, NEW t2 \in Nat, NEW f2 \in Nat, NEW t3 \in Nat, NEW f3 \in Nat
    PROVE  LET b1 == At(h, t1, f1)
               b2 == At(h, t2, f2)
               b3 == At(h, t3, f3)
           IN  /\ Merged(b1, b1) = b1
               /\ Merged(b1, b2) = Merged(b2, b1)
               /\ Merged(Merged(b1, b2), b3) = Merged(b1, Merged(b2, b3))
<1>1. /\ Later(t1, t2) \in Nat /\ Later(f1, f2) \in Nat
      /\ Later(t2, t3) \in Nat /\ Later(f2, f3) \in Nat
  BY DEF Later
<1>2. Merged(At(h, t1, f1), At(h, t1, f1)) = At(h, Later(t1, t1), Later(f1, f1))
  BY MergeIsLater
<1>3. /\ Merged(At(h, t1, f1), At(h, t2, f2)) = At(h, Later(t1, t2), Later(f1, f2))
      /\ Merged(At(h, t2, f2), At(h, t1, f1)) = At(h, Later(t2, t1), Later(f2, f1))
      /\ Merged(At(h, t2, f2), At(h, t3, f3)) = At(h, Later(t2, t3), Later(f2, f3))
  BY MergeIsLater
<1>4. Merged(At(h, Later(t1, t2), Later(f1, f2)), At(h, t3, f3))
        = At(h, Later(Later(t1, t2), t3), Later(Later(f1, f2), f3))
  BY <1>1, MergeIsLater
<1>5. Merged(At(h, t1, f1), At(h, Later(t2, t3), Later(f2, f3)))
        = At(h, Later(t1, Later(t2, t3)), Later(f1, Later(f2, f3)))
  BY <1>1, MergeIsLater
<1>6. /\ Later(t1, t1) = t1 /\ Later(f1, f1) = f1
      /\ Later(t1, t2) = Later(t2, t1) /\ Later(f1, f2) = Later(f2, f1)
      /\ Later(Later(t1, t2), t3) = Later(t1, Later(t2, t3))
      /\ Later(Later(f1, f2), f3) = Later(f1, Later(f2, f3))
  BY DEF Later
<1>7. QED
  BY <1>2, <1>3, <1>4, <1>5, <1>6

\* An entity's versioned updates, each timestamp a value of its own, end in the
\* newest one in whatever order they come, and an update without a timestamp
\* never takes the place of one that has it.
THEOREM UpdatesReconcile ==
    ASSUME NEW valueAt, NEW m \in Nat, NEW n \in Nat, NEW v
    PROVE  LET U(t) == [timestamp |-> t, value |-> valueAt[t]]
               old  == [timestamp |-> Unversioned, value |-> v]
           IN  /\ Reconciled(U(m), U(n)) = U(Later(m, n))
               /\ Reconciled(Reconciled(old, U(m)), old) = U(m)
  BY DEF Reconciled, ShouldApply, Later, Unversioned

------------------------------------------------------------------------------
(***************************************************************************)
(* SmartAccount, for any operations, prices and bounds.                      *)
(***************************************************************************)

LEMMA PollTypes ==
    /\ MaxPolls \in Nat /\ MaxQuotes \in Nat /\ MaxGasPrice \in Nat /\ MaxSendFaults \in Nat
    /\ NotFoundReceiptCheckEvery \in Nat \ {0}
  BY SmartAccountAssumption

\* Remainders: what is between two multiples of n has one quotient.
LEMMA OneQuotient ==
    ASSUME NEW n \in Nat \ {0}, NEW p \in Int, NEW q \in Int,
           NEW r \in 0 .. n - 1, NEW s \in 0 .. n - 1, n * p + r = n * q + s
    PROVE  r = s
<1>1. ASSUME NEW x \in Int, NEW y \in Int, x < y PROVE n * x + n <= n * y
  <2>1. y - x >= 1 /\ n * (y - x) = n * y - n * x
    BY <1>1
  <2>2. n * (y - x) >= n
    BY <2>1
  <2>3. QED
    BY <2>1, <2>2
<1>2. CASE p < q
  BY <1>1, <1>2
<1>3. CASE q < p
  BY <1>1, <1>3
<1>4. CASE p = q
  BY <1>4
<1>5. QED
  BY <1>2, <1>3, <1>4

LEMMA Division ==
    ASSUME NEW n \in Nat \ {0}, NEW c \in Nat
    PROVE  c \div n \in Int /\ c % n \in 0 .. n - 1 /\ c = n * (c \div n) + (c % n)
  OBVIOUS

LEMMA ZeroRemainder == ASSUME NEW n \in Nat \ {0} PROVE 0 % n = 0
<1>1. 0 \div n \in Int /\ 0 % n \in 0 .. n - 1 /\ 0 = n * (0 \div n) + (0 % n)
  BY Division
<1>2. 0 = n * 0 + 0 /\ 0 \in 0 .. n - 1 /\ 0 \in Int
  OBVIOUS
<1>3. n * (0 \div n) + (0 % n) = n * 0 + 0
  BY <1>1, <1>2
<1> DEFINE q == 0 \div n
           d == 0 % n
<1>4. q \in Int /\ d \in 0 .. n - 1 /\ n * q + d = n * 0 + 0
  BY <1>1, <1>3
<1> HIDE DEF q, d
<1>5. d = 0
  BY <1>2, <1>4, OneQuotient
<1>6. QED
  BY <1>5 DEF d

\* A counter that is no multiple of n is one more than its predecessor, modulo n.
LEMMA NextRemainder ==
    ASSUME NEW n \in Nat \ {0}, NEW c \in Nat \ {0}, c % n # 0
    PROVE  c % n = ((c - 1) % n) + 1
<1> DEFINE d == (c - 1) % n
           q == (c - 1) \div n
<1>1. c - 1 \in Nat /\ q \in Int /\ d \in 0 .. n - 1 /\ c - 1 = n * q + d
  BY Division
<1>2. c \div n \in Int /\ c % n \in 0 .. n - 1 /\ c = n * (c \div n) + (c % n)
  BY Division
<1> HIDE DEF d, q
<1>3. CASE d = n - 1
  <2>1. c = n * (q + 1) + 0
    BY <1>1, <1>3
  <2>2. c % n = 0
    BY <1>1, <1>2, <2>1, OneQuotient
  <2>3. QED
    BY <2>2
<1>4. CASE d # n - 1
  <2>1. c = n * q + (d + 1) /\ d + 1 \in 0 .. n - 1
    BY <1>1, <1>4
  <2>2. c % n = d + 1
    BY <1>1, <1>2, <2>1, OneQuotient
  <2>3. QED
    BY <2>2 DEF d
<1>5. QED
  BY <1>3, <1>4

-----------------------------------------------------------------------------
(* Types.                                                                  *)

LEMMA GetTypes ==
    ASSUME SendTypeOK, Get
    PROVE  /\ quotes' \in Seq(Quotes) /\ cached' \in 0 .. Len(quotes') /\ Needed \in DOMAIN quotes'
           /\ Len(quotes) <= Len(quotes')
<1>1. CASE HasQuote
  BY <1>1 DEF Get, HasQuote, Needed, SendTypeOK, NoQuote
<1>2. CASE ~HasQuote
  <2>1. Quote \in Quotes
    BY PollTypes DEF Quote, Quotes, Prices, NoPrice
  <2>2. quotes' = Append(quotes, Quote) /\ cached' = Len(quotes) + 1 /\ Needed = Len(quotes) + 1
    BY <1>2 DEF Get, Needed
  <2>3. QED
    BY <2>1, <2>2 DEF SendTypeOK
<1>3. QED
  BY <1>1, <1>2

LEMMA InitSendTypes == SendInit => SendTypeOK
  BY PollTypes DEF SendInit, SendTypeOK, New, Submissions, Prices, NoQuote, NoPrice

\* What an action does to one operation keeps the types of all.
LEMMA OneOperation ==
    ASSUME SendTypeOK, NEW o \in Operations, NEW r \in Submissions,
           operation' = [operation EXCEPT ![o] = r],
           r.phase # "preparing", quotes' = quotes, gasPrice' = gasPrice,
           cached' \in 0 .. Len(quotes), refused' \in Prices, sendFaults' \in Nat
    PROVE  SendTypeOK'
  BY DEF SendTypeOK

LEMMA PolledTypes ==
    ASSUME NEW r \in Submissions, r.polls < MaxPolls
    PROVE  Polled(r) \in Submissions /\ (r.phase # "preparing" => Polled(r).phase # "preparing")
<1>1. ASSUME NEW n \in Nat PROVE Again(r, n) \in Submissions /\ Again(r, n).phase # "preparing"
  <2>1. PICK phase \in {"timedOut", "waiting"}, landed \in Nat :
           Again(r, n) = [r EXCEPT !.phase = phase, !.polls = r.polls + 1, !.notFound = n, !.landed = landed]
    <3>1. r.landed \in Nat /\ r.landed + 1 \in Nat
      BY DEF Submissions
    <3>2. QED
      BY <3>1 DEF Again
  <2>2. r.polls + 1 \in Nat
    BY DEF Submissions
  <2>3. QED
    BY <2>1, <2>2 DEF Submissions
<1>2. /\ [r EXCEPT !.phase = "done"] \in Submissions /\ [r EXCEPT !.phase = "done"].phase = "done"
      /\ [r EXCEPT !.phase = "ended"] \in Submissions /\ [r EXCEPT !.phase = "ended"].phase = "ended"
      /\ r.notFound + 1 \in Nat
  BY DEF Submissions
<1>3. \/ Polled(r) = [r EXCEPT !.phase = "done"] \/ Polled(r) = [r EXCEPT !.phase = "ended"]
      \/ Polled(r) = Again(r, r.notFound + 1) \/ Polled(r) = Again(r, 0)
  BY DEF Polled
<1>4. QED
  BY <1>1, <1>2, <1>3

LEMMA ClientTypes ==
    ASSUME SendTypeOK, NEW o \in Operations,
           \/ Prepare(o) \/ Prepared(o) \/ Signs(o) \/ SendAnswered(o) \/ SendRefused(o)
           \/ Poll(o) \/ PollFails(o)
    PROVE  SendTypeOK'
<1>1. operation[o] \in Submissions /\ cached \in 0 .. Len(quotes) /\ quotes \in Seq(Quotes)
      /\ refused \in Prices /\ operation[o].price \in Prices /\ sendFaults \in Nat
  BY DEF SendTypeOK, Submissions
<1>2. CASE Prepare(o)
  <2>0. Get /\ quotes' \in Seq(Quotes) /\ Needed \in DOMAIN quotes' /\ Needed \in Nat
    BY <1>2, GetTypes DEF Prepare
  <2>1. [operation[o] EXCEPT !.phase = "preparing", !.quote = Needed, !.above = refused] \in Submissions
    BY <1>1, <2>0 DEF Submissions
  <2>2. operation' = [operation EXCEPT ![o] = [operation[o] EXCEPT
                          !.phase = "preparing", !.quote = Needed, !.above = refused]]
    BY <1>2 DEF Prepare
  <2>3. /\ quotes' \in Seq(Quotes) /\ cached' \in 0 .. Len(quotes') /\ Needed \in DOMAIN quotes'
        /\ Len(quotes) <= Len(quotes')
    BY <1>2, GetTypes DEF Prepare
  <2>4. ASSUME NEW q \in DOMAIN quotes PROVE q \in DOMAIN quotes'
    BY <1>1, <2>3, <2>4
  <2>5. QED
    BY <1>2, <2>1, <2>2, <2>3, <2>4 DEF SendTypeOK, Prepare
<1>3. CASE Prepared(o)
  <2>1. operation[o].phase = "preparing" /\ quotes[operation[o].quote] \in Quotes
    BY <1>1, <1>3 DEF Prepared, SendTypeOK
  <2> DEFINE got   == [operation[o] EXCEPT !.phase = "signing",
                                          !.price = quotes[operation[o].quote].price, !.quote = NoQuote]
             ended == [operation[o] EXCEPT !.phase = "ended"]
  <2>2. quotes[operation[o].quote].price \in Prices
    BY <2>1 DEF Quotes
  <2>3. got \in Submissions /\ got.phase # "preparing" /\ ended \in Submissions /\ ended.phase # "preparing"
    BY <1>1, <2>2 DEF Submissions, NoQuote
  <2>4. operation' = [operation EXCEPT ![o] = got] \/ operation' = [operation EXCEPT ![o] = ended]
    BY <1>3 DEF Prepared, Becomes
  <2>5. /\ quotes' = quotes /\ gasPrice' = gasPrice /\ cached' \in 0 .. Len(quotes)
        /\ refused' \in Prices /\ sendFaults' \in Nat
    BY <1>1, <1>3 DEF Prepared
  <2> HIDE DEF got, ended
  <2>6. QED
    BY <2>3, <2>4, <2>5, OneOperation
<1>4. CASE Signs(o)
  <2>1. PICK r \in Submissions :
           r.phase # "preparing" /\ operation' = [operation EXCEPT ![o] = r]
    BY <1>1, <1>4 DEF Signs, Becomes, Submissions
  <2>2. /\ quotes' = quotes /\ gasPrice' = gasPrice /\ cached' \in 0 .. Len(quotes)
        /\ refused' \in Prices /\ sendFaults' \in Nat
    BY <1>1, <1>4 DEF Signs
  <2>3. QED
    BY <2>1, <2>2, OneOperation
<1>5. CASE SendAnswered(o)
  <2>1. PICK r \in Submissions :
           r.phase # "preparing" /\ operation' = [operation EXCEPT ![o] = r]
    BY <1>1, <1>5 DEF SendAnswered, Lands, Submissions
  <2>2. /\ quotes' = quotes /\ gasPrice' = gasPrice /\ cached' \in 0 .. Len(quotes)
        /\ refused' \in Prices /\ sendFaults' \in Nat
    BY <1>1, <1>5 DEF SendAnswered, SendFault
  <2>3. QED
    BY <2>1, <2>2, OneOperation
<1>6. CASE SendRefused(o)
  <2>1. PICK r \in Submissions :
           r.phase # "preparing" /\ operation' = [operation EXCEPT ![o] = r]
    BY <1>1, <1>6 DEF SendRefused, Lands, Becomes, Submissions
  <2>2. 0 \in 0 .. Len(quotes) /\ (Refuse(o) => cached' = 0 /\ refused' \in Prices)
    BY <1>1 DEF Refuse, Clear, NoQuote
  <2>3. /\ quotes' = quotes /\ gasPrice' = gasPrice /\ cached' \in 0 .. Len(quotes)
        /\ refused' \in Prices /\ sendFaults' \in Nat
    BY <1>1, <1>6, <2>2 DEF SendRefused, SendFault, Clear, NoQuote
  <2>4. QED
    BY <2>1, <2>3, OneOperation
<1>7. CASE Poll(o)
  <2>1. Polled(operation[o]) \in Submissions /\ Polled(operation[o]).phase # "preparing"
    BY <1>1, <1>7, PolledTypes DEF Poll
  <2>2. 0 \in 0 .. Len(quotes) /\ (Refuse(o) => cached' = 0 /\ refused' \in Prices)
    BY <1>1 DEF Refuse, Clear, NoQuote
  <2>3. /\ quotes' = quotes /\ gasPrice' = gasPrice /\ cached' \in 0 .. Len(quotes)
        /\ refused' \in Prices /\ sendFaults' \in Nat
    BY <1>1, <1>7, <2>2 DEF Poll
  <2>4. operation' = [operation EXCEPT ![o] = Polled(operation[o])]
    BY <1>7 DEF Poll
  <2>5. QED
    BY <2>1, <2>2, <2>3, <2>4, OneOperation
<1>8. CASE PollFails(o)
  <2>1. PICK r \in Submissions :
           r.phase # "preparing" /\ operation' = [operation EXCEPT ![o] = r]
    BY <1>1, <1>8 DEF PollFails, Becomes, Submissions
  <2>2. /\ quotes' = quotes /\ gasPrice' = gasPrice /\ cached' \in 0 .. Len(quotes)
        /\ refused' \in Prices /\ sendFaults' \in Nat
    BY <1>1, <1>8 DEF PollFails, SendFault
  <2>3. QED
    BY <2>1, <2>2, OneOperation
<1>9. QED
  BY <1>2, <1>3, <1>4, <1>5, <1>6, <1>7, <1>8

LEMMA BundlerTypes ==
    ASSUME SendTypeOK,
           \/ QuoteArrives \/ QuoteFails \/ QuoteExpires \/ Warm \/ BundlerRestarts \/ PriceRises
           \/ \E o \in Operations : ArrivesLate(o) \/ Executes(o) \/ Drops(o)
    PROVE  SendTypeOK'
<1>1. /\ quotes \in Seq(Quotes) /\ cached \in 0 .. Len(quotes) /\ sendFaults \in Nat
      /\ gasPrice \in Prices
  BY PollTypes DEF SendTypeOK, Prices
<1>2. ASSUME NEW q \in DOMAIN quotes, NEW r \in Quotes, quotes' = [quotes EXCEPT ![q] = r],
             cached' \in 0 .. Len(quotes), sendFaults' \in Nat,
             operation' = operation, gasPrice' = gasPrice, refused' = refused
      PROVE  SendTypeOK'
  <2>1. quotes' \in Seq(Quotes) /\ Len(quotes') = Len(quotes)
    BY <1>1, <1>2
  <2>2. QED
    BY <1>2, <2>1 DEF SendTypeOK
<1>3. CASE QuoteArrives
  <2>1. PICK q \in DOMAIN quotes :
           quotes' = [quotes EXCEPT ![q] = [quotes[q] EXCEPT !.state = "there", !.price = gasPrice]]
    BY <1>3 DEF QuoteArrives
  <2>2. quotes[q] \in Quotes
    BY <1>1, <2>1
  <2>3. [quotes[q] EXCEPT !.state = "there", !.price = gasPrice] \in Quotes
    BY <1>1, <2>2 DEF Quotes
  <2>4. /\ operation' = operation /\ gasPrice' = gasPrice /\ refused' = refused
        /\ sendFaults' \in Nat /\ cached' \in 0 .. Len(quotes)
    BY <1>1, <1>3, <2>1 DEF QuoteArrives, SendFault, NoQuote
  <2>5. QED
    BY <1>2, <2>1, <2>3, <2>4
<1>4. CASE QuoteFails
  <2>1. PICK q \in DOMAIN quotes :
           quotes' = [quotes EXCEPT ![q] = [quotes[q] EXCEPT !.state = "failed"]]
           /\ cached' = IF cached = q THEN NoQuote ELSE cached
    BY <1>4 DEF QuoteFails
  <2>2. quotes[q] \in Quotes
    BY <1>1, <2>1
  <2>3. [quotes[q] EXCEPT !.state = "failed"] \in Quotes
    BY <1>1, <2>2 DEF Quotes
  <2>4. /\ operation' = operation /\ gasPrice' = gasPrice /\ refused' = refused
        /\ sendFaults' \in Nat /\ cached' \in 0 .. Len(quotes)
    BY <1>1, <1>4, <2>1 DEF QuoteFails, SendFault, NoQuote
  <2>5. QED
    BY <1>2, <2>1, <2>3, <2>4
<1>5. CASE QuoteExpires
  <2>1. cached \in DOMAIN quotes /\ quotes' = [quotes EXCEPT ![cached] = [quotes[cached] EXCEPT !.fresh = FALSE]]
    BY <1>1, <1>5 DEF QuoteExpires, HasQuote, NoQuote
  <2>2. quotes[cached] \in Quotes
    BY <1>1, <2>1
  <2>3. [quotes[cached] EXCEPT !.fresh = FALSE] \in Quotes
    BY <1>1, <2>2 DEF Quotes
  <2>4. /\ operation' = operation /\ gasPrice' = gasPrice /\ refused' = refused
        /\ sendFaults' \in Nat /\ cached' \in 0 .. Len(quotes)
    BY <1>1, <1>5, <2>1 DEF QuoteExpires, SendFault, NoQuote
  <2>5. QED
    BY <1>2, <2>1, <2>3, <2>4
<1>6. CASE Warm
  <2>1. /\ quotes' \in Seq(Quotes) /\ cached' \in 0 .. Len(quotes') /\ Len(quotes) <= Len(quotes')
    BY <1>6, GetTypes DEF Warm
  <2>2. ASSUME NEW q \in DOMAIN quotes PROVE q \in DOMAIN quotes'
    BY <1>1, <2>1, <2>2
  <2>3. QED
    BY <1>6, <2>1, <2>2 DEF SendTypeOK, Warm
<1>7. CASE BundlerRestarts
  <2>1. ASSUME NEW o \in Operations
        PROVE  operation'[o] \in Submissions /\ operation'[o].phase = operation[o].phase
               /\ operation'[o].quote = operation[o].quote
    <3>1. operation[o] \in Submissions
      BY DEF SendTypeOK
    <3>2. [operation[o] EXCEPT !.known = FALSE] \in Submissions
      BY <3>1 DEF Submissions
    <3>3. QED
      BY <1>7, <3>1, <3>2 DEF BundlerRestarts, Submissions
  <2>2. operation' \in [Operations -> Submissions]
    BY <1>7, <2>1 DEF BundlerRestarts
  <2>3. QED
    BY <1>7, <2>1, <2>2 DEF SendTypeOK, BundlerRestarts, SendFault
<1>8. CASE PriceRises
  BY <1>8, PollTypes DEF SendTypeOK, PriceRises
<1>9. ASSUME NEW o \in Operations, ArrivesLate(o) \/ Executes(o) \/ Drops(o) PROVE SendTypeOK'
  <2>1. PICK at \in {"pending", "included", "failed", "rejected"} : BundlerMoves(o, at)
    BY <1>9 DEF ArrivesLate, Executes, Drops
  <2>2. [operation[o] EXCEPT !.bundler = at] \in Submissions
        /\ [operation[o] EXCEPT !.bundler = at].phase = operation[o].phase
        /\ [operation[o] EXCEPT !.bundler = at].quote = operation[o].quote
    BY DEF SendTypeOK, Submissions
  <2>3. operation' = [operation EXCEPT ![o] = [operation[o] EXCEPT !.bundler = at]]
    BY <2>1 DEF BundlerMoves
  <2>4. sendFaults' \in Nat /\ UNCHANGED <<quotes, cached, gasPrice, refused>>
    BY <1>1, <1>9 DEF ArrivesLate, Executes, Drops, SendFault
  <2>5. QED
    BY <2>2, <2>3, <2>4 DEF SendTypeOK
<1>10. QED
  BY <1>3, <1>4, <1>5, <1>6, <1>7, <1>8, <1>9

LEMMA StepSendTypes == SendTypeOK /\ [SendNext]_sendVars => SendTypeOK'
<1>1. ASSUME SendTypeOK, UNCHANGED sendVars PROVE SendTypeOK'
  BY <1>1 DEF SendTypeOK, sendVars
<1>2. QED
  BY <1>1, ClientTypes, BundlerTypes DEF SendNext

\* Every variable of the user operations keeps its type, and an operation that
\* waits for a price waits for one that was asked for.
THEOREM SendTypesHold == SendSpec => []SendTypeOK
  BY InitSendTypes, StepSendTypes, PTL DEF SendSpec

-----------------------------------------------------------------------------
(* Polling: why a sender that gives up has not polled often since its      *)
(* operation was executed.                                                 *)

Unsent == {"new", "preparing", "signing", "sending"}

\* Only an operation the bundler has forgotten is polled on after it was executed,
\* and each of these polls comes closer to the next look at the chain.
Waits(r) ==
    r.landed > 0 =>
        /\ r.bundler = "included" /\ ~r.known /\ r.phase \notin Unsent
        /\ r.notFound > 0 /\ r.landed <= (r.notFound - 1) % NotFoundReceiptCheckEvery

WaitInv == \A o \in Operations : Waits(operation[o])

LEMMA InitWaits == SendInit => WaitInv
  BY DEF SendInit, WaitInv, Waits, New

LEMMA WaitsBound ==
    ASSUME SendTypeOK, WaitInv
    PROVE  LandedIsFound
<1>1. ASSUME NEW o \in Operations PROVE operation[o].landed < NotFoundReceiptCheckEvery
  <2>1. operation[o].landed \in Nat /\ operation[o].notFound \in Nat
    BY DEF SendTypeOK, Submissions
  <2>2. CASE operation[o].landed = 0
    BY <2>2, PollTypes
  <2>3. CASE operation[o].landed > 0
    <3>1. /\ operation[o].notFound - 1 \in Nat
          /\ operation[o].landed <= (operation[o].notFound - 1) % NotFoundReceiptCheckEvery
      BY <2>1, <2>3 DEF WaitInv, Waits
    <3>2. (operation[o].notFound - 1) % NotFoundReceiptCheckEvery \in 0 .. NotFoundReceiptCheckEvery - 1
      BY <3>1, PollTypes, Division
    <3>3. QED
      BY <2>1, <3>1, <3>2, PollTypes
  <2>4. QED
    BY <2>1, <2>2, <2>3
<1>2. QED
  BY <1>1 DEF LandedIsFound

\* A poll that settles nothing after the execution is one the chain was not
\* looked at for.
LEMMA PolledWaits ==
    ASSUME NEW r \in Submissions, Waits(r), r.phase = "waiting"
    PROVE  Waits(Polled(r))
<1> USE PollTypes
<1>1. r.landed \in Nat /\ r.notFound \in Nat /\ r.polls \in Nat /\ r.known \in BOOLEAN
  BY DEF Submissions
<1>2. CASE Polled(r) = [r EXCEPT !.phase = "done"] \/ Polled(r) = [r EXCEPT !.phase = "ended"]
  BY <1>2 DEF Waits, Unsent, Submissions
<1>3. CASE Status(r) = "not_found" /\ Polled(r) = Again(r, r.notFound + 1) /\ r.bundler = "included"
           /\ ~IsChecked(r.notFound)
  <2>1. ~r.known
    BY <1>1, <1>3 DEF Status
  <2>2. r.notFound % NotFoundReceiptCheckEvery \in 1 .. NotFoundReceiptCheckEvery - 1
        /\ r.notFound # 0
    <3>1. /\ r.notFound % NotFoundReceiptCheckEvery \in 0 .. NotFoundReceiptCheckEvery - 1
          /\ r.notFound % NotFoundReceiptCheckEvery # 0
      BY <1>1, <1>3, Division DEF IsChecked
    <3>2. r.notFound = 0 => r.notFound % NotFoundReceiptCheckEvery = 0
      BY ZeroRemainder
    <3>3. QED
      BY <3>1, <3>2
  <2>3. r.notFound % NotFoundReceiptCheckEvery
          = ((r.notFound - 1) % NotFoundReceiptCheckEvery) + 1
    BY <1>1, <2>2, NextRemainder
  <2>4. (r.notFound - 1) % NotFoundReceiptCheckEvery \in Nat
    <3>1. r.notFound - 1 \in Nat
      BY <1>1, <2>2
    <3>2. (r.notFound - 1) % NotFoundReceiptCheckEvery \in 0 .. NotFoundReceiptCheckEvery - 1
      BY <3>1, Division
    <3>3. QED
      BY <3>2
  <2>5. r.landed + 1 <= r.notFound % NotFoundReceiptCheckEvery
    <3>1. CASE r.landed = 0
      BY <3>1, <2>2
    <3>2. CASE r.landed > 0
      BY <3>2, <1>1, <2>2, <2>3, <2>4 DEF Waits
    <3>3. QED
      BY <1>1, <3>1, <3>2
  <2> DEFINE next == Again(r, r.notFound + 1)
  <2>6. /\ next.landed = r.landed + 1 /\ next.notFound = r.notFound + 1
        /\ next.bundler = "included" /\ next.known = r.known /\ next.phase \in {"waiting", "timedOut"}
    BY <1>3 DEF Again, Submissions
  <2>7. (r.notFound + 1) - 1 = r.notFound /\ r.notFound + 1 > 0
    BY <1>1
  <2> HIDE DEF next
  <2>8. Waits(next)
    BY <2>1, <2>5, <2>6, <2>7 DEF Waits, Unsent
  <2>9. QED
    BY <1>3, <2>8 DEF next
<1>4. CASE r.bundler # "included" /\ \E n \in Nat : Polled(r) = Again(r, n)
  <2>1. r.landed = 0 /\ Polled(r).landed = r.landed
    BY <1>1, <1>4 DEF Waits, Again, Submissions
  <2>2. QED
    BY <2>1 DEF Waits
<1>5. r.bundler = "included" => Status(r) \in {"included", "not_found"}
  BY <1>1 DEF Status
<1>6. r.notFound + 1 \in Nat /\ 0 \in Nat
  BY <1>1
<1>7. \/ Polled(r) = [r EXCEPT !.phase = "done"] \/ Polled(r) = [r EXCEPT !.phase = "ended"]
      \/ /\ Status(r) = "not_found" /\ Polled(r) = Again(r, r.notFound + 1) /\ r.bundler = "included"
         /\ ~IsChecked(r.notFound)
      \/ r.bundler # "included" /\ \E n \in Nat : Polled(r) = Again(r, n)
  <2>1. CASE r.bundler = "included"
    <3>1. CASE Status(r) = "included"
      BY <3>1 DEF Polled
    <3>2. CASE Status(r) = "not_found" /\ IsChecked(r.notFound)
      BY <2>1, <3>2 DEF Polled, IsChecked
    <3>3. CASE Status(r) = "not_found" /\ ~IsChecked(r.notFound)
      BY <2>1, <3>3 DEF Polled, IsChecked
    <3>4. QED
      BY <1>5, <2>1, <3>1, <3>2, <3>3
  <2>2. CASE r.bundler # "included"
    BY <1>6, <2>2 DEF Polled
  <2>3. QED
    BY <2>1, <2>2
<1>8. QED
  BY <1>2, <1>3, <1>4, <1>7

\* One operation changes: the others are as they were.
LEMMA WaitsOfOthers ==
    ASSUME SendTypeOK, WaitInv, NEW o \in Operations, NEW r,
           operation' = [operation EXCEPT ![o] = r], Waits(r)
    PROVE  WaitInv'
<1>1. ASSUME NEW p \in Operations PROVE Waits(operation'[p])
  BY DEF SendTypeOK, WaitInv
<1>2. QED
  BY <1>1 DEF WaitInv, Waits

LEMMA StepWaits ==
    ASSUME SendTypeOK, WaitInv, [SendNext]_sendVars
    PROVE  WaitInv'
<1>1. CASE UNCHANGED operation
  BY <1>1 DEF WaitInv, Waits
<1>2. CASE UNCHANGED sendVars \/ QuoteArrives \/ QuoteFails \/ QuoteExpires \/ Warm \/ PriceRises
  BY <1>1, <1>2 DEF sendVars, QuoteArrives, QuoteFails, QuoteExpires, Warm, PriceRises
<1>3. CASE BundlerRestarts
  <2>1. ASSUME NEW o \in Operations PROVE Waits(operation'[o])
    <3>1. operation[o] \in Submissions /\ Waits(operation[o])
      BY DEF SendTypeOK, WaitInv
    <3>2. CASE operation'[o] = operation[o]
      BY <3>1, <3>2
    <3>3. CASE operation'[o] = [operation[o] EXCEPT !.known = FALSE]
      BY <3>1, <3>3 DEF Waits, Submissions
    <3>4. QED
      BY <1>3, <3>2, <3>3 DEF BundlerRestarts
  <2>2. QED
    BY <2>1 DEF WaitInv, Waits
<1>4. ASSUME NEW o \in Operations, Poll(o) PROVE WaitInv'
  <2>1. operation[o] \in Submissions /\ Waits(operation[o]) /\ operation[o].phase = "waiting"
    BY <1>4 DEF SendTypeOK, WaitInv, Poll
  <2>2. operation' = [operation EXCEPT ![o] = Polled(operation[o])]
    BY <1>4 DEF Poll
  <2>3. QED
    BY <2>1, <2>2, PolledWaits, WaitsOfOthers
<1>5. ASSUME NEW o \in Operations,
             Prepare(o) \/ Prepared(o) \/ Signs(o) \/ SendAnswered(o) \/ SendRefused(o)
      PROVE  WaitInv'
  <2>1. operation[o] \in Submissions /\ Waits(operation[o]) /\ operation[o].phase \in Unsent
    BY <1>5 DEF SendTypeOK, WaitInv, Unsent, Prepare, Prepared, Signs, SendAnswered, SendRefused
  <2>2. operation[o].landed = 0
    BY <2>1 DEF Waits, Submissions
  <2>3. /\ \A p \in Operations \ {o} : operation'[p] = operation[p]
        /\ operation'[o].landed = operation[o].landed
    <3>1. CASE Prepare(o)
      BY <2>1, <3>1 DEF SendTypeOK, Prepare, Submissions
    <3>2. CASE Prepared(o)
      BY <2>1, <3>2 DEF SendTypeOK, Prepared, Becomes, Submissions
    <3>3. CASE Signs(o)
      BY <2>1, <3>3 DEF SendTypeOK, Signs, Becomes, Submissions
    <3>4. CASE SendAnswered(o)
      BY <2>1, <3>4 DEF SendTypeOK, SendAnswered, Lands, Submissions
    <3>5. CASE SendRefused(o)
      BY <2>1, <3>5 DEF SendTypeOK, SendRefused, Lands, Becomes, Submissions
    <3>6. QED
      BY <1>5, <3>1, <3>2, <3>3, <3>4, <3>5
  <2>4. QED
    BY <2>2, <2>3 DEF WaitInv, Waits
<1>6. ASSUME NEW o \in Operations, PollFails(o) PROVE WaitInv'
  <2>1. operation[o] \in Submissions /\ Waits(operation[o])
    BY DEF SendTypeOK, WaitInv
  <2>2. Waits([operation[o] EXCEPT !.phase = "ended"])
    BY <2>1 DEF Waits, Unsent, Submissions
  <2>3. operation' = [operation EXCEPT ![o] = [operation[o] EXCEPT !.phase = "ended"]]
    BY <1>6 DEF PollFails, Becomes
  <2>4. QED
    BY <2>2, <2>3, WaitsOfOthers
<1>7. ASSUME NEW o \in Operations, ArrivesLate(o) \/ Executes(o) \/ Drops(o) PROVE WaitInv'
  <2>1. operation[o] \in Submissions /\ Waits(operation[o]) /\ operation[o].bundler # "included"
    BY <1>7 DEF SendTypeOK, WaitInv, ArrivesLate, Executes, Drops
  <2>2. operation[o].landed = 0
    BY <2>1 DEF Waits, Submissions
  <2>3. PICK at \in {"pending", "included", "failed", "rejected"} :
           operation' = [operation EXCEPT ![o] = [operation[o] EXCEPT !.bundler = at]]
    BY <1>7 DEF ArrivesLate, Executes, Drops, BundlerMoves
  <2>4. Waits([operation[o] EXCEPT !.bundler = at])
    BY <2>1, <2>2 DEF Waits, Submissions
  <2>5. QED
    BY <2>3, <2>4, WaitsOfOthers
<1>8. QED
  BY <1>2, <1>3, <1>4, <1>5, <1>6, <1>7 DEF SendNext

-----------------------------------------------------------------------------
(* Prices: why an operation never carries one that was known to be refused *)
(* when it was begun.                                                      *)

\* What a price is worth to the operation that was begun when `above` was refused.
PriceOf(r) ==
    /\ r.above < gasPrice
    /\ r.phase = "new" => r.price = NoPrice
    /\ r.phase \in {"new", "preparing"} => r.bundler = "absent"
    /\ r.phase = "preparing" /\ quotes[r.quote].state = "there" => quotes[r.quote].price > r.above
    /\ r.price # NoPrice => r.price > r.above
    /\ r.bundler = "rejected" => r.price < gasPrice

\* What is known to be refused is below what the bundler takes now, and the quote
\* that is shared, once there, is above it.
PriceInv ==
    /\ refused < gasPrice
    /\ cached # NoQuote /\ quotes[cached].state = "there" => quotes[cached].price > refused
    /\ \A o \in Operations : PriceOf(operation[o])

LEMMA InitPrices == SendInit => PriceInv
  BY DEF SendInit, PriceInv, PriceOf, New, NoPrice, NoQuote

LEMMA PriceTypes ==
    ASSUME SendTypeOK
    PROVE  /\ gasPrice \in Nat /\ refused \in Int
           /\ \A o \in Operations : /\ operation[o] \in Submissions /\ operation[o].price \in Int
                                    /\ operation[o].above \in Int
           /\ \A q \in DOMAIN quotes : quotes[q] \in Quotes /\ quotes[q].price \in Int
<1>1. Prices \subseteq Int /\ gasPrice \in Nat
  BY PollTypes DEF Prices, NoPrice, SendTypeOK
<1>2. ASSUME NEW o \in Operations
      PROVE  /\ operation[o] \in Submissions /\ operation[o].price \in Int
             /\ operation[o].above \in Int
  BY <1>1 DEF SendTypeOK, Submissions
<1>3. ASSUME NEW q \in DOMAIN quotes PROVE quotes[q] \in Quotes /\ quotes[q].price \in Int
  <2>1. quotes[q] \in Quotes
    BY DEF SendTypeOK
  <2>2. QED
    BY <1>1, <2>1 DEF Quotes
<1>4. QED
  BY <1>1, <1>2, <1>3 DEF SendTypeOK

\* The quotes stay as they are and one operation changes: what is refused may grow
\* only when the shared quote is forgotten.
LEMMA PricesOfOthers ==
    ASSUME SendTypeOK, PriceInv, NEW o \in Operations, NEW r,
           operation' = [operation EXCEPT ![o] = r], PriceOf(r),
           quotes' = quotes, gasPrice' = gasPrice,
           \/ cached' = NoQuote /\ refused' < gasPrice
           \/ cached' = cached /\ refused' = refused
    PROVE  PriceInv'
<1>1. ASSUME NEW p \in Operations PROVE PriceOf(operation'[p])
  BY DEF SendTypeOK, PriceInv
<1>2. ASSUME NEW p \in Operations PROVE PriceOf(operation[p])'
  BY <1>1 DEF PriceOf
<1>3. refused' < gasPrice'
  BY DEF PriceInv
<1>4. cached' # NoQuote /\ quotes'[cached'].state = "there" => quotes'[cached'].price > refused'
  BY DEF PriceInv
<1>5. QED
  BY <1>2, <1>3, <1>4 DEF PriceInv

\* A phase after the preparation, or another place with the bundler.
LEMMA SamePrice ==
    ASSUME SendTypeOK, PriceInv, NEW o \in Operations, NEW r,
           r.above = operation[o].above, r.price = operation[o].price,
           \/ r.phase \notin {"new", "preparing"}
           \/ /\ r.phase = operation[o].phase /\ r.quote = operation[o].quote
              /\ r.bundler = operation[o].bundler,
           \/ r.bundler \in {operation[o].bundler, "absent", "pending", "included", "failed"}
           \/ operation[o].price < gasPrice
    PROVE  PriceOf(r)
  BY DEF PriceInv, PriceOf

\* The operations stay as they are.
LEMMA PricesOfQuotes ==
    ASSUME SendTypeOK, PriceInv, operation' = operation, gasPrice' = gasPrice, refused' = refused,
           \A q \in DOMAIN quotes :
               /\ q \in DOMAIN quotes'
               /\ quotes'[q].state = "there"
                    => \/ quotes[q].state = "there" /\ quotes'[q].price = quotes[q].price
                       \/ quotes'[q].price = gasPrice,
           cached' # NoQuote /\ cached' # cached => quotes'[cached'].state # "there"
    PROVE  PriceInv'
<1>1. /\ gasPrice \in Nat /\ refused \in Int /\ refused < gasPrice
      /\ cached # NoQuote => cached \in DOMAIN quotes
  BY PriceTypes DEF PriceInv, SendTypeOK, NoQuote
<1>2. ASSUME NEW o \in Operations PROVE PriceOf(operation[o])'
  <2>1. /\ PriceOf(operation[o]) /\ operation[o].above \in Int
        /\ operation[o].phase = "preparing" => operation[o].quote \in DOMAIN quotes
    BY PriceTypes DEF PriceInv, SendTypeOK
  <2>2. operation'[o].phase = "preparing" /\ quotes'[operation'[o].quote].state = "there"
          => quotes'[operation'[o].quote].price > operation'[o].above
    BY <1>1, <2>1 DEF PriceOf
  <2>3. QED
    BY <2>1, <2>2 DEF PriceOf
<1>3. cached' # NoQuote /\ quotes'[cached'].state = "there" => quotes'[cached'].price > refused'
  BY <1>1 DEF PriceInv
<1>4. QED
  BY <1>1, <1>2, <1>3 DEF PriceInv

LEMMA StepPricesOutside ==
    ASSUME SendTypeOK, PriceInv,
           \/ QuoteArrives \/ QuoteFails \/ QuoteExpires \/ Warm \/ BundlerRestarts \/ PriceRises
    PROVE  PriceInv'
<1>1. quotes \in Seq(Quotes) /\ cached \in 0 .. Len(quotes)
  BY DEF SendTypeOK
<1>2. CASE QuoteArrives
  <2>1. PICK q \in DOMAIN quotes :
           quotes' = [quotes EXCEPT ![q] = [quotes[q] EXCEPT !.state = "there", !.price = gasPrice]]
    BY <1>2 DEF QuoteArrives
  <2>2. quotes[q] \in Quotes
    BY <1>1
  <2>3. [quotes[q] EXCEPT !.state = "there", !.price = gasPrice].price = gasPrice
    BY <2>2 DEF Quotes
  <2>4. ASSUME NEW p \in DOMAIN quotes
        PROVE  /\ p \in DOMAIN quotes'
               /\ quotes'[p] = quotes[p] \/ quotes'[p].price = gasPrice
    BY <1>1, <2>1, <2>3
  <2>5. operation' = operation /\ gasPrice' = gasPrice /\ refused' = refused /\ cached' = cached
    BY <1>2 DEF QuoteArrives
  <2>6. QED
    BY <2>4, <2>5, PricesOfQuotes
<1>3. CASE QuoteFails
  <2>1. PICK q \in DOMAIN quotes :
           /\ quotes' = [quotes EXCEPT ![q] = [quotes[q] EXCEPT !.state = "failed"]]
           /\ cached' = IF cached = q THEN NoQuote ELSE cached
    BY <1>3 DEF QuoteFails
  <2>2. quotes[q] \in Quotes
    BY <1>1
  <2>3. [quotes[q] EXCEPT !.state = "failed"].state # "there"
    BY <2>2 DEF Quotes
  <2>4. ASSUME NEW p \in DOMAIN quotes
        PROVE  p \in DOMAIN quotes' /\ (quotes'[p] = quotes[p] \/ quotes'[p].state # "there")
    BY <1>1, <2>1, <2>3
  <2>5. /\ operation' = operation /\ gasPrice' = gasPrice /\ refused' = refused
        /\ cached' = NoQuote \/ cached' = cached
    BY <1>3, <2>1 DEF QuoteFails
  <2>6. QED
    BY <2>4, <2>5, PricesOfQuotes
<1>4. CASE QuoteExpires
  <2>1. /\ cached \in DOMAIN quotes
        /\ quotes' = [quotes EXCEPT ![cached] = [quotes[cached] EXCEPT !.fresh = FALSE]]
    BY <1>1, <1>4 DEF QuoteExpires, HasQuote, NoQuote
  <2>2. quotes[cached] \in Quotes
    BY <1>1, <2>1
  <2>3. [quotes[cached] EXCEPT !.fresh = FALSE].state = quotes[cached].state
        /\ [quotes[cached] EXCEPT !.fresh = FALSE].price = quotes[cached].price
    BY <2>2 DEF Quotes
  <2>4. ASSUME NEW p \in DOMAIN quotes
        PROVE  /\ p \in DOMAIN quotes'
               /\ quotes'[p].state = quotes[p].state /\ quotes'[p].price = quotes[p].price
    BY <1>1, <2>1, <2>3
  <2>5. operation' = operation /\ gasPrice' = gasPrice /\ refused' = refused /\ cached' = cached
    BY <1>4 DEF QuoteExpires
  <2>6. QED
    BY <2>4, <2>5, PricesOfQuotes
<1>5. CASE Warm
  <2>1. /\ operation' = operation /\ gasPrice' = gasPrice /\ refused' = refused /\ Get
    BY <1>5 DEF Warm
  <2>2. CASE HasQuote
    BY <2>1, <2>2, PricesOfQuotes DEF Get
  <2>3. CASE ~HasQuote
    <3>1. quotes' = Append(quotes, Quote) /\ cached' = Len(quotes) + 1 /\ Quote.state = "asked"
      BY <2>1, <2>3 DEF Get, Needed, Quote
    <3>2. quotes'[cached'].state # "there" /\ \A p \in DOMAIN quotes : p \in DOMAIN quotes' /\ quotes'[p] = quotes[p]
      BY <1>1, <3>1
    <3>3. QED
      BY <2>1, <3>2, PricesOfQuotes
  <2>4. QED
    BY <2>2, <2>3
<1>6. CASE BundlerRestarts
  <2>1. ASSUME NEW o \in Operations PROVE PriceOf(operation'[o])
    <3>1. operation[o] \in Submissions /\ PriceOf(operation[o])
      BY DEF SendTypeOK, PriceInv
    <3>2. CASE operation'[o] = operation[o]
      BY <3>1, <3>2
    <3>3. CASE operation'[o] = [operation[o] EXCEPT !.known = FALSE]
      BY <3>1, <3>3 DEF PriceOf, Submissions
    <3>4. QED
      BY <1>6, <3>2, <3>3 DEF BundlerRestarts
  <2>2. UNCHANGED <<cached, quotes, gasPrice, refused>>
    BY <1>6 DEF BundlerRestarts
  <2>3. ASSUME NEW o \in Operations PROVE PriceOf(operation[o])'
    BY <2>1, <2>2 DEF PriceOf
  <2>4. QED
    BY <2>2, <2>3 DEF PriceInv
<1>7. CASE PriceRises
  <2>1. gasPrice' = gasPrice + 1 /\ UNCHANGED <<cached, quotes, operation, refused>>
    BY <1>7 DEF PriceRises
  <2>2. ASSUME NEW o \in Operations PROVE PriceOf(operation[o])'
    <3>1. PriceOf(operation[o]) /\ operation[o].above \in Int /\ operation[o].price \in Int /\ gasPrice \in Nat
      BY PriceTypes DEF PriceInv
    <3>2. QED
      BY <2>1, <3>1 DEF PriceOf
  <2>3. refused' < gasPrice'
    BY <2>1, PriceTypes DEF PriceInv
  <2>4. QED
    BY <2>1, <2>2, <2>3 DEF PriceInv
<1>8. QED
  BY <1>2, <1>3, <1>4, <1>5, <1>6, <1>7

\* A preparation begins with the quote there is or with one that is asked for.
LEMMA StepPricesPrepare ==
    ASSUME SendTypeOK, PriceInv, NEW o \in Operations, Prepare(o)
    PROVE  PriceInv'
<1> DEFINE begun == [operation[o] EXCEPT !.phase = "preparing", !.quote = Needed, !.above = refused]
<1>1. /\ operation[o] \in Submissions /\ operation[o].phase = "new" /\ PriceOf(operation[o])
      /\ operation[o].price = NoPrice
  BY DEF SendTypeOK, Prepare, PriceInv, PriceOf
<1>2. /\ operation' = [operation EXCEPT ![o] = begun] /\ gasPrice' = gasPrice /\ refused' = refused
      /\ Get /\ refused < gasPrice
  BY DEF Prepare, PriceInv
<1>3. /\ begun.phase = "preparing" /\ begun.quote = Needed /\ begun.above = refused
      /\ begun.price = NoPrice /\ begun.bundler = operation[o].bundler
  BY <1>1 DEF Submissions
<1> HIDE DEF begun
<1>4. \A p \in Operations : operation'[p] = IF p = o THEN begun ELSE operation[p]
  BY <1>2 DEF SendTypeOK
<1>5. CASE HasQuote
  <2>1. cached' = cached /\ quotes' = quotes /\ Needed = cached /\ cached # NoQuote
    BY <1>2, <1>5 DEF Get, Needed, HasQuote
  <2>2. PriceOf(begun)
    BY <1>1, <1>2, <1>3, <2>1 DEF PriceOf, PriceInv
  <2>3. QED
    BY <1>2, <2>1, <2>2, PricesOfOthers
<1>6. CASE ~HasQuote
  <2>1. quotes' = Append(quotes, Quote) /\ cached' = Len(quotes) + 1 /\ Needed = Len(quotes) + 1
        /\ Quote.state = "asked"
    BY <1>2, <1>6 DEF Get, Needed, Quote
  <2>2. /\ quotes'[Needed].state # "there" /\ quotes'[cached'].state # "there"
        /\ \A p \in DOMAIN quotes : quotes'[p] = quotes[p]
    BY <2>1 DEF SendTypeOK
  <2>3. ASSUME NEW p \in Operations PROVE PriceOf(operation[p])'
    <3>1. CASE p = o
      <4>1. operation'[p] = begun
        BY <1>4, <3>1
      <4>2. QED
        BY <1>1, <1>2, <1>3, <2>2, <4>1 DEF PriceOf
    <3>2. CASE p # o
      <4>1. operation'[p] = operation[p] /\ PriceOf(operation[p])
        BY <1>4, <3>2 DEF PriceInv
      <4>2. operation[p].phase = "preparing" => operation[p].quote \in DOMAIN quotes
        BY DEF SendTypeOK
      <4>3. QED
        BY <1>2, <2>2, <4>1, <4>2 DEF PriceOf
    <3>3. QED
      BY <3>1, <3>2
  <2>4. refused' < gasPrice' /\ quotes'[cached'].state # "there"
    BY <1>2, <2>2
  <2>5. QED
    BY <2>3, <2>4 DEF PriceInv
<1>7. QED
  BY <1>5, <1>6

\* Refusing an operation forgets the shared quote, and what is known to be refused
\* stays below what the bundler takes.
LEMMA RefuseForgets ==
    ASSUME SendTypeOK, PriceInv, NEW o \in Operations, Refuse(o), operation[o].price < gasPrice
    PROVE  cached' = NoQuote /\ refused' < gasPrice
  BY DEF Refuse, Clear, PriceInv

LEMMA StepPricesSend ==
    ASSUME SendTypeOK, PriceInv, NEW o \in Operations,
           Prepared(o) \/ Signs(o) \/ SendAnswered(o) \/ SendRefused(o) \/ PollFails(o)
    PROVE  PriceInv'
<1>1. /\ operation[o] \in Submissions /\ PriceOf(operation[o]) /\ refused < gasPrice
      /\ operation[o].price \in Int /\ gasPrice \in Nat
  BY PriceTypes DEF PriceInv
<1>2. CASE Prepared(o)
  <2> DEFINE got == [operation[o] EXCEPT !.phase = "signing",
                                         !.price = quotes[operation[o].quote].price, !.quote = NoQuote]
             ended == [operation[o] EXCEPT !.phase = "ended"]
  <2>1. operation[o].phase = "preparing" /\ UNCHANGED <<cached, quotes, gasPrice, refused>>
    BY <1>2 DEF Prepared
  <2>2. CASE quotes[operation[o].quote].state = "there" /\ operation' = [operation EXCEPT ![o] = got]
    <3>1. quotes[operation[o].quote].price > operation[o].above
      BY <1>1, <2>1, <2>2 DEF PriceOf
    <3>2. /\ got.above = operation[o].above /\ got.price = quotes[operation[o].quote].price
          /\ got.phase = "signing" /\ got.bundler = operation[o].bundler
      BY <1>1 DEF Submissions
    <3> HIDE DEF got
    <3>3. operation[o].bundler # "rejected"
      BY <1>1, <2>1 DEF PriceOf
    <3>4. PriceOf(got)
      BY <1>1, <3>1, <3>2, <3>3 DEF PriceOf
    <3>5. QED
      BY <2>1, <2>2, <3>4, PricesOfOthers
  <2>3. CASE operation' = [operation EXCEPT ![o] = ended]
    <3>1. /\ ended.above = operation[o].above /\ ended.price = operation[o].price
          /\ ended.phase = "ended" /\ ended.bundler = operation[o].bundler
      BY <1>1 DEF Submissions
    <3> HIDE DEF ended
    <3>2. PriceOf(ended)
      BY <3>1, SamePrice
    <3>3. QED
      BY <2>1, <2>3, <3>2, PricesOfOthers
  <2>4. QED
    BY <1>2, <2>2, <2>3 DEF Prepared, Becomes
<1>3. ASSUME NEW phase \in {"sending", "ended"},
             operation' = [operation EXCEPT ![o] = [operation[o] EXCEPT !.phase = phase]],
             quotes' = quotes, gasPrice' = gasPrice,
             \/ cached' = NoQuote /\ refused' < gasPrice
             \/ cached' = cached /\ refused' = refused
      PROVE  PriceInv'
  <2> DEFINE r == [operation[o] EXCEPT !.phase = phase]
  <2>1. /\ r.above = operation[o].above /\ r.price = operation[o].price
        /\ r.phase = phase /\ r.bundler = operation[o].bundler
    BY <1>1 DEF Submissions
  <2>2. operation' = [operation EXCEPT ![o] = r]
    BY <1>3
  <2> HIDE DEF r
  <2>3. PriceOf(r)
    BY <2>1, SamePrice
  <2>4. QED
    BY <1>3, <2>2, <2>3, PricesOfOthers
<1>4. ASSUME NEW phase \in {"waiting", "ended"}, NEW at \in {"absent", "pending"},
             Lands(o, phase, at), quotes' = quotes, gasPrice' = gasPrice,
             \/ cached' = NoQuote /\ refused' < gasPrice
             \/ cached' = cached /\ refused' = refused
      PROVE  PriceInv'
  <2> DEFINE r == [operation[o] EXCEPT !.phase = phase, !.bundler = at]
  <2>1. /\ r.above = operation[o].above /\ r.price = operation[o].price
        /\ r.phase = phase /\ r.bundler = at
    BY <1>1 DEF Submissions
  <2>2. operation' = [operation EXCEPT ![o] = r]
    BY <1>4 DEF Lands
  <2> HIDE DEF r
  <2>3. PriceOf(r)
    BY <2>1, SamePrice
  <2>4. QED
    BY <1>4, <2>2, <2>3, PricesOfOthers
<1>5. CASE Signs(o) \/ PollFails(o)
  <2>1. PICK phase \in {"sending", "ended"} :
           operation' = [operation EXCEPT ![o] = [operation[o] EXCEPT !.phase = phase]]
    BY <1>5 DEF Signs, PollFails, Becomes
  <2>2. quotes' = quotes /\ gasPrice' = gasPrice /\ cached' = cached /\ refused' = refused
    BY <1>5 DEF Signs, PollFails
  <2>3. QED
    BY <1>3, <2>1, <2>2
<1>6. CASE SendAnswered(o)
  <2>1. PICK at \in {"absent", "pending"} : Lands(o, "waiting", at)
    BY <1>6 DEF SendAnswered
  <2>2. quotes' = quotes /\ gasPrice' = gasPrice /\ cached' = cached /\ refused' = refused
    BY <1>6 DEF SendAnswered
  <2>3. QED
    BY <1>4, <2>1, <2>2
<1>7. CASE SendRefused(o)
  <2>1. quotes' = quotes /\ gasPrice' = gasPrice
    BY <1>7 DEF SendRefused
  <2>2. CASE ~Taken(o) /\ Becomes(o, "ended") /\ Refuse(o)
    <3>1. cached' = NoQuote /\ refused' < gasPrice
      BY <1>1, <2>2, RefuseForgets DEF Taken
    <3>2. operation' = [operation EXCEPT ![o] = [operation[o] EXCEPT !.phase = "ended"]]
      BY <2>2 DEF Becomes
    <3>3. QED
      BY <1>3, <2>1, <3>1, <3>2
  <2>3. CASE Clear /\ UNCHANGED refused /\ (Lands(o, "ended", "absent") \/ Lands(o, "ended", "pending"))
    <3>1. cached' = NoQuote /\ refused' < gasPrice
      BY <1>1, <2>3 DEF Clear
    <3>2. QED
      BY <1>4, <2>1, <2>3, <3>1
  <2>4. QED
    BY <1>7, <2>2, <2>3 DEF SendRefused
<1>8. QED
  BY <1>2, <1>5, <1>6, <1>7

LEMMA StepPricesPoll ==
    ASSUME SendTypeOK, PriceInv, NEW o \in Operations, Poll(o)
    PROVE  PriceInv'
<1>1. /\ operation[o] \in Submissions /\ PriceOf(operation[o]) /\ operation[o].phase = "waiting"
      /\ operation' = [operation EXCEPT ![o] = Polled(operation[o])]
      /\ quotes' = quotes /\ gasPrice' = gasPrice
  BY DEF SendTypeOK, PriceInv, Poll
<1>2. /\ Polled(operation[o]).above = operation[o].above
      /\ Polled(operation[o]).price = operation[o].price
      /\ Polled(operation[o]).bundler = operation[o].bundler
      /\ Polled(operation[o]).phase \notin {"new", "preparing"}
  <2> DEFINE r == operation[o]
  <2>1. r \in Submissions
    BY <1>1
  <2> HIDE DEF r
  <2>2. \/ Polled(r) = [r EXCEPT !.phase = "done"] \/ Polled(r) = [r EXCEPT !.phase = "ended"]
        \/ Polled(r) = Again(r, r.notFound + 1) \/ Polled(r) = Again(r, 0)
    BY DEF Polled
  <2>3. ASSUME NEW s, s = [r EXCEPT !.phase = "done"] \/ s = [r EXCEPT !.phase = "ended"]
                      \/ s = Again(r, r.notFound + 1) \/ s = Again(r, 0)
        PROVE  /\ s.above = r.above /\ s.price = r.price /\ s.bundler = r.bundler
               /\ s.phase \notin {"new", "preparing"}
    BY <2>1, <2>3 DEF Again, Submissions
  <2>4. QED
    BY <2>2, <2>3 DEF r
<1>3. PriceOf(Polled(operation[o]))
  BY <1>2, SamePrice
<1>4. \/ cached' = NoQuote /\ refused' < gasPrice
      \/ cached' = cached /\ refused' = refused
  <2>1. CASE Status(operation[o]) = "rejected"
    <3>1. operation[o].bundler = "rejected"
      BY <2>1 DEF Status
    <3>2. operation[o].price < gasPrice /\ Refuse(o)
      BY <1>1, <2>1, <3>1 DEF PriceOf, Poll
    <3>3. QED
      BY <3>2, RefuseForgets
  <2>2. CASE Status(operation[o]) # "rejected"
    BY <2>2 DEF Poll
  <2>3. QED
    BY <2>1, <2>2
<1>5. QED
  BY <1>1, <1>3, <1>4, PricesOfOthers

\* What the bundler makes of an operation it holds, or of a late one.
LEMMA StepPricesBundler ==
    ASSUME SendTypeOK, PriceInv, NEW o \in Operations, ArrivesLate(o) \/ Executes(o) \/ Drops(o)
    PROVE  PriceInv'
<1>1. operation[o] \in Submissions /\ PriceOf(operation[o]) /\ gasPrice \in Nat
  BY PriceTypes DEF PriceInv
<1>2. operation[o].phase \notin {"new", "preparing"}
  BY <1>1 DEF PriceOf, ArrivesLate, Executes, Drops
<1>3. PICK at \in {"pending", "included", "failed", "rejected"} :
         /\ operation' = [operation EXCEPT ![o] = [operation[o] EXCEPT !.bundler = at]]
         /\ at = "rejected" => ~Taken(o)
  BY DEF ArrivesLate, Executes, Drops, BundlerMoves
<1>4. cached' = cached /\ quotes' = quotes /\ gasPrice' = gasPrice /\ refused' = refused
  BY DEF ArrivesLate, Executes, Drops
<1> DEFINE r == [operation[o] EXCEPT !.bundler = at]
<1>5. /\ r.above = operation[o].above /\ r.price = operation[o].price
      /\ r.phase = operation[o].phase /\ r.bundler = at
  BY <1>1 DEF Submissions
<1>6. operation' = [operation EXCEPT ![o] = r]
  BY <1>3
<1> HIDE DEF r
<1>7. at \in {"pending", "included", "failed"} \/ operation[o].price < gasPrice
  BY <1>3, PriceTypes DEF Taken
<1>8. PriceOf(r)
  BY <1>2, <1>5, <1>7, SamePrice
<1>9. QED
  BY <1>4, <1>6, <1>8, PricesOfOthers

LEMMA StepPrices ==
    ASSUME SendTypeOK, PriceInv, [SendNext]_sendVars
    PROVE  PriceInv'
<1>1. CASE UNCHANGED sendVars
  BY <1>1 DEF sendVars, PriceInv, PriceOf
<1>2. CASE SendNext
  BY <1>2, StepPricesOutside, StepPricesPrepare, StepPricesSend, StepPricesPoll, StepPricesBundler
     DEF SendNext
<1>3. QED
  BY <1>1, <1>2

LEMMA PricesAreNews ==
    ASSUME PriceInv
    PROVE  PriceIsNews
  BY DEF PriceInv, PriceOf, PriceIsNews

\* An operation begun after others were refused for their price carries a higher one,
\* and a sender gives up at its deadline only if it had not polled often since its
\* operation was executed: for any operations, bounds and faults.
THEOREM NoSendInVainHolds == SendSpec => []NoSendInVain
<1>1. SendInit => SendTypeOK /\ WaitInv /\ PriceInv
  BY InitSendTypes, InitWaits, InitPrices
<1>2. SendTypeOK /\ WaitInv /\ PriceInv /\ [SendNext]_sendVars => (SendTypeOK /\ WaitInv /\ PriceInv)'
  BY StepSendTypes, StepWaits, StepPrices
<1>3. SendTypeOK /\ WaitInv /\ PriceInv => NoSendInVain
  BY WaitsBound, PricesAreNews DEF NoSendInVain
<1>4. QED
  BY <1>1, <1>2, <1>3, PTL DEF SendSpec

------------------------------------------------------------------------------
(***************************************************************************)
(* MCServices: a behaviour is one of the services, and the others stand.     *)
(***************************************************************************)

LEMMA DisplayTypes ==
    /\ DisplayInit => DisplayTypeOK
    /\ DisplayTypeOK /\ [DisplayNext]_display => DisplayTypeOK'
<1>1. DisplayInit => DisplayTypeOK
  <2>1. <<>> \in [{} -> 1 .. MaxQuantity]
    OBVIOUS
  <2>2. <<>> \in Sides
    BY <2>1 DEF Sides
  <2>3. 1 \in 1 .. MaxLimit /\ 0 \in 0 .. MaxBucket
    BY DisplayAssumption
  <2>4. QED
    BY <2>2, <2>3 DEF DisplayInit, DisplayTypeOK
<1>2. QED
  BY <1>1 DEF DisplayNext, DisplayTypeOK

\* Every service keeps its types while the others stand, the choice of the
\* service included; the books looked at are books of the given bounds.
THEOREM ServicesTypesHold == FairSpec => []TypeOK
<1>1. Init => TypeOK
  BY InitTypes, FeedInits, DisplayTypes, InitSendTypes DEF Init, TypeOK
<1>2. ASSUME FeedTypeOK, FeedInv, [FeedNext]_feedVars PROVE FeedTypeOK' /\ FeedInv'
  BY <1>2, FeedInvariantStep
<1>3. Init => FeedInv
  BY FeedInits DEF Init
<1>4. ASSUME TypeOK, FeedInv, [Next]_<<authVars, feedVars, display, sendVars, focus>>
      PROVE  TypeOK' /\ FeedInv'
  <2>1. /\ [AuthNext]_authVars /\ [FeedNext]_feedVars
        /\ [DisplayNext]_display /\ [SendNext]_sendVars /\ UNCHANGED focus
    BY <1>4 DEF Next
  <2>2. AuthTypeOK' /\ SendTypeOK' /\ DisplayTypeOK'
    BY <1>4, <2>1, StepTypes, StepSendTypes, DisplayTypes DEF TypeOK
  <2>3. FeedTypeOK' /\ FeedInv'
    BY <1>2, <1>4, <2>1 DEF TypeOK
  <2>4. QED
    BY <1>4, <2>1, <2>2, <2>3 DEF TypeOK
<1>5. QED
  BY <1>1, <1>3, <1>4, PTL DEF FairSpec
================================================================================
