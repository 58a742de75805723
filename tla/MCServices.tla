------------------------------ MODULE MCServices ------------------------------
(***************************************************************************)
(* Small instances of the services that share nothing with one another:    *)
(* a behaviour is one of AccountSignerAuth, of KeyedFeed or of             *)
(* SmartAccount, or a book shown by BookDisplay.                           *)
(***************************************************************************)
EXTENDS AccountSignerAuthProperties, KeyedFeedProperties, BookDisplayProperties,
        SmartAccountProperties

CONSTANTS alice, aliceSub, bob, key1, key2, op1, op2

VARIABLE focus                   \* the service a behaviour is of

\* Account alice has a subaccount, bob has none.
MCMainOf == [n \in {alice, aliceSub, bob} |-> IF n = bob THEN bob ELSE alice]

TypeOK == /\ focus \in {"auth", "feed", "display", "send"}
          /\ AuthTypeOK /\ FeedTypeOK /\ DisplayTypeOK /\ SendTypeOK

Init == /\ focus \in {"auth", "feed", "display", "send"}
        /\ AuthInit /\ FeedInit /\ DisplayInit /\ SendInit
        /\ focus # "feed" => kind = "overview"

Next == /\ UNCHANGED focus
        /\ \/ focus = "auth" /\ AuthNext /\ UNCHANGED <<feedVars, display, sendVars>>
           \/ focus = "feed" /\ FeedNext /\ UNCHANGED <<authVars, display, sendVars>>
           \/ focus = "display" /\ DisplayNext /\ UNCHANGED <<authVars, feedVars, sendVars>>
           \/ focus = "send" /\ SendNext /\ UNCHANGED <<authVars, feedVars, display>>

FairSpec == Init /\ [][Next]_<<authVars, feedVars, display, sendVars, focus>> /\ AuthFairness
================================================================================
