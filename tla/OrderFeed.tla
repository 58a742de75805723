------------------------------ MODULE OrderFeed ------------------------------
(***************************************************************************)
(* What an account order stream promises a consumer, whatever sockets,     *)
(* tokens, cursors and retries are behind it: the view it holds is always  *)
(* the whole live view of its own account at some position the account     *)
(* has reached, that position never moves back, and the stream is opened   *)
(* and closed in turn.                                                     *)
(***************************************************************************)
EXTENDS Integers

CONSTANTS Consumers, Channels, NoChannel, LastPosition

VARIABLES log,     \* position each account has reached
          feed     \* what each consumer was given: [channel, state, at]

feedVars == <<log, feed>>

Nowhere == -1      \* no view yet

Init == /\ log = [ch \in Channels |-> 0]
        /\ feed = [c \in Consumers |->
                     [channel |-> NoChannel, state |-> "pending", at |-> Nowhere]]

Move(ch) == /\ log[ch] < LastPosition
            /\ log' = [log EXCEPT ![ch] = @ + 1]
            /\ UNCHANGED feed

Attach(c, ch) == /\ feed[c].channel = NoChannel
                 /\ feed' = [feed EXCEPT ![c].channel = ch]
                 /\ UNCHANGED log

Show(c) == /\ feed[c].channel \in Channels
           /\ \E n \in 0 .. log[feed[c].channel] :
                 /\ n > feed[c].at
                 /\ feed' = [feed EXCEPT ![c].at = n]
           /\ UNCHANGED log

Switch(c, state) == /\ feed[c].channel \in Channels
                    /\ feed[c].state # state
                    /\ feed' = [feed EXCEPT ![c].state = state]
                    /\ UNCHANGED log

Next == \/ \E ch \in Channels : Move(ch)
        \/ \E c \in Consumers, ch \in Channels : Attach(c, ch)
        \/ \E c \in Consumers : Show(c)
        \/ \E c \in Consumers, state \in {"connected", "disconnected"} : Switch(c, state)

Spec == Init /\ [][Next]_feedVars
==============================================================================
