----------------------- MODULE MCPrivateOrdersLeaving -----------------------
(* PrivateOrders with a record of the consumers that left by themselves,    *)
(* through their disposer or a disconnect() of the whole stream.            *)
EXTENDS MCPrivateOrders

VARIABLE quit

LeavingInit == Init /\ quit = {}

\* With nothing left to close, disconnect() changes nothing.
DisconnectAll == Disconnect \/ (AppMayCall /\ Current = {} /\ ~conn.timer /\ UNCHANGED vars)

LeavingNext ==
    \/ DisconnectAll /\ quit' = {c \in Consumers : consumer[c].s # NoStream}
    \/ \E c \in Consumers : Remove(c) /\ quit' = quit \cup {c}
    \/ /\ (\E c \in Consumers, ch \in Channels : Connect(c, ch)) \/ Client \/ Server
       /\ UNCHANGED quit

LeavingSpec == LeavingInit /\ [][LeavingNext]_<<vars, quit>>

\* Between turns, a consumer that the stream let go of by itself.
LetGo(c) == LET s == consumer[c].s
            IN  turn = <<>> /\ s # NoStream /\ ~IsCurrent(s) /\ c \notin quit

\* It is never left believing in a stream that ended.
NoSilentEnd == \A c \in Consumers : LetGo(c) => consumer[c].state # "connected"
==============================================================================
