--------------------------- MODULE MessageStream ---------------------------
(***************************************************************************)
(* What the reading loop of the deamon promises: the messages the broker   *)
(* sends are handed to their handlers one at a time, each complete, each   *)
(* once, in the order they were sent.                                      *)
(***************************************************************************)
EXTENDS Sequences

CONSTANTS
    Message,   \* what the broker may send
    Nothing    \* no handler is running

VARIABLES
    unread,    \* messages sent and not handed over
    handed     \* the message a handler has, or Nothing

vars == <<unread, handed>>

Init == unread = <<>> /\ handed = Nothing

Send ==
    /\ \E m \in Message : unread' = Append(unread, m)
    /\ UNCHANGED handed

HandOver ==
    /\ handed = Nothing /\ unread # <<>>
    /\ handed' = Head(unread)
    /\ unread' = Tail(unread)

HandlerReturns ==
    /\ handed # Nothing
    /\ handed' = Nothing
    /\ UNCHANGED unread

Next == Send \/ HandOver \/ HandlerReturns

Spec == Init /\ [][Next]_vars
=============================================================================
