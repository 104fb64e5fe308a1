---------------------------- MODULE ClientDeamon ----------------------------
(***************************************************************************)
(* The client deamon of simple_mqtt: the thread of client_deamon.c that    *)
(* serves the socket and a one-second timer under epoll, the handlers of   *)
(* client_message_process.c it calls, and mqtt_client_subscribe, which an  *)
(* application thread runs at the same time on the same socket and the     *)
(* same list of sent messages.  The broker and the clock are environment.  *)
(*                                                                         *)
(* A step is a stretch of one thread's code between two accesses to what   *)
(* another thread, the kernel or the broker can change.  The list is a     *)
(* sequence here; its nodes and pointers are the subject of MessageKeep.   *)
(*                                                                         *)
(* Messages arrive whole here.  process_socket_event asks recv for five    *)
(* bytes, so it swallows the beginning of whatever follows a shorter       *)
(* message: this module keeps the broker from sending behind an unread     *)
(* short message (Spaced).  FrameReader has the byte stream, shows that    *)
(* under this assumption messages are handed over as here, and what the    *)
(* reader does without it.                                                 *)
(***************************************************************************)
EXTENDS Integers, Sequences, SequencesExt

CONSTANTS
    KeepAlive,       \* client->keep_alive, in seconds (0 became 60 on the way)
    TimeoutSec,      \* client->timeout_sec
    MaxId,           \* largest packet identifier: 65535 for a uint16_t
    StartTime,       \* time(NULL) when the connection was accepted
    Blocking,        \* is the socket in blocking mode (network_unblock not called)?
    BrokerMessages,  \* the messages the broker may send
    MaxTime,         \* bound: the clock stops counting here (it still ticks)
    MaxRx,           \* bound: messages unread in the socket
    MaxIssued        \* bound: how many identifiers are given out, over all laps

Types == {"CONNACK", "PUBLISH", "PUBACK", "PUBREC", "PUBREL", "PUBCOMP",
          "SUBACK", "UNSUBACK", "PINGRESP", "RESERVED"}

(* qos is the field of a PUBLISH; its two bits can also be 3, which        *)
(* publish_message_parse refuses (MQTT_PUBLISH_QOS_ERROR).                 *)
Messages == {m \in [type : Types, qos : 0..3, id : Nat] :
                m.type # "PUBLISH" => m.qos = 0}

ASSUME ConstantsAssumption ==
    /\ KeepAlive \in Nat \ {0}
    /\ TimeoutSec \in Nat
    /\ MaxId \in Nat \ {0}
    /\ StartTime \in Nat
    /\ Blocking \in BOOLEAN
    /\ BrokerMessages \subseteq Messages
    /\ MaxTime \in Nat /\ StartTime <= MaxTime
    /\ MaxRx \in Nat
    /\ MaxIssued \in Nat

VARIABLES
    now,             \* time(NULL)
    timer_ready,     \* the timerfd is readable
    keep_alive_timestamp,
    lock,            \* who holds the mutex
    message_send_list,
    packet_id_next,
    rx,              \* what the broker sent and recv has not returned
    conn,            \* "open", "closed" by the peer, or "reset"
    pc,              \* where the deamon thread is
    pending,         \* events of the current epoll_wait not handled yet
    msg,             \* the message in buffer, while a reply to it is due
    timer_now,       \* the local now of process_timer_event
    cursor,          \* its local curr: a position in the list, 0 for NULL
    app,             \* where the application is in mqtt_client_subscribe
    proc,            \* "running", or the signal that ended the process
    laps,            \* ghost: how often packet_id_next has wrapped
    unsettled,       \* ghost: messages of the broker not yet dealt with
    lastPing,        \* ghost: when the last PINGREQ (at first CONNECT) was sent
    reported,        \* ghost: sent messages handed to timeout_cb
    dropped          \* ghost: sent messages a PUBACK of ours took off the list

clockVars == <<now, timer_ready>>
netVars == <<rx, conn>>
pingVars == <<keep_alive_timestamp, lastPing>>
listVars == <<message_send_list, reported, dropped>>
scanVars == <<timer_now, cursor, lock>>
appVars == <<packet_id_next, laps, app>>

vars == <<now, timer_ready, keep_alive_timestamp, lock, message_send_list,
          packet_id_next, rx, conn, pc, pending, msg, timer_now, cursor, app,
          proc, laps, unsettled, lastPing, reported, dropped>>

NoMessage == [type |-> "RESERVED", qos |-> 0, id |-> 0]

(* A node of the list; lap is a ghost.  The field timestamp stays 0 since  *)
(* message_send_add never sets it.                                         *)
Nodes == [id : 1..MaxId, timestamp : {0}, lap : Nat]

(* A sent message is known by the lap and the identifier it was given.     *)
Key(node) == <<node.lap, node.id>>

Before(k, l) == k[1] < l[1] \/ (k[1] = l[1] /\ k[2] < l[2])

NextKey == <<laps, packet_id_next>>

NoReply == [type |-> "none", id |-> 0]

(* What MQTT has each acknowledgement acknowledge, for the ghost only: the *)
(* way round from Reply.  (A PUBREL asks for a PUBCOMP as well; the client *)
(* has a sender for it, pubcomp_msg_sent, and never calls it.)             *)
Acknowledges ==
    [PUBACK |-> [type |-> "PUBLISH", qos |-> 1],
     PUBREC |-> [type |-> "PUBLISH", qos |-> 2],
     PUBREL |-> [type |-> "PUBREC", qos |-> 0]]

(* Does this reply, or this silence, settle the message?                   *)
Settles(reply, m) ==
    LET kind == [type |-> m.type, qos |-> m.qos]
    IN  IF reply = NoReply
        THEN \A t \in DOMAIN Acknowledges : Acknowledges[t] # kind
        ELSE /\ reply.type \in DOMAIN Acknowledges
             /\ Acknowledges[reply.type] = kind
             /\ reply.id = m.id

Settle(reply) ==
    unsettled' = IF unsettled # <<>> /\ Settles(reply, Head(unsettled))
                 THEN Tail(unsettled) ELSE unsettled

(* The reply to m could not be sent: m is given up, and nothing else.      *)
GiveUp(m) ==
    unsettled' = IF unsettled # <<>> /\ Head(unsettled) = m
                 THEN Tail(unsettled) ELSE unsettled

-----------------------------------------------------------------------------
(* Mutation: a message with QoS 2 is answered like one with QoS 1.         *)
ReplyAlwaysPuback(m) ==
    CASE m.type = "PUBLISH" /\ m.qos = 1 -> [type |-> "PUBACK", id |-> m.id]
      [] m.type = "PUBLISH" /\ m.qos = 2 -> [type |-> "PUBACK", id |-> m.id]
      [] m.type = "PUBREC"               -> [type |-> "PUBREL", id |-> m.id]
      [] OTHER                           -> NoReply

(* What the handlers send back: publish_msg_process and pubrec_msg_process *)
(* answer, the other handlers parse and forget (PUBREL included), and a    *)
(* PUBLISH that cannot be parsed is not answered.                          *)
Reply(m) ==
    CASE m.type = "PUBLISH" /\ m.qos = 1 -> [type |-> "PUBACK", id |-> m.id]
      [] m.type = "PUBLISH" /\ m.qos = 2 -> [type |-> "PUBREC", id |-> m.id]
      [] m.type = "PUBREC"               -> [type |-> "PUBREL", id |-> m.id]
      [] OTHER                           -> NoReply

Readable == rx # <<>> \/ conn # "open"

(* Mutation: one event at a time is fetched, the socket first.             *)
ReadySocketFirst ==
    IF Readable THEN {"socket"} ELSE IF timer_ready THEN {"timer"} ELSE {}

(* Mutation: one event at a time is fetched, the timer first.              *)
ReadyTimerFirst ==
    IF timer_ready THEN {"timer"} ELSE IF Readable THEN {"socket"} ELSE {}

Ready == (IF Readable THEN {"socket"} ELSE {})
           \cup (IF timer_ready THEN {"timer"} ELSE {})

(* Mutation: a PINGREQ is sent a second early.                             *)
PingDueEarly == timer_now - keep_alive_timestamp >= KeepAlive - 1

PingDue == timer_now - keep_alive_timestamp >= KeepAlive

(* Mutation: the comparison is the wrong way round.                        *)
ExpiredInverted(node) == node.timestamp + TimeoutSec > timer_now

Expired(node) == node.timestamp + TimeoutSec < timer_now

(* send() on a reset connection: -1, or SIGPIPE (flags are 0) with its     *)
(* default action.  On any other connection the kernel takes the bytes.    *)
SendSucceeds == conn # "reset"
SendFails == conn = "reset" /\ UNCHANGED proc
SendKills == conn = "reset" /\ proc' = "sigpipe"

(* Mutation: any node with the identifier is removed, not the first.       *)
IsAny(i, id) ==
    message_send_list[i].id = id

(* message_send_remove takes off the first node with the identifier.       *)
IsFirst(i, id) ==
    /\ message_send_list[i].id = id
    /\ \A j \in 1..(i - 1) : message_send_list[j].id # id

KeysOf(list) == {Key(list[i]) : i \in DOMAIN list}

(* uint16_t + 1, then 0 is skipped.                                        *)
Incremented(id) == IF id = MaxId THEN 0 ELSE id + 1
(* Mutation: the overflow to 0 is not noticed.                             *)
NextIdWithZero(id) == Incremented(id)

(* Mutation: the identifier is not increased.                              *)
NextIdSame(id) == id

NextId(id) == IF Incremented(id) = 0 THEN 1 ELSE Incremented(id)

-----------------------------------------------------------------------------
Init ==
    /\ now = StartTime
    /\ timer_ready = FALSE
    /\ keep_alive_timestamp = StartTime
    /\ lock = "free"
    /\ message_send_list = <<>>
    /\ packet_id_next = 1
    /\ rx = <<>>
    /\ conn = "open"
    /\ pc = "loop"
    /\ pending = {}
    /\ msg = NoMessage
    /\ timer_now = StartTime
    /\ cursor = 0
    /\ app = "idle"
    /\ proc = "running"
    /\ laps = 0
    /\ unsettled = <<>>
    /\ lastPing = StartTime
    /\ reported = {}
    /\ dropped = {}

-----------------------------------------------------------------------------
(* client_deamon_thread                                                    *)

EpollWait ==
    /\ pc = "loop" /\ pending = {} /\ Ready # {}
    /\ pending' = Ready
    /\ UNCHANGED <<clockVars, netVars, pingVars, listVars, scanVars, appVars,
                   pc, msg, proc, unsettled>>

HandleEvent ==
    /\ pc = "loop"
    /\ \E e \in pending :
          /\ pending' = pending \ {e}
          /\ pc' = IF e = "socket" THEN "recv" ELSE "read"
    /\ UNCHANGED <<clockVars, netVars, pingVars, listVars, scanVars, appVars,
                   msg, proc, unsettled>>

-----------------------------------------------------------------------------
(* process_socket_event and the handlers                                   *)

(* recv and the dispatch on the type.  An answer is still to be sent; an   *)
(* unknown type leaves the loop; everything else goes round it again.      *)
Receive ==
    /\ pc = "recv" /\ rx # <<>>
    /\ rx' = Tail(rx)
    /\ LET m == Head(rx)
       IN  IF Reply(m) # NoReply
           THEN pc' = "reply" /\ msg' = m /\ UNCHANGED unsettled
           ELSE /\ pc' = IF m.type = "RESERVED" THEN "loop" ELSE "recv"
                /\ msg' = NoMessage
                /\ Settle(NoReply)
    /\ UNCHANGED <<clockVars, conn, pingVars, listVars, scanVars, appVars,
                   pending, proc>>

(* Nothing to read: EAGAIN, end of stream (decoded as type 0) or an error  *)
(* all return to the event loop; a blocking socket that is open waits.     *)
ReceiveNothing ==
    /\ pc = "recv" /\ rx = <<>>
    /\ conn = "open" => ~Blocking
    /\ pc' = "loop"
    /\ UNCHANGED <<clockVars, netVars, pingVars, listVars, scanVars, appVars,
                   pending, msg, proc, unsettled>>

(* puback_msg_sent, pubrec_msg_sent and pubrel_msg_sent up to the send; a  *)
(* send that fails ends the handler, and the loop over recv goes on.       *)
SendReply ==
    /\ pc = "reply"
    /\ \/ /\ SendSucceeds
          /\ Settle(Reply(msg))
          /\ IF Reply(msg).type = "PUBACK"
             THEN pc' = "remove" /\ UNCHANGED msg
             ELSE pc' = "recv" /\ msg' = NoMessage
          /\ UNCHANGED proc
       \/ /\ SendFails
          /\ pc' = "recv" /\ msg' = NoMessage
          /\ GiveUp(msg)
       \/ SendKills /\ UNCHANGED <<pc, msg, unsettled>>
    /\ UNCHANGED <<clockVars, netVars, pingVars, listVars, scanVars, appVars,
                   pending>>

(* puback_msg_sent then calls message_send_remove with the broker's packet *)
(* identifier.  That function reads the first node before it looks whether *)
(* there is one, and it takes off a message of the client's own when that  *)
(* happens to carry the same number.  One step, as if nobody used the list *)
(* meanwhile: see Accounted.                                               *)
RemoveAfterPuback ==
    /\ pc = "remove"
    /\ \/ /\ message_send_list = <<>>
          /\ proc' = "segv"
          /\ UNCHANGED <<pc, msg, message_send_list, dropped>>
       \/ /\ message_send_list # <<>>
          /\ \A i \in DOMAIN message_send_list : message_send_list[i].id # msg.id
          /\ pc' = "recv" /\ msg' = NoMessage
          /\ UNCHANGED <<proc, message_send_list, dropped>>
       \/ /\ \E i \in DOMAIN message_send_list :
                /\ IsFirst(i, msg.id)
                /\ message_send_list' = RemoveAt(message_send_list, i)
                /\ dropped' = dropped \cup {Key(message_send_list[i])}
          /\ pc' = "recv" /\ msg' = NoMessage
          /\ UNCHANGED proc
    /\ UNCHANGED <<clockVars, netVars, pingVars, scanVars, appVars, pending,
                   reported, unsettled>>

-----------------------------------------------------------------------------
(* process_timer_event                                                     *)

ReadTimer ==
    /\ pc = "read"
    /\ timer_ready' = FALSE
    /\ pc' = "time"
    /\ UNCHANGED <<now, netVars, pingVars, listVars, scanVars, appVars, pending,
                   msg, proc, unsettled>>

ReadClock ==
    /\ pc = "time"
    /\ timer_now' = now
    /\ pc' = "lock"
    /\ UNCHANGED <<clockVars, netVars, pingVars, listVars, cursor, lock, appVars,
                   pending, msg, proc, unsettled>>

LockAndCheck ==
    /\ pc = "lock" /\ lock = "free"
    /\ lock' = "deamon"
    /\ pc' = IF PingDue THEN "ping" ELSE "head"
    /\ UNCHANGED <<clockVars, netVars, pingVars, listVars, timer_now, cursor,
                   appVars, pending, msg, proc, unsettled>>

(* Mutation: a failed PINGREQ returns without giving the mutex back.       *)
SendPingReturns ==
    /\ pc = "ping"
    /\ \/ SendSucceeds /\ lastPing' = now /\ pc' = "stamp" /\ UNCHANGED proc
       \/ SendFails /\ pc' = "loop" /\ UNCHANGED lastPing
       \/ SendKills /\ UNCHANGED <<pc, lastPing>>
    /\ UNCHANGED <<clockVars, netVars, keep_alive_timestamp, listVars, scanVars,
                   appVars, pending, msg, unsettled>>

(* pingreq_msg_sent; when the send fails the scan is skipped (goto error). *)
SendPing ==
    /\ pc = "ping"
    /\ \/ SendSucceeds /\ lastPing' = now /\ pc' = "stamp" /\ UNCHANGED proc
       \/ SendFails /\ pc' = "unlock" /\ UNCHANGED lastPing
       \/ SendKills /\ UNCHANGED <<pc, lastPing>>
    /\ UNCHANGED <<clockVars, netVars, keep_alive_timestamp, listVars, scanVars,
                   appVars, pending, msg, unsettled>>

(* Mutation: the stamp is the time read before the lock and the send.      *)
StampPingOld ==
    /\ pc = "stamp"
    /\ keep_alive_timestamp' = timer_now
    /\ pc' = "head"
    /\ UNCHANGED <<clockVars, netVars, lastPing, listVars, scanVars, appVars,
                   pending, msg, proc, unsettled>>

StampPing ==
    /\ pc = "stamp"
    /\ keep_alive_timestamp' = now
    /\ pc' = "head"
    /\ UNCHANGED <<clockVars, netVars, lastPing, listVars, scanVars, appVars,
                   pending, msg, proc, unsettled>>

ScanHead ==
    /\ pc = "head"
    /\ cursor' = IF message_send_list = <<>> THEN 0 ELSE 1
    /\ pc' = "scan"
    /\ UNCHANGED <<clockVars, netVars, pingVars, listVars, timer_now, lock,
                   appVars, pending, msg, proc, unsettled>>

(* curr is a live node: time it out (timeout_cb), or go to the next one.   *)
ScanNode ==
    /\ pc = "scan" /\ cursor # 0
    /\ \/ /\ Expired(message_send_list[cursor])
          /\ reported' = reported \cup {Key(message_send_list[cursor])}
          /\ pc' = "expire"
          /\ UNCHANGED cursor
       \/ /\ ~Expired(message_send_list[cursor])
          /\ cursor' = IF cursor < Len(message_send_list) THEN cursor + 1 ELSE 0
          /\ UNCHANGED <<reported, pc>>
    /\ UNCHANGED <<clockVars, netVars, pingVars, message_send_list, dropped,
                   timer_now, lock, appVars, pending, msg, proc, unsettled>>

(* message_send_remove (one step, as if nobody used the list meanwhile)    *)
(* frees the node curr points at.  Its next field, read in the following   *)
(* step, still holds the old successor unless another malloc has been      *)
(* given the memory meanwhile: a node, here (SubscribeAdd), or any other   *)
(* data, which only MessageKeep has.                                       *)
RemoveExpired ==
    /\ pc = "expire"
    /\ \E i \in DOMAIN message_send_list :
          /\ IsFirst(i, message_send_list[cursor].id)
          /\ message_send_list' = RemoveAt(message_send_list, i)
    /\ cursor' = IF cursor < Len(message_send_list) THEN cursor ELSE 0
    /\ pc' = "next"
    /\ UNCHANGED <<clockVars, netVars, pingVars, reported, dropped, timer_now,
                   lock, appVars, pending, msg, proc, unsettled>>

LoadNext ==
    /\ pc = "next"
    /\ pc' = "scan"
    /\ UNCHANGED <<clockVars, netVars, pingVars, listVars, scanVars, appVars,
                   pending, msg, proc, unsettled>>

ScanDone ==
    /\ pc = "scan" /\ cursor = 0
    /\ pc' = "unlock"
    /\ UNCHANGED <<clockVars, netVars, pingVars, listVars, scanVars, appVars,
                   pending, msg, proc, unsettled>>

Unlock ==
    /\ pc = "unlock"
    /\ lock' = "free"
    /\ pc' = "loop"
    /\ UNCHANGED <<clockVars, netVars, pingVars, listVars, timer_now, cursor,
                   appVars, pending, msg, proc, unsettled>>

-----------------------------------------------------------------------------
(* mqtt_client_subscribe, one caller                                       *)

Issuable == laps * MaxId + packet_id_next <= MaxIssued

SubscribeSend ==
    /\ app = "idle" /\ Issuable
    /\ \/ SendSucceeds /\ app' = "add" /\ UNCHANGED proc
       \/ SendKills /\ UNCHANGED app
    /\ UNCHANGED <<clockVars, netVars, pingVars, listVars, scanVars, pc, pending,
                   msg, packet_id_next, laps, unsettled>>

(* message_send_add: the node goes to the tail, its timestamp stays 0.     *)
(* One step here, although the walk to the tail takes no lock: what an     *)
(* overlapping removal does to it (the new node may be lost) is the        *)
(* subject of MessageKeep.  Of the mallocs that may return the node the    *)
(* scan has just freed and still points at, only that of the node is here: *)
(* memset then makes its next NULL, and the scan ends there.               *)
SubscribeAdd ==
    /\ app = "add"
    /\ message_send_list' = Append(message_send_list,
           [id |-> packet_id_next, timestamp |-> 0, lap |-> laps])
    /\ cursor' \in {cursor, IF pc = "next" THEN 0 ELSE cursor}
    /\ app' = "bump"
    /\ UNCHANGED <<clockVars, netVars, pingVars, reported, dropped, timer_now,
                   lock, pc, pending, msg, proc, packet_id_next, laps, unsettled>>

(* No memory for the node: the message is sent but not kept, and its       *)
(* identifier is used again for the next one.                              *)
SubscribeNoMemory ==
    /\ app = "add"
    /\ app' = "idle"
    /\ UNCHANGED <<clockVars, netVars, pingVars, listVars, scanVars, pc, pending,
                   msg, proc, packet_id_next, laps, unsettled>>

SubscribeBump ==
    /\ app = "bump"
    /\ packet_id_next' = NextId(packet_id_next)
    /\ laps' = IF Incremented(packet_id_next) = 0 THEN laps + 1 ELSE laps
    /\ app' = "idle"
    /\ UNCHANGED <<clockVars, netVars, pingVars, listVars, scanVars, pc, pending,
                   msg, proc, unsettled>>

-----------------------------------------------------------------------------
(* The environment: the broker, the network and the kernel's timer         *)

(* A message shorter than five bytes must be read before the next arrives. *)
Long(m) == m.type \in {"PUBLISH", "SUBACK"}
Spaced == rx # <<>> => Long(rx[Len(rx)])

BrokerSend ==
    /\ conn = "open" /\ Spaced /\ Len(rx) < MaxRx
    /\ \E m \in BrokerMessages :
          rx' = Append(rx, m) /\ unsettled' = Append(unsettled, m)
    /\ UNCHANGED <<clockVars, conn, pingVars, listVars, scanVars, appVars, pc,
                   pending, msg, proc>>

ConnectionEnds ==
    /\ \/ conn = "open" /\ conn' = "closed"
       \/ conn # "reset" /\ conn' = "reset"
    /\ UNCHANGED <<clockVars, rx, pingVars, listVars, scanVars, appVars, pc,
                   pending, msg, proc, unsettled>>

Tick ==
    /\ now' = IF now < MaxTime THEN now + 1 ELSE now
    /\ timer_ready' = TRUE
    /\ UNCHANGED <<netVars, pingVars, listVars, scanVars, appVars, pc, pending,
                   msg, proc, unsettled>>

-----------------------------------------------------------------------------
Deamon ==
    /\ proc = "running"
    /\ \/ EpollWait \/ HandleEvent
       \/ Receive \/ ReceiveNothing \/ SendReply \/ RemoveAfterPuback
       \/ ReadTimer \/ ReadClock \/ LockAndCheck \/ SendPing \/ StampPing
       \/ ScanHead \/ ScanNode \/ RemoveExpired \/ LoadNext \/ ScanDone
       \/ Unlock

Application ==
    /\ proc = "running"
    /\ SubscribeSend \/ SubscribeAdd \/ SubscribeNoMemory \/ SubscribeBump

Environment ==
    /\ proc = "running"
    /\ BrokerSend \/ ConnectionEnds \/ Tick

Next == Deamon \/ Application \/ Environment

(* The thread is scheduled and the periodic timer fires; the broker and    *)
(* the application may do nothing for ever.                                *)
Fairness ==
    /\ WF_vars(Deamon)
    /\ WF_vars(proc = "running" /\ Tick)

Spec == Init /\ [][Next]_vars /\ Fairness

-----------------------------------------------------------------------------
PCs == {"loop", "recv", "reply", "remove", "read", "time", "lock", "ping",
        "stamp", "head", "scan", "expire", "next", "unlock"}

(* Every variable has its type; curr of the scan is a node of the list, or *)
(* NULL, and NULL whenever no scan is going on (client_deamon.c:210-219).  *)
TypeOK ==
    /\ now \in Nat /\ timer_ready \in BOOLEAN
    /\ keep_alive_timestamp \in Nat /\ lastPing \in Nat
    /\ lock \in {"free", "deamon"}
    /\ message_send_list \in Seq(Nodes)
    /\ packet_id_next \in 1..MaxId /\ laps \in Nat
    /\ app \in {"idle", "add", "bump"}
    /\ rx \in Seq(Messages) /\ unsettled \in Seq(Messages)
    /\ conn \in {"open", "closed", "reset"}
    /\ pc \in PCs /\ pending \subseteq {"socket", "timer"}
    /\ msg \in Messages
    /\ timer_now \in Nat
    /\ cursor \in 0..Len(message_send_list)
    /\ pc \notin {"scan", "expire", "next"} => cursor = 0
    /\ pc = "expire" => cursor # 0
    /\ proc \in {"running", "segv", "sigpipe"}
    /\ reported \subseteq Nat \X (1..MaxId)
    /\ dropped \subseteq Nat \X (1..MaxId)

(* The identifiers kept in message_send_list (client.c:223-233): along the *)
(* list messages are in the order they were sent, none is 0, and two that  *)
(* share an identifier are at least one wrap of packet_id_next apart, even *)
(* when a send or a malloc failed in between.  The next identifier is past *)
(* all of them, except between message_send_add and the increment.         *)
IdOrder ==
    /\ \A i, j \in DOMAIN message_send_list :
          i < j => Before(Key(message_send_list[i]), Key(message_send_list[j]))
    /\ \A i \in DOMAIN message_send_list :
          \/ Before(Key(message_send_list[i]), NextKey)
          \/ app = "bump" /\ i = Len(message_send_list)
                /\ Key(message_send_list[i]) = NextKey

(* Replies (client_message_process.c:106-191): every message the broker    *)
(* sent is either still unread, or the one being answered, or has been     *)
(* given exactly the acknowledgement it asks for, or was given up because  *)
(* that could not be sent, in order.  After a handler that failed, a reply *)
(* that failed or an unknown type no message is skipped, answered twice or *)
(* answered with the identifier of another.                                *)
RepliesInOrder ==
    unsettled = (IF pc = "reply" THEN <<msg>> ELSE <<>>) \o rx

(* As far as calls that work on the list do not overlap, and freed memory  *)
(* goes to nodes only: every message that was kept is still on the list,   *)
(* or was handed to timeout_cb, or was taken off by a PUBACK of ours, and  *)
(* in one of the three places only; the one being timed out is on the list *)
(* until it is removed (client_deamon.c:210-219).  What is covered is the  *)
(* timeout scan, its pauses between nodes and its reading of a freed node, *)
(* against adds and PUBACKs before, between and after: message_send_add    *)
(* and message_send_remove themselves are single steps.  That a message is *)
(* lost when they overlap is AddedIsKept of MessageKeep, which fails.      *)
KeptIds == {k \in (0..laps) \X (1..MaxId) :
              Before(k, NextKey) \/ (app = "bump" /\ k = NextKey)}

Accounted ==
    /\ KeptIds = KeysOf(message_send_list) \cup reported \cup dropped
    /\ reported \cap dropped = {}
    /\ dropped \cap KeysOf(message_send_list) = {}
    /\ reported \cap KeysOf(message_send_list) =
          IF pc = "expire" THEN {Key(message_send_list[cursor])} ELSE {}

(* Whenever a PINGREQ is sent, the last one (or the CONNECT) was sent at   *)
(* least the keep-alive interval ago, whatever the delay between the       *)
(* reading of the clock, the lock, the send and the new stamp, and also    *)
(* when several timer events come in the same second                       *)
(* (client_deamon.c:197-208).                                              *)
PingSpacing ==
    [][pc = "ping" /\ pc' = "stamp" => now - lastPing >= KeepAlive]_vars

(* message_send_remove reports an identifier it does not find as an error  *)
(* (client_message_process.c:60-63): it never brings the process down.     *)
RemoveReturns == proc # "segv"

-----------------------------------------------------------------------------
Alive == proc = "running" /\ conn # "reset"
Flooded == []<>(rx # <<>>)

(* A keep-alive that is due is sent, unless the connection or the process  *)
(* is gone or the broker's messages keep the socket loop busy for ever     *)
(* (client_deamon.c:201-208).                                              *)
KeepAliveServed ==
    \/ []<>~(Alive /\ now - keep_alive_timestamp >= KeepAlive)
    \/ Flooded

(* A message whose time is over does not stay on the list for ever, under  *)
(* the same conditions (client_deamon.c:210-219).                          *)
Overdue == \E i \in DOMAIN message_send_list :
              message_send_list[i].timestamp + TimeoutSec < now

TimeoutServed == []<>~(Alive /\ Overdue) \/ Flooded

(* The deamon keeps reading: messages do not stay unread for ever.         *)
RxServed ==
    \/ []<>(rx = <<>> \/ proc # "running")
    \/ []<>(pc \in {"recv", "reply"})

(* The mutex is given back on every path, the failed ping included.        *)
LockReleased == []<>(lock = "free" \/ proc # "running")
=============================================================================
