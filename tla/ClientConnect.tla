--------------------------- MODULE ClientConnect ---------------------------
(***************************************************************************)
(* mqtt_client_create and mqtt_client_destroy of client.c with the socket  *)
(* calls of network.c: opening the connection, sending CONNECT and waiting *)
(* for the CONNACK with a receive timeout and retries, and what is left of *)
(* the client and its descriptors when the call returns.  An application   *)
(* thread calls them one after the other, in any order, on one client.     *)
(*                                                                         *)
(* Bytes are counted, not spelled: a CONNACK is four of them, recv asks    *)
(* for five (CONNACK_MESSAGE_LEN), and the stream may deliver fewer.       *)
(***************************************************************************)
EXTENDS Integers

CONSTANTS
    RetryMax,          \* MQTT_CLIENT_CONNECT_RETRY_MAX, 3
    DefaultKeepAlive,  \* MQTT_KEEP_ALIVE_DEFAULT, 60
    KeepAlives,        \* values of config->keep_alive to try
    Descriptors,       \* descriptors the process may have; 0 is standard input
    MaxConnects,       \* bound: CONNECTs are counted up to here
    MaxAnswers         \* bound: CONNACKs the broker sends on a connection

AckLen == 5            \* CONNACK_MESSAGE_LEN
ConnackLen == 4        \* what a CONNACK is long

ASSUME ConnectAssumption ==
    /\ RetryMax \in Nat \ {0}
    /\ DefaultKeepAlive \in Nat \ {0}
    /\ KeepAlives \subseteq Nat
    /\ Descriptors \subseteq Nat /\ 0 \in Descriptors
    /\ MaxConnects \in Nat /\ MaxConnects > RetryMax
    /\ MaxAnswers \in Nat

VARIABLES
    pc,         \* "idle", or where the call in progress is
    socket_fd,  \* client->conn.socket_fd
    open,       \* open descriptors of the process
    state,      \* client->state
    keep_alive, \* client->keep_alive
    config,     \* config->keep_alive of the call
    client_id,  \* client->client_id: "null", or "heap"
    rcvtimeo,   \* SO_RCVTIMEO of the socket is set
    retry,      \* the local of message_send_and_wait_ack
    got,        \* ack_len after recv
    ret,        \* return value: "ok" or "error"
    proc,       \* "running", or the signal that ended the process
    peer,       \* "none", "open", "closed" or "reset": the connection
    connects,   \* CONNECTs sent on the connection
    answers,    \* CONNACKs the broker has sent on it
    code,       \* return code of the first: "none", "accepted" or "refused"
    queued,     \* bytes sent by the broker, under way
    arrived,    \* bytes in the receive buffer
    eof,        \* ghost: recv has returned 0 in this call
    std,        \* ghost: descriptor 0, while it is the one of the start
    unmet,      \* ghost: the socket of the last create, if connect() failed
    stray       \* ghost: such sockets a later create has forgotten

clientVars == <<state, keep_alive, client_id>>
callVars == <<config, retry, got, ret>>
ownerVars == <<std, unmet, stray>>
fdVars == <<socket_fd, open, ownerVars>>
netVars == <<peer, answers, code, queued, arrived>>

vars == <<pc, socket_fd, open, state, keep_alive, config, client_id, rcvtimeo,
          retry, got, ret, proc, peer, connects, answers, code, queued, arrived,
          eof, std, unmet, stray>>

NoDescriptor == -1

Free == Descriptors \ open
Smaller(x, y) == IF x < y THEN x ELSE y

Init ==
    /\ pc = "idle" /\ ret = "error" /\ proc = "running"
    /\ socket_fd = 0 /\ open = {0}
    /\ state = "disconnected" /\ keep_alive = 0 /\ client_id = "null"
    /\ config = 0 /\ retry = 0 /\ got = 0 /\ rcvtimeo = FALSE
    /\ peer = "none" /\ connects = 0 /\ answers = 0 /\ code = "none"
    /\ queued = 0 /\ arrived = 0 /\ eof = FALSE
    /\ std = {0} /\ unmet = {} /\ stray = {}

-----------------------------------------------------------------------------
(* network_connect                                                         *)

Create ==
    /\ pc = "idle"
    /\ \E k \in KeepAlives : config' = k
    /\ ret' = "error"
    /\ pc' = "socket"
    /\ UNCHANGED <<fdVars, clientVars, rcvtimeo, retry, got, proc, netVars,
                   connects, eof>>

(* The number of an earlier socket, if the client still has one, is        *)
(* written over: nothing closes that socket any more.                      *)
OpenSocket ==
    /\ pc = "socket"
    /\ stray' = stray \cup unmet /\ unmet' = {}
    /\ UNCHANGED std
    /\ \/ /\ Free = {}
          /\ socket_fd' = NoDescriptor
          /\ pc' = "idle" /\ ret' = "error"
          /\ UNCHANGED open
       \/ /\ \E fd \in Free :
                /\ \A other \in Free : fd <= other
                /\ socket_fd' = fd
                /\ open' = open \cup {fd}
          /\ pc' = "connect"
          /\ UNCHANGED ret
    /\ UNCHANGED <<clientVars, config, rcvtimeo, retry, got, proc, netVars,
                   connects, eof>>

(* A bad host name or a refused connection returns at once: the socket     *)
(* stays open and its number stays in the client.                          *)
ConnectFails ==
    /\ pc = "connect"
    /\ pc' = "idle" /\ ret' = "error"
    /\ unmet' = {socket_fd}
    /\ UNCHANGED <<socket_fd, open, std, stray, clientVars, config, rcvtimeo, retry, got, proc,
                   netVars, connects, eof>>

Connect ==
    /\ pc = "connect"
    /\ peer' = "open" /\ connects' = 0 /\ answers' = 0 /\ code' = "none"
    /\ queued' = 0 /\ arrived' = 0 /\ eof' = FALSE
    /\ pc' = "build"
    /\ UNCHANGED <<fdVars, clientVars, callVars, rcvtimeo, proc>>

-----------------------------------------------------------------------------
(* connect_message_send and message_send_and_wait_ack                      *)

(* No memory, or a configuration connect_message_build refuses.            *)
BuildFails ==
    /\ pc = "build"
    /\ pc' = "close" /\ ret' = "error"
    /\ UNCHANGED <<fdVars, clientVars, config, rcvtimeo, retry, got, proc,
                   netVars, connects, eof>>

(* A keep-alive of 0 is replaced by the default before the message is      *)
(* built; then the receive timeout is set.                                 *)
Build ==
    /\ pc = "build"
    /\ config' = IF config = 0 THEN DefaultKeepAlive ELSE config
    /\ rcvtimeo' = TRUE
    /\ retry' = 0
    /\ pc' = "send"
    /\ UNCHANGED <<fdVars, clientVars, got, ret, proc, netVars, connects, eof>>

Send ==
    /\ pc = "send"
    /\ \/ /\ peer # "reset"
          /\ connects' = Smaller(connects + 1, MaxConnects)
          /\ pc' = "recv"
          /\ UNCHANGED <<ret, proc>>
       \/ /\ peer = "reset"
          /\ ret' = "error" /\ pc' = "clear"
          /\ UNCHANGED <<connects, proc>>
       \/ /\ peer = "reset"
          /\ proc' = "sigpipe"
          /\ UNCHANGED <<connects, pc, ret>>
    /\ UNCHANGED <<fdVars, clientVars, config, rcvtimeo, retry, got, netVars, eof>>

Receive ==
    /\ pc = "recv" /\ arrived > 0
    /\ got' = Smaller(arrived, AckLen)
    /\ arrived' = arrived - got'
    /\ ret' = "ok" /\ pc' = "clear"
    /\ UNCHANGED <<fdVars, clientVars, config, rcvtimeo, retry, proc, peer,
                   answers, code, queued, connects, eof>>

(* Mutation: one CONNECT too many.                                         *)
RetriesLeftOneMore == retry + 1 <= RetryMax

RetriesLeft == retry + 1 < RetryMax

(* Mutation: timeouts are not counted.                                     *)
ReceiveTimeoutUncounted ==
    /\ pc = "recv" /\ arrived = 0 /\ peer # "reset" /\ rcvtimeo
    /\ pc' = "send"
    /\ UNCHANGED <<fdVars, clientVars, config, rcvtimeo, retry, got, ret, proc,
                   netVars, connects, eof>>

(* EAGAIN after five seconds: another CONNECT, three times at most.        *)
ReceiveTimeout ==
    /\ pc = "recv" /\ arrived = 0 /\ peer # "reset" /\ rcvtimeo
    /\ retry' = retry + 1
    /\ \/ RetriesLeft /\ pc' = "send" /\ UNCHANGED ret
       \/ ~RetriesLeft /\ pc' = "clear" /\ ret' = "error"
    /\ UNCHANGED <<fdVars, clientVars, config, rcvtimeo, got, proc, netVars,
                   connects, eof>>

(* recv returns 0: neither branch of the loop takes it, and the CONNECT is *)
(* sent again without counting.                                            *)
ReceiveEof ==
    /\ pc = "recv" /\ arrived = 0 /\ queued = 0 /\ peer = "closed"
    /\ eof' = TRUE
    /\ pc' = "send"
    /\ UNCHANGED <<fdVars, clientVars, callVars, rcvtimeo, proc, netVars, connects>>

ReceiveError ==
    /\ pc = "recv" /\ arrived = 0 /\ peer = "reset"
    /\ pc' = "clear" /\ ret' = "error"
    /\ UNCHANGED <<fdVars, clientVars, config, rcvtimeo, retry, got, proc,
                   netVars, connects, eof>>

(* Mutation: the receive timeout is left on the socket.                    *)
ClearTimeoutForgotten ==
    /\ pc = "clear"
    /\ UNCHANGED rcvtimeo
    /\ pc' = IF ret = "ok" THEN "parse" ELSE "close"
    /\ UNCHANGED <<fdVars, clientVars, callVars, proc, netVars, connects, eof>>

ClearTimeout ==
    /\ pc = "clear"
    /\ rcvtimeo' = FALSE
    /\ pc' = IF ret = "ok" THEN "parse" ELSE "close"
    /\ UNCHANGED <<fdVars, clientVars, callVars, proc, netVars, connects, eof>>

(* connack_message_parse hands remain_length_decode a field_len that was   *)
(* never set.  When it happens to be 0 the length reads as 0 and the       *)
(* CONNACK is refused; any other value gives the right length.             *)
WellFormed(field_len) == got = ConnackLen /\ field_len # 0

(* Mutation: the return code of the CONNACK is not looked at.              *)
AcceptedAnyCode(field_len) == WellFormed(field_len)

(* A refused connection is a parse error too (line 85 of msg_connack.c     *)
(* compares the pointer sp), so the test of connack_code never fails.      *)
Accepted(field_len) == WellFormed(field_len) /\ code = "accepted"

ParseConnack ==
    /\ pc = "parse"
    /\ \E field_len \in {0, 1} :
          IF Accepted(field_len)
          THEN pc' = "accepted" /\ UNCHANGED ret
          ELSE pc' = "close" /\ ret' = "error"
    /\ UNCHANGED <<fdVars, clientVars, config, rcvtimeo, retry, got, proc, netVars,
                   connects, eof>>

(* The client is filled in.  The memory for the identifier is not checked: *)
(* without it memcpy writes through NULL.  An identifier an earlier create *)
(* left in the client is forgotten, not freed.                             *)
Accept ==
    /\ pc = "accepted"
    /\ keep_alive' = config
    /\ \/ /\ client_id' = "heap"
          /\ state' = "connected"
          /\ pc' = "close"
          /\ UNCHANGED proc
       \/ /\ proc' = "segv"
          /\ client_id' = "null"
          /\ UNCHANGED <<state, pc>>
    /\ UNCHANGED <<fdVars, callVars, rcvtimeo, netVars, connects, eof>>

(* The connection ends with its socket, the call with its locals.          *)
NoConnection ==
    /\ peer' = "none" /\ connects' = 0 /\ answers' = 0 /\ code' = "none"
    /\ queued' = 0 /\ arrived' = 0 /\ eof' = FALSE
    /\ config' = 0 /\ retry' = 0 /\ got' = 0

(* Mutation: the socket is forgotten without being closed.                 *)
DisconnectForgotten ==
    /\ pc = "close"
    /\ UNCHANGED open
    /\ socket_fd' = 0
    /\ NoConnection
    /\ pc' = "idle"
    /\ UNCHANGED <<ownerVars, clientVars, ret, rcvtimeo, proc>>

(* The label disconnect is reached on success as well.                     *)
Disconnect ==
    /\ pc = "close"
    /\ open' = open \ {socket_fd}
    /\ socket_fd' = 0
    /\ NoConnection
    /\ pc' = "idle"
    /\ UNCHANGED <<ownerVars, clientVars, ret, rcvtimeo, proc>>

(* mqtt_client_destroy closes the number that stands in the client: the    *)
(* socket of a create that did not connect, or, in a client without one,   *)
(* descriptor 0, whatever that is, or nothing.                             *)
Destroy ==
    /\ pc = "idle"
    /\ client_id' = "null"
    /\ open' = open \ {socket_fd}
    /\ std' = std \ {socket_fd} /\ unmet' = unmet \ {socket_fd}
    /\ stray' = stray \ {socket_fd}
    /\ UNCHANGED <<socket_fd, state, keep_alive, pc, callVars, rcvtimeo, proc,
                   netVars, connects, eof>>

-----------------------------------------------------------------------------
(* The broker and the network                                              *)

(* A CONNACK for a CONNECT the broker has got; behind an accepting one it  *)
(* may at once send a message of a resumed session (one byte stands for    *)
(* it: the handshake takes no more).                                       *)
Answer ==
    /\ peer = "open" /\ answers < connects /\ answers < MaxAnswers
    /\ \E c \in {"accepted", "refused"}, more \in {0, 1} :
          /\ more = 1 => c = "accepted"
          /\ code' = IF code = "none" THEN c ELSE code
          /\ queued' = queued + ConnackLen + more
    /\ answers' = answers + 1
    /\ UNCHANGED <<pc, fdVars, clientVars, callVars, rcvtimeo, proc, peer, arrived,
                   connects, eof>>

Arrive ==
    /\ peer \in {"open", "closed"}
    /\ \E n \in 1..queued : queued' = queued - n /\ arrived' = arrived + n
    /\ UNCHANGED <<pc, fdVars, clientVars, callVars, rcvtimeo, proc, peer, answers,
                   code, connects, eof>>

PeerCloses ==
    /\ peer = "open"
    /\ peer' = "closed"
    /\ UNCHANGED <<pc, fdVars, clientVars, callVars, rcvtimeo, proc, answers, code,
                   queued, arrived, connects, eof>>

(* The network loses the connection, or the peer's kernel answers data     *)
(* sent to a closed socket.                                                *)
PeerResets ==
    /\ peer \in {"open", "closed"}
    /\ peer' = "reset" /\ queued' = 0
    /\ UNCHANGED <<pc, fdVars, clientVars, callVars, rcvtimeo, proc, answers, code,
                   arrived, connects, eof>>

-----------------------------------------------------------------------------
Call ==
    \/ OpenSocket \/ ConnectFails \/ Connect
    \/ BuildFails \/ Build \/ Send
    \/ Receive \/ ReceiveTimeout \/ ReceiveEof \/ ReceiveError
    \/ ClearTimeout \/ ParseConnack \/ Accept \/ Disconnect

Application == Create \/ Destroy

Broker == Answer \/ Arrive \/ PeerCloses \/ PeerResets

Next == proc = "running" /\ (Call \/ Application \/ Broker)

(* A call in progress runs on (recv returns after its timeout), and data   *)
(* sent to a socket the peer has closed is answered with a reset.          *)
Fairness ==
    /\ WF_vars(proc = "running" /\ Call)
    /\ WF_vars(proc = "running" /\ peer = "closed" /\ PeerResets)

Spec == Init /\ [][Next]_vars /\ Fairness

-----------------------------------------------------------------------------
Handshake == {"send", "recv", "clear"}

(* Types, and: the receive timeout is set exactly while the handshake      *)
(* waits (client.c:28 and 63), so every way out of it takes it off again.  *)
TypeOK ==
    /\ pc \in {"idle", "socket", "connect", "build", "parse", "accepted", "close"} \cup Handshake
    /\ socket_fd \in Descriptors \cup {NoDescriptor}
    /\ open \subseteq Descriptors
    /\ state \in {"disconnected", "connected"}
    /\ keep_alive \in Nat /\ config \in Nat
    /\ client_id \in {"null", "heap"}
    /\ rcvtimeo \in BOOLEAN /\ (rcvtimeo <=> pc \in Handshake)
    /\ retry \in 0..RetryMax /\ got \in 0..AckLen
    /\ ret \in {"ok", "error"}
    /\ proc \in {"running", "sigpipe", "segv"}
    /\ peer \in {"none", "open", "closed", "reset"}
    /\ connects \in 0..MaxConnects /\ answers \in Nat
    /\ code \in {"none", "accepted", "refused"}
    /\ queued \in Nat /\ arrived \in Nat
    /\ eof \in BOOLEAN
    /\ std \subseteq {0} /\ unmet \subseteq Descriptors /\ stray \subseteq Descriptors

(* mqtt_client_create returns success only after the broker's first answer *)
(* on this connection was a CONNACK that accepts it, and then the client   *)
(* has an identifier and a keep-alive interval that is not 0 (the deamon   *)
(* would send a PINGREQ every second), however the bytes were split and    *)
(* whatever followed them (client.c:69-138).                               *)
SuccessMeansAccepted ==
    pc = "close" /\ ret = "ok" =>
        /\ code = "accepted" /\ answers >= 1 /\ connects >= 1
        /\ state = "connected" /\ client_id = "heap" /\ keep_alive # 0

(* Without an end of stream at most RetryMax CONNECTs are sent on a        *)
(* connection (client.c:14 and 29-54).                                     *)
RetriesBounded == ~eof => connects <= RetryMax

(* After mqtt_client_create has returned success, and until the client is  *)
(* destroyed, the client has its connection: what the deamon starts from   *)
(* (client_deamon.c:135).                                                  *)
ConnectedHasSocket ==
    pc = "idle" /\ ret = "ok" /\ client_id = "heap" => peer # "none"

(* Every call returns or the process is gone: no wait for a CONNACK lasts  *)
(* for ever (client.c:29-54).                                              *)
CallReturns == (pc # "idle") ~> (pc = "idle" \/ proc # "running")
=============================================================================
