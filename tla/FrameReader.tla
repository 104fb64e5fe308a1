---------------------------- MODULE FrameReader ----------------------------
(***************************************************************************)
(* process_socket_event of client_deamon.c over the byte stream of the     *)
(* connection: a recv of five bytes, the length decoded from what came     *)
(* (message_fixed_header_decode), a second recv of what is missing, the    *)
(* switch on the type, and round again until nothing more can be read.     *)
(*                                                                         *)
(* What the handlers do is ClientDeamon's subject; here it matters which   *)
(* bytes they are given.  The broker's messages are sequences of bytes,    *)
(* and TCP may deliver the stream in any pieces.  The variable whole is    *)
(* chosen once: with TRUE the stream comes as ClientDeamon assumes, one    *)
(* message at a time and none behind an unread one of less than five       *)
(* bytes.                                                                  *)
(***************************************************************************)
EXTENDS Integers, Sequences

CONSTANTS
    Message,      \* what the broker may send: sequences of bytes
    Base,         \* weight of the second byte of the length field, 128
    BufferSize,   \* BUFFER_SIZE, 1024
    Blocking,     \* is the socket in blocking mode?
    MaxMessages   \* bound: messages on the connection

Byte == 0..255
HeaderLen == 5    \* MESSAGE_HEADER_LENGTH
FieldMax == 4     \* bytes of a length field

ASSUME ReaderAssumption ==
    /\ Message \subseteq Seq(Byte) /\ \A m \in Message : Len(m) >= 2
    /\ Base \in Nat \ {0}
    /\ BufferSize \in Nat /\ BufferSize >= HeaderLen
    /\ Blocking \in BOOLEAN
    /\ MaxMessages \in Nat

VARIABLES
    whole,        \* how the stream arrives, see above
    sent,         \* the messages the broker has sent
    begins,       \* for each of them, the bytes sent before it
    arrived,      \* bytes in the receive buffer of the socket
    taken,        \* bytes recv has returned
    conn,         \* "open", "closed" by the peer, or "reset"
    pc,           \* "wait" (in epoll_wait), "recv", "rest", "dispatch"
    buffer,       \* what this turn of the loop has read; zeros follow
    message_len,  \* local of process_socket_event
    ret,          \* local of process_socket_event: of the decoder or second recv
    memory,       \* behind buffer: "sound", "overwritten", or "crashed" of it
    start,        \* ghost: bytes taken before this turn of the loop
    ready         \* ghost: bytes that had arrived when it began

peerVars == <<whole, sent, begins, conn>>
turnVars == <<buffer, message_len, ret, start, ready>>
vars == <<whole, sent, begins, arrived, taken, conn, pc, buffer, message_len, ret,
          memory, start, ready>>

Smaller(x, y) == IF x < y THEN x ELSE y
Larger(x, y) == IF x > y THEN x ELSE y

Ends(i) == begins[i] + Len(sent[i])
Total == IF sent = <<>> THEN 0 ELSE Ends(Len(sent))
UnderWay == Total - taken - arrived

(* The n-th byte of the stream.                                            *)
StreamByte(n) ==
    LET i == CHOOSE j \in DOMAIN sent : begins[j] < n /\ n <= Ends(j)
    IN  sent[i][n - begins[i]]

Piece(n) == [k \in 1..n |-> StreamByte(taken + k)]

Init ==
    /\ whole \in BOOLEAN
    /\ sent = <<>> /\ begins = <<>> /\ arrived = 0 /\ taken = 0 /\ conn = "open"
    /\ pc = "wait" /\ buffer = <<>> /\ message_len = 0 /\ start = 0 /\ ready = 0
    /\ ret = 0 /\ memory = "sound"

-----------------------------------------------------------------------------
(* message_fixed_header_decode                                             *)

Type(bytes) == IF bytes = <<>> THEN 0 ELSE bytes[1] \div 16

(* The k-th byte behind the first, 0 where nothing was received (memset).  *)
Field(bytes, k) == IF k < Len(bytes) THEN bytes[k + 1] ELSE 0

More(byte) == (byte \div Base) % 2 = 1

(* encode_len comes in as the number of bytes received, cut to four.       *)
FieldRead(bytes) == Smaller(Len(bytes), FieldMax)

(* The loop of remain_length_decode stops in front of this byte.           *)
Index(bytes) ==
    CHOOSE i \in 0..FieldRead(bytes) :
        /\ \A k \in 1..i : More(Field(bytes, k))
        /\ i = FieldRead(bytes) \/ ~More(Field(bytes, i + 1))

Weight(k) == CASE k = 1 -> 1 [] k = 2 -> Base [] k = 3 -> Base * Base
               [] OTHER -> Base * Base * Base

Digit(bytes, k) ==
    IF k <= Index(bytes) + 1 /\ k <= FieldRead(bytes)
    THEN (Field(bytes, k) % Base) * Weight(k) ELSE 0

RemainLen(bytes) ==
    Digit(bytes, 1) + Digit(bytes, 2) + Digit(bytes, 3) + Digit(bytes, 4)

(* Mutation: the type byte is not counted.                                 *)
MessageLenNoType(bytes) == RemainLen(bytes) + Index(bytes) + 1

MessageLen(bytes) == RemainLen(bytes) + (Index(bytes) + 1) + 1

(* What the broker sends is well-formed: there is such a type, and the     *)
(* length field, wholly in what a first recv returns, is right: type,      *)
(* field and rest make up the message.                                     *)
Announces(m) ==
    LET header == SubSeq(m, 1, Smaller(Len(m), HeaderLen))
    IN  1 + (Index(header) + 1) + RemainLen(header) = Len(m)

ASSUME AnnounceAssumption ==
    \A m \in Message : Announces(m) /\ Type(m) \in 1..14

-----------------------------------------------------------------------------
(* client_deamon_thread and process_socket_event                           *)

Eof == conn = "closed" /\ arrived = 0 /\ UnderWay = 0

EpollWait ==
    /\ pc = "wait"
    /\ arrived > 0 \/ Eof \/ conn = "reset"
    /\ pc' = "recv"
    /\ UNCHANGED <<peerVars, arrived, taken, turnVars, memory>>

(* recv returns -1: the connection was reset, or nothing has arrived and   *)
(* the socket is not in blocking mode.  What was read before is lost.      *)
ReceiveFails ==
    /\ pc \in {"recv", "rest"} /\ arrived = 0
    /\ conn = "reset" \/ (~Blocking /\ ~Eof)
    /\ pc' = "wait"
    /\ buffer' = <<>> /\ message_len' = 0 /\ ret' = 0 /\ start' = 0 /\ ready' = 0
    /\ UNCHANGED <<peerVars, arrived, taken, memory>>

Take(n) ==
    /\ taken' = taken + n
    /\ arrived' = arrived - n

(* At the end of the stream recv returns 0, which goes on as if it were    *)
(* the beginning of a message.                                             *)
ReceiveHeader ==
    /\ pc = "recv" /\ (arrived > 0 \/ Eof)
    /\ LET n == Smaller(arrived, HeaderLen)
       IN  /\ Take(n)
           /\ buffer' = Piece(n)
           /\ message_len' = MessageLen(buffer')
           /\ pc' = IF message_len' > n THEN "rest" ELSE "dispatch"
    /\ ret' = 0 /\ start' = taken /\ ready' = arrived
    /\ UNCHANGED <<peerVars, memory>>

(* Mutation: the second recv asks for the whole length.                    *)
AskedAgain == message_len

Asked == message_len - Len(buffer)

(* The second recv returns what there is.  The size of the buffer is not   *)
(* looked at: what does not go into it is written behind its end.          *)
ReceiveRest ==
    /\ pc = "rest" /\ (arrived > 0 \/ Eof)
    /\ LET n == Smaller(arrived, Asked)
       IN  /\ Take(n)
           /\ ret' = n
           /\ buffer' = buffer \o Piece(n)
    /\ memory' = IF Len(buffer') > BufferSize THEN "overwritten" ELSE memory
    /\ pc' = "dispatch"
    /\ UNCHANGED <<peerVars, message_len, start, ready>>

(* What lies behind the buffer belongs to others.  The process may go down *)
(* at any time after it was overwritten; until then the reader's own       *)
(* variables are taken to be intact.                                       *)
Crash ==
    /\ memory = "overwritten"
    /\ memory' = "crashed"
    /\ UNCHANGED <<peerVars, arrived, taken, pc, turnVars>>

Known == Type(buffer) \in 1..14

(* Mutation: an unknown type is passed over like the ignored ones.         *)
DispatchAny ==
    /\ pc = "dispatch"
    /\ pc' = "recv"
    /\ buffer' = <<>> /\ message_len' = 0 /\ ret' = 0 /\ start' = 0 /\ ready' = 0
    /\ UNCHANGED <<peerVars, arrived, taken, memory>>

(* CONNECT, CONNACK, SUBSCRIBE, UNSUBSCRIBE, PINGREQ and DISCONNECT have   *)
(* no handler that would assign ret.                                       *)
Ignored == {1, 2, 8, 10, 12, 14}

(* The loop goes on unless ret > BUFFER_SIZE, which no handler returns.    *)
GoesOn == Type(buffer) \in Ignored => ret <= BufferSize

(* The switch: a handler (or a warning) and the next turn, or the way out  *)
(* for a type that does not exist, the end of the stream among them.       *)
Dispatch ==
    /\ pc = "dispatch"
    /\ pc' = IF Known /\ GoesOn THEN "recv" ELSE "wait"
    /\ buffer' = <<>> /\ message_len' = 0 /\ ret' = 0 /\ start' = 0 /\ ready' = 0
    /\ UNCHANGED <<peerVars, arrived, taken, memory>>

Reader ==
    /\ memory # "crashed"
    /\ EpollWait \/ ReceiveFails \/ ReceiveHeader \/ ReceiveRest \/ Dispatch

-----------------------------------------------------------------------------
(* The broker and TCP                                                      *)

BrokerSend ==
    /\ conn = "open" /\ Len(sent) < MaxMessages
    /\ \E m \in Message : sent' = Append(sent, m)
    /\ begins' = Append(begins, Total)
    /\ UNCHANGED <<whole, conn, arrived, taken, pc, turnVars, memory>>

(* Everything unread is of messages of at least five bytes.                *)
Spaced ==
    \A i \in DOMAIN sent :
        Ends(i) > taken /\ begins[i] < taken + arrived => Len(sent[i]) >= HeaderLen

(* How much may arrive at once: any part, or exactly the next message.     *)
Portions ==
    IF whole
    THEN {Len(sent[i]) : i \in {j \in DOMAIN sent : Spaced /\ begins[j] = taken + arrived}}
    ELSE 1..UnderWay

Arrive ==
    /\ conn # "reset"
    /\ \E n \in Portions : arrived' = arrived + n
    /\ UNCHANGED <<peerVars, taken, pc, turnVars, memory>>

PeerCloses ==
    /\ conn = "open"
    /\ conn' = "closed"
    /\ UNCHANGED <<whole, sent, begins, arrived, taken, pc, turnVars, memory>>

PeerResets ==
    /\ conn # "reset"
    /\ conn' = "reset"
    /\ UNCHANGED <<whole, sent, begins, arrived, taken, pc, turnVars, memory>>

Broker == BrokerSend \/ Arrive \/ PeerCloses \/ PeerResets

Next == Reader \/ Crash \/ Broker

(* The thread is scheduled, and what was sent before the peer closed       *)
(* arrives or the connection is reset.                                     *)
Fairness ==
    /\ WF_vars(Reader)
    /\ WF_vars(conn = "closed" /\ Arrive)

Spec == Init /\ [][Next]_vars /\ Fairness

-----------------------------------------------------------------------------
(* Types, and: what is read in a turn is the five bytes asked for first or *)
(* the message they announce (client_deamon.c:107-128).                    *)
TypeOK ==
    /\ whole \in BOOLEAN
    /\ sent \in Seq(Seq(Byte)) /\ begins \in Seq(Nat) /\ Len(begins) = Len(sent)
    /\ arrived \in Nat /\ taken \in Nat
    /\ conn \in {"open", "closed", "reset"}
    /\ pc \in {"wait", "recv", "rest", "dispatch"}
    /\ memory \in {"sound", "overwritten", "crashed"}
    /\ buffer \in Seq(Byte) /\ message_len \in Nat /\ ret \in Nat
    /\ start \in Nat /\ ready \in Nat
    /\ Len(buffer) <= Larger(HeaderLen, message_len)
    /\ pc = "rest" => Len(buffer) < message_len

(* The bytes a handler is told it has: the zeros behind what was received  *)
(* are among them when message_len says so, and what is behind message_len *)
(* is not.                                                                 *)
Handed ==
    [k \in 1..message_len |-> IF k <= Len(buffer) THEN buffer[k] ELSE 0]

(* However the stream is cut: a turn of the loop that begins at the first  *)
(* byte of a message of five bytes or more reads nothing of the message    *)
(* behind it, and when that message had arrived, the handler gets it and   *)
(* nothing else.  Such a turn overruns the buffer only with a message that *)
(* does not fit into it, and that one it does overrun the buffer with when *)
(* it had arrived (client_deamon.c:108-128, message.c:31-51).              *)
StaysInside ==
    pc \in {"rest", "dispatch"} =>
        \A i \in DOMAIN sent :
            begins[i] = start /\ Len(sent[i]) >= HeaderLen /\ ready > 0 =>
                /\ start + Larger(Len(buffer), message_len) <= Ends(i)
                /\ ready >= Len(sent[i]) /\ pc = "dispatch" => Handed = sent[i]
                /\ Len(buffer) > BufferSize =>
                      Len(sent[i]) > BufferSize /\ memory # "sound"
                /\ (/\ Len(sent[i]) > BufferSize
                    /\ ready >= Len(sent[i]) /\ pc = "dispatch") => memory # "sound"

(* When the stream comes as ClientDeamon assumes, every message is handed  *)
(* over once, complete and in order (client_deamon.c:106-178).  Otherwise  *)
(* the abstract stream is given as empty.                                  *)
Turn == IF pc = "rest" THEN start ELSE taken
Begun ==
    CHOOSE p \in 0..Len(sent) : \A i \in DOMAIN sent : begins[i] < Turn <=> i <= p
AbstractUnread == SubSeq(sent, Begun + 1, Len(sent))
AbstractHanded == IF pc = "dispatch" /\ Known THEN Handed ELSE <<>>

Stream == INSTANCE MessageStream WITH
              unread <- IF whole THEN AbstractUnread ELSE <<>>,
              handed <- IF whole THEN AbstractHanded ELSE <<>>,
              Nothing <- <<>>

RefinesMessageStream == Stream!Spec

(* Once the peer has closed or reset the connection, the reader is back in *)
(* the event loop again and again, where the timer can be served, unless   *)
(* it has written behind its buffer, after which this is not promised      *)
(* (client_deamon.c:106-183).                                              *)
ReaderReturns == (conn # "open") ~> (pc = "wait" \/ memory # "sound")
=============================================================================
