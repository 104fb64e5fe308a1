---------------------------- MODULE RemainLength ----------------------------
(***************************************************************************)
(* remain_length_encode and remain_length_decode of message.c, loop by     *)
(* loop, and the way from one to the other: a message whose fixed header   *)
(* the sender built, of which recv returned the first bytes, handed to     *)
(* message_fixed_header_decode by process_socket_event, or, for the length *)
(* of a CONNACK, to connack_message_parse.                                 *)
(*                                                                         *)
(* A byte is a number below 256; the top bit says that more bytes follow.  *)
(***************************************************************************)
EXTENDS Integers, Sequences

CONSTANTS
    Lengths,  \* arguments of remain_length_encode, uint32_t
    Fillers   \* bytes that may follow the length in the message

Byte == 0..255
FieldMax == 4       \* MQTT_REMAIN_LEN_ENCODE_MAX_LENGTH
ConnackLength == 2  \* sizeof(connack_variable_header_t)

ASSUME LengthAssumption ==
    /\ Lengths \subseteq Nat
    /\ Fillers \subseteq Byte

VARIABLES
    pc,         \* "encode", "sent", "refused", "decode" or "decoded"
    input,      \* ghost: the length given to remain_length_encode
    length,     \* *length: what is left to encode, later what is decoded
    encode,     \* bytes written by remain_length_encode
    given,      \* ghost: how many bytes behind the type byte were received
    asked,      \* ghost: how many bytes of them the decoder was told to read
    buffer,     \* the four bytes behind the type byte in the receive buffer
    encode_len, \* *encode_len of remain_length_decode
    index,      \* its local index
    base        \* its local base

vars == <<pc, input, length, encode, given, asked, buffer, encode_len, index,
          base>>
decodeVars == <<given, asked, buffer, encode_len, index, base>>

Zeros == [k \in 1..FieldMax |-> 0]

Init ==
    /\ input \in Lengths
    /\ pc = "encode" /\ length = input /\ encode = <<>>
    /\ given = 0 /\ asked = 0 /\ buffer = Zeros /\ encode_len = 0 /\ index = 0 /\ base = 1

-----------------------------------------------------------------------------
(* Mutation: 128 is taken to fit into one byte.                            *)
MoreOffByOne(n) == n > 128

More(n) == n \div 128 > 0

(* Mutation: *encode_len is not cut to four.                               *)
Uncut(n) == n

Cut(n) == IF n <= FieldMax THEN n ELSE FieldMax

(* One turn of the do-while loop; the last one returns.  More than four    *)
(* bytes are an error, found after they are written.                       *)
EncodeByte ==
    /\ pc = "encode"
    /\ encode' = Append(encode, (length % 128) + (IF More(length) THEN 128 ELSE 0))
    /\ pc' = IF More(length) THEN "encode"
             ELSE IF Len(encode') > FieldMax THEN "refused" ELSE "sent"
    /\ length' = length \div 128
    /\ UNCHANGED <<input, decodeVars>>

(* recv asked for the type byte and four more and got n of the four; the   *)
(* rest of the buffer is as memset left it.  The number of bytes received, *)
(* the type byte included, is passed as *encode_len and cut to four.       *)
(* connack_message_parse passes a variable it has not set.                 *)
Deliver ==
    /\ pc = "sent"
    /\ \E n \in 0..FieldMax, filler \in Fillers :
          /\ given' = n
          /\ buffer' = [k \in 1..FieldMax |->
                            IF k > n THEN 0
                            ELSE IF k <= Len(encode) THEN encode[k] ELSE filler]
          /\ \/ encode_len' = Cut(n + 1)
             \/ input = ConnackLength /\ encode_len' \in 0..FieldMax
    /\ asked' = encode_len'
    /\ length' = 0 /\ index' = 0 /\ base' = 1
    /\ pc' = "decode"
    /\ UNCHANGED <<input, encode>>

(* Mutation: base is shifted by eight bits.                                *)
DecodeByteShiftsEight ==
    /\ pc = "decode" /\ index < encode_len /\ buffer[index + 1] >= 128
    /\ length' = length + (buffer[index + 1] % 128) * base
    /\ base' = base * 256
    /\ index' = index + 1
    /\ UNCHANGED <<pc, input, encode, given, asked, buffer, encode_len>>

(* One turn of the while loop, on a byte with the top bit set.             *)
DecodeByte ==
    /\ pc = "decode" /\ index < encode_len /\ buffer[index + 1] >= 128
    /\ length' = length + (buffer[index + 1] % 128) * base
    /\ base' = base * 128
    /\ index' = index + 1
    /\ UNCHANGED <<pc, input, encode, given, asked, buffer, encode_len>>

(* The loop ends at a byte without the top bit, or with no byte left.      *)
DecodeReturns ==
    /\ pc = "decode"
    /\ \/ /\ index < encode_len /\ buffer[index + 1] < 128
          /\ length' = length + buffer[index + 1] * base
       \/ /\ index >= encode_len
          /\ UNCHANGED length
    /\ encode_len' = index + 1
    /\ pc' = "decoded"
    /\ UNCHANGED <<input, encode, given, asked, buffer, index, base>>

Next == EncodeByte \/ Deliver \/ DecodeByte \/ DecodeReturns

Spec == Init /\ [][Next]_vars

-----------------------------------------------------------------------------
(* 128^k; a field of k bytes holds the lengths below it.                   *)
Weight == [k \in 0..FieldMax |->
              CASE k = 0 -> 1 [] k = 1 -> 128 [] k = 2 -> 16384
                [] k = 3 -> 2097152 [] OTHER -> 268435456]

(* Types; the reader never looks behind the four bytes a length may have   *)
(* (message.c:36-45).                                                      *)
TypeOK ==
    /\ pc \in {"encode", "sent", "refused", "decode", "decoded"}
    /\ input \in Nat /\ length \in Nat
    /\ encode \in Seq(Byte)
    /\ given \in 0..FieldMax /\ buffer \in [1..FieldMax -> Byte]
    /\ asked \in 0..FieldMax /\ encode_len \in 0..(FieldMax + 1)
    /\ index \in 0..FieldMax /\ base \in Nat
    /\ pc = "decode" => index <= encode_len /\ encode_len = asked

(* The field is the shortest that holds the length, never longer than its  *)
(* four bytes, and a length is refused exactly when four are not enough    *)
(* (message.c:13-28, mqtt's 268435455).                                    *)
ShortestField ==
    /\ pc = "refused" => input >= Weight[FieldMax]
    /\ pc \in {"sent", "decode", "decoded"} =>
          /\ Len(encode) \in 1..FieldMax
          /\ input < Weight[Len(encode)]
          /\ Len(encode) > 1 => input >= Weight[Len(encode) - 1]

(* How many bytes of the field the decoder gets to see.                    *)
Seen == IF given < asked THEN given ELSE asked

(* When it sees the whole field, it finds the length that was sent and the *)
(* bytes it took, whatever follows the field in the buffer.                *)
RoundTrip ==
    pc = "decoded" /\ Seen >= Len(encode) =>
        length = input /\ encode_len = Len(encode)

(* When it does not (a recv that stopped within the field, or the unset    *)
(* variable), the message is taken for a shorter one, whose field has one  *)
(* byte more than was seen: process_socket_event asks for more bytes, and  *)
(* never for more than the message has (client_deamon.c:114-128).          *)
Truncated ==
    pc = "decoded" /\ Seen < Len(encode) =>
        /\ length = input % Weight[Seen]
        /\ encode_len = Seen + 1
        /\ length + encode_len <= input + Len(encode)
=============================================================================
