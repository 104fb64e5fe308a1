------------------------------ MODULE Messages ------------------------------
(***************************************************************************)
(* The messages that carry a packet identifier and are longer than that:   *)
(* SUBSCRIBE and UNSUBSCRIBE with their list of topic filters, SUBACK with *)
(* its growing array of granted QoS values, PUBLISH.  A message is built   *)
(* into the room the caller gives, and what was built is parsed again.     *)
(*                                                                         *)
(* The length field goes through the loops of RemainLength, whose actions  *)
(* are steps of a build and of a parse here; a job of kind "length" is     *)
(* such a field alone.  Strings are their lengths.                         *)
(***************************************************************************)
EXTENDS RemainLength

CONSTANTS Jobs   \* what is built and by whom, see JobType

U16 == 65536
QosMax == 3        \* MQTT_QOS_MAX
DefaultSize == 10  \* SUBACK_TOPIC_NUM_DEFAULT
Threshold == 40    \* SUBACK_TOPIC_NUM_THRESHOLD

Filter == [len : Nat, qos : Nat, null : BOOLEAN]

(* own is TRUE for a message this library builds, FALSE for one that comes *)
(* from elsewhere and was not checked by a build; slack is by how much the *)
(* caller's buffer differs from what is needed.  values and bad: how many  *)
(* QoS values a SUBACK has, and which of them is none (0: all are good);   *)
(* capacity: what the array they are collected in was made with.           *)
JobType ==
    [kind : {"length", "SUBSCRIBE", "UNSUBSCRIBE", "SUBACK", "PUBLISH"},
     own : BOOLEAN, slack : Int, filters : Seq(Filter),
     values : Nat, bad : Nat, capacity : Nat,
     topic : Nat, payload : Nat, qos : 0..2]

ASSUME JobAssumption ==
    /\ Jobs \subseteq JobType
    /\ \A j \in Jobs :
          /\ j.bad <= j.values /\ j.capacity < U16
          /\ j.kind \in {"SUBSCRIBE", "UNSUBSCRIBE"} /\ j.own => j.filters # <<>>
          /\ ~j.own => j.slack = 0

VARIABLES
    job,       \* the arguments of the build, chosen at the start
    at,        \* where build or parse is
    room,      \* *message_len as the caller set it
    written,   \* *message_len as the build counts it
    counts,    \* remain_len after each turn of the counting loop
    items,     \* strings in the message: where they begin, length, QoS
    place,     \* offset of the parser in the message
    rest,      \* message_len as the parser counts it
    result,    \* what the parse gives back: filters, or topic and payload
    list,      \* *filter_list: "unset", "list", "dangling" or "wild"
    nodes,     \* allocated filters, the empty first one included
    ret,       \* what a parse of filters that fails will return
    cur,       \* the node its _exit has got to; 0 is the empty first one
    capacity,  \* data->capacity of the SUBACK array
    size       \* data->size

buildVars == <<room, written, counts, items>>
exitVars == <<ret, cur>>
parseVars == <<place, rest, result, list, nodes, exitVars>>
arrayVars == <<capacity, size>>
messageVars == <<job, at, buildVars, parseVars, arrayVars>>
lengthVars == <<pc, input, length, encode, decodeVars>>
allVars == <<messageVars, lengthVars>>

Filters == job.kind \in {"SUBSCRIBE", "UNSUBSCRIBE"}

-----------------------------------------------------------------------------
(* The lengths                                                             *)

QosByte(j) == IF j.kind = "SUBSCRIBE" THEN 1 ELSE 0

(* Mutation: the byte of the QoS is forgotten in the count.                *)
WidthWithoutQos(j, f) == f.len + 2

(* What the counting loop of a build adds for a filter.                    *)
Width(j, f) == f.len + 2 + QosByte(j)

(* What subscribe_message_len_calc adds for it, and where it starts from.  *)
CalcWidth(f) == f.len + 2 + 1
CalcStart == 1 + 4 + 2

IdBytes(j) == IF j.qos > 0 THEN 2 ELSE 0
PublishLen(j) == j.topic + 2 + IdBytes(j) + j.payload

(* remain_len before any filter is counted; PUBLISH counts in 16 bits.     *)
RemainLen(j) ==
    CASE j.kind \in {"SUBSCRIBE", "UNSUBSCRIBE"} -> 2
      [] j.kind = "SUBACK"  -> 2 + j.values
      [] j.kind = "PUBLISH" -> PublishLen(j) % U16

-----------------------------------------------------------------------------
MessageInit ==
    /\ job \in Jobs
    /\ at = (IF Filters THEN "count"
             ELSE IF job.kind = "SUBACK" /\ job.own THEN "init" ELSE "encode")
    /\ IF job.kind = "length" THEN input \in Lengths ELSE input = RemainLen(job)
    /\ pc = "encode" /\ length = input /\ encode = <<>>
    /\ given = 0 /\ asked = 0 /\ buffer = Zeros /\ encode_len = 0 /\ index = 0 /\ base = 1
    /\ room = CalcStart /\ written = 0 /\ counts = <<>> /\ items = <<>>
    /\ place = 0 /\ rest = 0 /\ result = <<>> /\ list = "unset" /\ nodes = 0
    /\ ret = "success" /\ cur = 0
    /\ capacity = 0 /\ size = 0

-----------------------------------------------------------------------------
(* The array of QoS values, which the caller of a build fills and a parse  *)
(* fills as well.  memory says whether malloc or realloc succeeds.         *)

Asks == IF at = "init" THEN job.capacity ELSE rest
Target == IF at = "append" THEN job.values ELSE rest

(* suback_data_init; its argument is a uint16_t, to which a parse cuts the *)
(* number of values it has before it.                                      *)
ArrayInit ==
    /\ at \in {"init", "array"}
    /\ capacity' = IF Asks % U16 = 0 THEN DefaultSize ELSE Asks % U16
    /\ size' = 0
    /\ at' \in {IF at = "init" THEN "append" ELSE "values", "no memory"}
    /\ UNCHANGED <<job, buildVars, parseVars, lengthVars>>

(* Values the array has room for, one call of suback_data_append each; a   *)
(* parse looks at each value before it appends it.                         *)
Good == IF at = "values" /\ job.bad > 0 THEN job.bad - 1 ELSE Target

ArrayFill ==
    /\ at \in {"append", "values"}
    /\ size < capacity /\ size < Good
    /\ size' = IF Good < capacity THEN Good ELSE capacity
    /\ UNCHANGED <<job, at, buildVars, parseVars, capacity, lengthVars>>

(* Mutation: the new capacity is what it was.                              *)
GrownForgotten(c) == c

(* uint16_t: twice as much, then ten more.                                 *)
Grown(c) == (IF c < Threshold THEN 2 * c ELSE c + DefaultSize) % U16

(* The value that does not fit: realloc, and it is written at data->size,  *)
(* also when the sum has gone round and the array is shorter than that.    *)
ArrayGrow ==
    /\ at \in {"append", "values"}
    /\ size >= capacity /\ size < Good
    /\ \/ /\ capacity' = Grown(capacity)
          /\ size' = size + 1
          /\ at' = IF size < capacity' THEN at ELSE "out of array"
       \/ /\ at' = "no memory"
          /\ UNCHANGED arrayVars
    /\ UNCHANGED <<job, buildVars, parseVars, lengthVars>>

(* All values are in, or the parser has met one that is no QoS: it returns *)
(* without a release.                                                      *)
ArrayDone ==
    /\ at \in {"append", "values"} /\ size >= Good
    /\ at' = IF at = "append" THEN "encode"
             ELSE IF job.bad > 0 THEN "bad qos" ELSE "parsed"
    /\ UNCHANGED <<job, buildVars, parseVars, arrayVars, lengthVars>>

-----------------------------------------------------------------------------
(* Build                                                                   *)

(* One turn of the two counting loops, that of the caller's                *)
(* subscribe_message_len_calc (room) and the first one of the build.       *)
CountFilter ==
    /\ at = "count" /\ Len(counts) < Len(job.filters)
    /\ LET f == job.filters[Len(counts) + 1]
       IN  /\ input' = input + Width(job, f)
           /\ room' = room + CalcWidth(f)
    /\ length' = input'
    /\ counts' = Append(counts, input')
    /\ UNCHANGED <<job, at, written, items, parseVars, arrayVars, pc, encode, decodeVars>>

CountDone ==
    /\ at = "count" /\ Len(counts) = Len(job.filters)
    /\ at' = "encode"
    /\ UNCHANGED <<job, buildVars, parseVars, arrayVars, lengthVars>>

(* The steps of RemainLength are steps here, too.                          *)
LengthStep ==
    /\ at \in {"encode", "decode"}
    /\ EncodeByte \/ DecodeByte \/ DecodeReturns
    /\ UNCHANGED messageVars

LengthAlone ==
    /\ job.kind = "length" /\ Deliver
    /\ UNCHANGED messageVars

Need == 1 + Len(encode) + input

(* An identifier before the list or the values.                            *)
IdentifierLen == IF job.kind = "PUBLISH" THEN 0 ELSE 2

Enough(space) == space >= Need

(* *message_len against what is needed, then the type, the length field    *)
(* and, except in a PUBLISH, the identifier are written.                   *)
CheckRoom ==
    /\ at = "encode" /\ pc = "sent" /\ job.kind # "length"
    /\ room' = IF job.kind = "SUBSCRIBE" THEN room ELSE Need + job.slack
    /\ \/ /\ job.own => Enough(room')
          /\ written' = 1 + Len(encode) + IdentifierLen
          /\ at' = "items"
       \/ /\ job.own /\ ~Enough(room')
          /\ at' = "refused"
          /\ UNCHANGED written
    /\ UNCHANGED <<job, counts, items, parseVars, arrayVars, lengthVars>>

(* One turn of the second loop over the filters.  A string that is NULL    *)
(* but has a length ends the build with a part of the message written.     *)
BuildFilter ==
    /\ at = "items" /\ Filters /\ Len(items) < Len(job.filters)
    /\ LET f == job.filters[Len(items) + 1]
       IN  \/ /\ f.null /\ f.len # 0
              /\ at' = "refused"
              /\ UNCHANGED <<written, items>>
           \/ /\ ~(f.null /\ f.len # 0)
              /\ items' = Append(items, [off |-> written, len |-> f.len,
                                         qos |-> IF job.own THEN f.qos % 4 ELSE f.qos])
              /\ written' = written + f.len + 2 + QosByte(job)
              /\ UNCHANGED at
    /\ UNCHANGED <<job, room, counts, parseVars, arrayVars, lengthVars>>

FiltersDone ==
    /\ at = "items" /\ Filters /\ Len(items) = Len(job.filters)
    /\ at' = "built"
    /\ UNCHANGED <<job, buildVars, parseVars, arrayVars, lengthVars>>

(* The values are looked at one by one as they are written.                *)
BuildValues ==
    /\ at = "items" /\ job.kind = "SUBACK"
    /\ \/ /\ job.own => job.bad = 0
          /\ written' = written + job.values
          /\ at' = "built"
       \/ /\ job.own /\ job.bad > 0
          /\ written' = written + job.bad - 1
          /\ at' = "refused"
    /\ UNCHANGED <<job, room, counts, items, parseVars, arrayVars, lengthVars>>

(* Topic, identifier and payload; the model stops when they go past the    *)
(* end of the caller's buffer.                                             *)
BuildPublish ==
    /\ at = "items" /\ job.kind = "PUBLISH"
    /\ written' = written + PublishLen(job)
    /\ items' = <<[off |-> written, len |-> job.topic, qos |-> 0]>>
    /\ at' = IF written' > room THEN "overrun" ELSE "built"
    /\ UNCHANGED <<job, room, counts, parseVars, arrayVars, lengthVars>>

-----------------------------------------------------------------------------
(* Parse                                                                   *)

(* The message as it was written goes to the parser.  remain_length_decode *)
(* is told how many bytes there are behind the first and reads no other.   *)
(* A message whose length field wrapped is not followed any further.       *)
ParseLength ==
    /\ at = "built" /\ written = Need
    /\ LET n == Cut(written - 1)
       IN  /\ given' = n /\ asked' = n /\ encode_len' = n
           /\ \E filler \in Fillers :
                 buffer' = [k \in 1..FieldMax |->
                               IF k > n THEN 0
                               ELSE IF k <= Len(encode) THEN encode[k] ELSE filler]
    /\ length' = 0 /\ index' = 0 /\ base' = 1 /\ pc' = "decode"
    /\ at' = "decode"
    /\ UNCHANGED <<job, buildVars, parseVars, arrayVars, input, encode>>

(* Mutation: a PUBLISH without a byte to spare is refused.                 *)
LengthFitsStrict(left) == IF job.kind = "PUBLISH" THEN length < left ELSE length = left

LengthFits(left) == IF job.kind = "PUBLISH" THEN length <= left ELSE length = left

(* Mutation: the parser steps over the identifier without counting it.     *)
BehindIdentifierUncounted(left) == left

BehindIdentifier(left) == left - IdentifierLen

(* Behind the length field: the identifier, and the empty first node of    *)
(* the list of filters, which is left as malloc gives it.                  *)
ParseHeader ==
    /\ at = "decode" /\ pc = "decoded"
    /\ LET left == written - 1 - encode_len
       IN  /\ place' = 1 + encode_len + IdentifierLen
           /\ rest' = BehindIdentifier(left)
           /\ \/ /\ ~LengthFits(left)
                 /\ at' = "unread" /\ UNCHANGED nodes
              \/ /\ LengthFits(left) /\ job.kind = "SUBACK"
                 /\ at' = "array" /\ UNCHANGED nodes
              \/ /\ LengthFits(left) /\ job.kind = "PUBLISH"
                 /\ at' = "publish" /\ UNCHANGED nodes
              \/ /\ LengthFits(left) /\ Filters
                 /\ \/ at' = "filters" /\ nodes' = 1
                    \/ at' = "no memory" /\ UNCHANGED nodes
    /\ UNCHANGED <<job, buildVars, result, list, exitVars, arrayVars, lengthVars>>

(* The string that stands where the parser has got to.                     *)
Standing == {k \in DOMAIN items : items[k].off = place}

(* The error exits of the loop over the filters; what was allocated for    *)
(* this turn has been freed.                                               *)
Fail(reason) ==
    /\ at' = "exit" /\ ret' = reason /\ cur' = 0
    /\ UNCHANGED <<place, rest, result, list, nodes>>

QosFits(q) == q < QosMax

(* One turn of the loop over the filters, or its error exits.              *)
ParseFilter ==
    /\ at = "filters" /\ rest > 0 /\ Standing # {}
    /\ \E k \in Standing :
          \/ /\ job.kind = "SUBSCRIBE" => QosFits(items[k].qos)
             /\ result' = Append(result, [len |-> items[k].len, qos |-> items[k].qos])
             /\ nodes' = nodes + 1
             /\ place' = place + items[k].len + 2 + QosByte(job)
             /\ rest' = rest - (items[k].len + 2 + QosByte(job))
             /\ UNCHANGED <<at, list, exitVars>>
          \/ /\ job.kind = "SUBSCRIBE" /\ ~QosFits(items[k].qos)
             /\ Fail("message error")
    /\ UNCHANGED <<job, buildVars, arrayVars, lengthVars>>

FilterNoMemory ==
    /\ at = "filters" /\ rest > 0
    /\ Fail("no buffer")
    /\ UNCHANGED <<job, buildVars, arrayVars, lengthVars>>

(* Mutation: the walk stops before the node whose next is NULL.            *)
IsLastEarly == cur + 1 >= Len(result)

IsLast == cur = Len(result)

(* One turn of the loop behind _exit: the next of a node is read, the node *)
(* freed.  The next of the last filter is NULL; that of the first node is  *)
(* what malloc left there as long as no filter is linked to it, and the    *)
(* walk then ends or goes anywhere.                                        *)
ExitNode ==
    /\ at = "exit"
    /\ nodes' = nodes - 1
    /\ list' = "dangling"
    /\ \/ ~IsLast /\ cur' = cur + 1 /\ UNCHANGED at
       \/ IsLast /\ at' = "failed" /\ UNCHANGED cur
       \/ cur = 0 /\ result = <<>> /\ at' = "wild" /\ UNCHANGED cur
    /\ UNCHANGED <<job, buildVars, place, rest, result, ret, arrayVars, lengthVars>>

(* The first node is freed and the list begins with its next, which was    *)
(* never set when there is no filter in the message.                       *)
FiltersParsed ==
    /\ at = "filters" /\ rest = 0
    /\ nodes' = nodes - 1
    /\ list' = IF result = <<>> THEN "wild" ELSE "list"
    /\ at' = "parsed"
    /\ UNCHANGED <<job, buildVars, place, rest, result, exitVars, arrayVars, lengthVars>>

(* topic_filter_release, by the caller.                                    *)
ReleaseFilters ==
    /\ at = "parsed" /\ list = "list"
    /\ nodes' = nodes - Len(result)
    /\ list' = "dangling"
    /\ at' = "released"
    /\ UNCHANGED <<job, buildVars, place, rest, result, exitVars, arrayVars, lengthVars>>

(* The payload is what is left.                                            *)
ParsePublish ==
    /\ at = "publish" /\ Standing # {}
    /\ \E k \in Standing :
          LET left == rest - (items[k].len + 2) - IdBytes(job)
          IN  /\ result' = <<[topic |-> items[k].len, payload |-> left]>>
              /\ rest' = left
              /\ place' = place + items[k].len + 2 + IdBytes(job)
    /\ at' = "parsed"
    /\ UNCHANGED <<job, buildVars, list, nodes, exitVars, arrayVars, lengthVars>>

-----------------------------------------------------------------------------
Build == CountFilter \/ CountDone \/ CheckRoom \/ BuildFilter \/ FiltersDone
             \/ BuildValues \/ BuildPublish

Parse == ParseLength \/ ParseHeader \/ ParseFilter \/ FilterNoMemory
             \/ ExitNode \/ FiltersParsed \/ ReleaseFilters \/ ParsePublish

Array == ArrayInit \/ ArrayFill \/ ArrayGrow \/ ArrayDone

MessageNext == LengthStep \/ LengthAlone \/ Build \/ Parse \/ Array

MessageSpec == MessageInit /\ [][MessageNext]_allVars

-----------------------------------------------------------------------------
InArray == at \in {"append", "values"}

(* Types, and: the parser's place and its count of what is left agree with *)
(* the message all along, and it takes for a string only what was written  *)
(* as one (msg_subscribe.c:127-187, msg_publish.c:171-209).                *)
MessageTypeOK ==
    /\ job \in JobType
    /\ at \in {"init", "append", "count", "encode", "items", "built", "refused", "overrun",
              "decode", "unread", "filters", "publish", "array", "values", "parsed",
              "released", "exit", "failed", "wild", "no memory", "bad qos", "out of array"}
    /\ room \in Int /\ written \in Nat
    /\ place \in Nat /\ rest \in Nat
    /\ list \in {"unset", "list", "dangling", "wild"}
    /\ ret \in {"success", "message error", "no buffer"} /\ cur \in Nat
    /\ nodes \in Nat /\ capacity \in 0..(U16 - 1) /\ size \in 0..U16
    /\ at \in {"filters", "publish", "array", "parsed"} /\ job.kind # "SUBACK" =>
          place + rest = written
    /\ (at = "filters" /\ rest > 0) \/ at = "publish" => Standing # {}

(* Length, room and bytes are counted in three places; they agree: no      *)
(* build writes behind the caller's buffer, and a SUBSCRIBE always finds   *)
(* room in what subscribe_message_len_calc asked for.  The exception is a  *)
(* PUBLISH whose length does not go into 16 bits (msg_publish.c:48,78).    *)
BufferFits ==
    LET short == job.kind = "PUBLISH" => PublishLen(job) < U16
    IN  /\ at = "overrun" => ~short
        /\ at \in {"items", "built"} /\ job.own => written <= room
        /\ at = "built" /\ short => written = Need
        /\ at = "refused" /\ job.kind = "SUBSCRIBE" =>
              \E k \in DOMAIN job.filters : job.filters[k].null

(* What a parse accepts is what was built: every filter with its QoS, the  *)
(* topic and the payload, the QoS values; and of what this library builds  *)
(* the parser takes one thing for malformed, a SUBSCRIBE with a filter     *)
(* whose QoS the build cut to 3 instead of refusing it                     *)
(* (msg_subscribe.c:91 and 112-204, msg_unsubscribe.c:82-163,              *)
(* msg_suback.c:156-211, msg_publish.c:140-212).                           *)
ParsedIsBuilt ==
    /\ at # "unread"
    /\ at = "bad qos" => ~job.own
    /\ ret = "message error" => job.kind = "SUBSCRIBE"
    /\ ret = "message error" /\ job.own =>
          \E k \in DOMAIN job.filters : job.filters[k].qos % 4 = QosMax
    /\ at \in {"parsed", "released"} =>
          CASE Filters ->
                 /\ Len(result) = Len(job.filters)
                 /\ \A k \in DOMAIN result :
                       /\ result[k].len = job.filters[k].len
                       /\ job.kind = "SUBSCRIBE" => result[k].qos = job.filters[k].qos % 4
            [] job.kind = "PUBLISH" ->
                 result = <<[topic |-> job.topic, payload |-> job.payload]>>
            [] job.kind = "SUBACK" -> size = job.values /\ job.bad = 0

(* The nodes of the list: after a parse the caller has those of the        *)
(* filters and can give them back; after an error none is left.  The next  *)
(* of the first node is read before it was set in two cases: an error at   *)
(* the first filter, and a message without any, which no build makes       *)
(* (msg_subscribe.c:149-203, msg_unsubscribe.c:118-162).                   *)
FiltersReturned ==
    /\ at = "parsed" /\ Filters => nodes = Len(result)
    /\ at \in {"failed", "released", "wild"} => nodes = 0
    /\ at = "wild" => result = <<>>
    /\ list = "wild" => ~job.own /\ job.filters = <<>>

(* No value is written behind the array before it has 65526 of them,       *)
(* whatever capacity it was made with.  A parse makes the array large      *)
(* enough at once for up to 65535 values, so that it never grows it; from  *)
(* 65536 on suback_data_init is asked for less than is needed, and what    *)
(* grows from there never gets to the end (msg_suback.c:14-59, 193-208).   *)
InCapacity ==
    /\ at = "out of array" => size > U16 - DefaultSize
    /\ at = "out of array" /\ written > 0 => job.values >= U16
    /\ InArray => size <= capacity
    /\ at = "values" /\ rest < U16 => rest <= capacity
    /\ at = "parsed" /\ job.kind = "SUBACK" => job.values < U16
=============================================================================
