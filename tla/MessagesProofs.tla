--------------------------- MODULE MessagesProofs ---------------------------
(***************************************************************************)
(* Proofs about Messages, for every set of jobs: lists of filters of any   *)
(* length, strings of any length, any number of QoS values.                *)
(*                                                                         *)
(* The sums over the filters need no induction: counts keeps what the      *)
(* counting loop had after each turn, and the build's place and the        *)
(* parser's place are compared with it.                                    *)
(***************************************************************************)
EXTENDS Messages, RemainLengthProofs

Early == {"init", "append", "count", "encode"}
Parsing == {"filters", "publish", "array", "values", "parsed", "released", "exit",
            "failed", "wild", "bad qos"}
Built == {"built", "decode"} \cup Parsing

Num == Len(job.filters)
Counted(c, k) == IF k = 0 THEN 2 ELSE c[k]
Start == 1 + Len(encode)

Places ==
    /\ job \in Jobs
    /\ at \in Early \cup Built
                \cup {"items", "refused", "overrun", "unread", "no memory", "out of array"}
    /\ at \in {"init", "append", "count"} => pc = "encode" /\ encode = <<>> /\ length = input
    /\ at \in {"items", "built", "refused", "overrun"} => pc = "sent"
    /\ at = "encode" /\ job.kind # "length" => pc \in {"encode", "sent", "refused"}
    /\ at = "decode" => pc \in {"decode", "decoded"}
    /\ at \in Parsing => pc = "decoded"
    /\ job.kind = "length" => at = "encode"
    /\ at \in {"init", "append"} => job.kind = "SUBACK"
    /\ at = "overrun" => job.kind = "PUBLISH"

CountsInv ==
    IF Filters
    THEN /\ counts \in Seq(Nat) /\ Len(counts) <= Num
         /\ at # "count" => Len(counts) = Num
         /\ input = Counted(counts, Len(counts))
         /\ \A k \in 1..Len(counts) :
               counts[k] = Counted(counts, k - 1) + Width(job, job.filters[k])
         /\ \A i, j \in 0..Len(counts) : i < j => Counted(counts, i) < Counted(counts, j)
         /\ job.kind = "SUBSCRIBE" => room = input + 5
    ELSE /\ at # "count"
         /\ job.kind # "length" => input = RemainLen(job)

ItemType == [off : Nat, len : Nat, qos : Nat]

Item(j, start, c, k) ==
    [off |-> start + Counted(c, k - 1), len |-> j.filters[k].len,
     qos |-> IF j.own THEN j.filters[k].qos % 4 ELSE j.filters[k].qos]

ItemsInv ==
    /\ at \in Early => items = <<>>
    /\ Filters =>
          /\ items \in Seq(ItemType) /\ Len(items) <= Num
          /\ \A k \in 1..Len(items) : items[k] = Item(job, Start, counts, k)
          /\ at = "items" => written = Start + Counted(counts, Len(items))
          /\ at \in Built => Len(items) = Num
    /\ job.kind = "PUBLISH" =>
          /\ at = "items" => written = Start
          /\ at \in Built => written = Start + PublishLen(job)
          /\ at = "overrun" => PublishLen(job) >= U16
          /\ at \in Built =>
                items = <<[off |-> Start, len |-> job.topic, qos |-> 0]>>
    /\ job.kind = "SUBACK" =>
          /\ at = "items" => written = Start + 2
          /\ at \in Built /\ job.own => job.bad = 0
    /\ at \in Built /\ (job.kind = "PUBLISH" => at # "built") => written = Need
    /\ at = "items" => Need <= room
    /\ at = "built" => written <= room
    /\ at = "refused" /\ job.kind = "SUBSCRIBE" => \E k \in 1..Num : job.filters[k].null
    /\ written \in Nat /\ room \in Int

Same ==
    /\ result \in Seq([len : Nat, qos : Nat])
    /\ \A k \in 1..Len(result) :
          /\ result[k].len = job.filters[k].len
          /\ job.kind = "SUBSCRIBE" => result[k].qos = job.filters[k].qos % 4

PublishRead ==
    at = "parsed" /\ job.kind = "PUBLISH" =>
        /\ result = <<[topic |-> job.topic, payload |-> job.payload]>>
        /\ place + rest = written

ParseInv ==
    /\ at # "unread"
    /\ at \in Parsing => encode_len = Len(encode) /\ length = input
    /\ at \in Early \cup {"items", "built", "decode"} => result = <<>> /\ list = "unset"
    /\ at \in {"filters", "exit", "failed", "wild", "released"} => Filters
    /\ at \in {"array", "values", "bad qos"} => job.kind = "SUBACK"
    /\ at = "publish" => job.kind = "PUBLISH" /\ place = Start /\ rest = input
    /\ at = "filters" =>
          /\ Same /\ Len(result) <= Num
          /\ place = Start + Counted(counts, Len(result)) /\ rest = Need - place
          /\ nodes = Len(result) + 1 /\ list = "unset"
    /\ at \in {"parsed", "released"} /\ Filters =>
          Same /\ Len(result) = Num /\ place + rest = written
    /\ at = "parsed" /\ Filters => nodes = Len(result)
    /\ PublishRead
    /\ at \in {"failed", "wild", "released"} => nodes = 0
    /\ at = "wild" => result = <<>>
    /\ at = "decode" => given >= Len(encode) /\ asked >= Len(encode)
    /\ list # "unset" => Filters
    /\ list = "wild" => Num = 0
    /\ list \in {"unset", "list", "dangling", "wild"}
    /\ nodes \in Nat /\ place \in Nat /\ rest \in Nat

ArrayInv ==
    /\ capacity \in Nat /\ capacity < U16 /\ size \in Nat /\ size <= U16
    /\ InArray => capacity >= 1 /\ size <= capacity /\ size <= Good
    /\ at \in {"array", "values"} => rest = job.values
    /\ at = "values" /\ rest < U16 => rest <= capacity
    /\ at = "out of array" => size > U16 - DefaultSize
    /\ at = "out of array" => written = 0 \/ job.values >= U16
    /\ at \in {"init", "append"} => written = 0
    /\ at = "parsed" /\ job.kind = "SUBACK" =>
          size = job.values /\ job.bad = 0 /\ job.values < U16
    /\ at = "bad qos" => ~job.own

(* Of the walk behind _exit: the nodes before cur have been freed.         *)
ExitInv ==
    /\ ret \in {"success", "message error", "no buffer"} /\ cur \in Nat
    /\ ret = "message error" => job.kind = "SUBSCRIBE"
    /\ ret = "message error" /\ job.own =>
          \E k \in 1..Num : job.filters[k].qos % 4 = QosMax
    /\ at = "exit" => /\ Len(result) \in Nat /\ cur <= Len(result)
                     /\ nodes = Len(result) + 1 - cur

MessageInv ==
    Places /\ FieldInv /\ CountsInv /\ ItemsInv /\ ParseInv /\ ArrayInv /\ ExitInv

-----------------------------------------------------------------------------
LEMMA U16Nat == U16 \in Nat
  BY DEF U16

(* What the assumption says of one job.                                    *)
LEMMA JobFacts ==
    ASSUME NEW j \in Jobs
    PROVE  /\ j.kind \in {"length", "SUBSCRIBE", "UNSUBSCRIBE", "SUBACK", "PUBLISH"}
           /\ j.own \in BOOLEAN /\ j.slack \in Int /\ ~j.own => j.slack = 0
           /\ j.filters \in Seq(Filter) /\ Len(j.filters) \in Nat
           /\ \A k \in 1..Len(j.filters) : j.filters[k] \in Filter
           /\ j.values \in Nat /\ j.capacity \in 0..(U16 - 1)
           /\ j.bad \in 0..j.values
           /\ j.topic \in Nat /\ j.payload \in Nat /\ j.qos \in 0..2
           /\ j.kind \in {"SUBSCRIBE", "UNSUBSCRIBE"} /\ j.own => j.filters # <<>>
  <1>1. j \in JobType
    BY JobAssumption
  <1>6. j.bad <= j.values /\ j.capacity < U16
    BY JobAssumption
  <1>2. /\ j.kind \in {"SUBSCRIBE", "UNSUBSCRIBE"} /\ j.own => j.filters # <<>>
        /\ ~j.own => j.slack = 0
    BY JobAssumption
  <1>3. /\ j.filters \in Seq(Filter) /\ j.values \in Nat /\ j.capacity \in Nat
        /\ j.bad \in Nat
    BY <1>1 DEF JobType
  <1>4. Len(j.filters) \in Nat /\ \A k \in 1..Len(j.filters) : j.filters[k] \in Filter
    BY <1>3
  <1>5. /\ j.capacity \in 0..(U16 - 1)
        /\ j.bad \in 0..j.values
    <2>1. ASSUME NEW v \in Nat, v < U16 PROVE v \in 0..(U16 - 1)
      BY <2>1, U16Nat
    <2>2. ASSUME NEW v \in Nat, NEW b \in Nat, b <= v PROVE b \in 0..v
      BY <2>2
    <2>. QED
      BY <1>3, <1>6, <2>1, <2>2
  <1>. QED
    BY <1>1, <1>2, <1>3, <1>4, <1>5 DEF JobType

LEMMA WidthFacts ==
    ASSUME NEW j \in Jobs, NEW k \in 1..Len(j.filters)
    PROVE  /\ j.filters[k].len \in Nat /\ j.filters[k].qos \in Nat
           /\ QosByte(j) \in 0..1
           /\ Width(j, j.filters[k]) = j.filters[k].len + 2 + QosByte(j)
           /\ Width(j, j.filters[k]) \in Nat \ {0}
           /\ j.kind = "SUBSCRIBE" => CalcWidth(j.filters[k]) = Width(j, j.filters[k])
  <1>1. j.filters[k] \in Filter
    BY JobFacts
  <1>. QED
    BY <1>1 DEF Filter, Width, QosByte, CalcWidth

LEMMA RemainFacts ==
    ASSUME NEW j \in Jobs, j.kind # "length"
    PROVE  /\ RemainLen(j) \in Nat
           /\ IdBytes(j) \in {0, 2}
           /\ PublishLen(j) \in Nat
           /\ PublishLen(j) = j.topic + 2 + IdBytes(j) + j.payload
           /\ j.kind \in {"SUBSCRIBE", "UNSUBSCRIBE"} => RemainLen(j) = 2
           /\ j.kind = "SUBACK" => RemainLen(j) = 2 + j.values
           /\ j.kind = "PUBLISH" => RemainLen(j) = PublishLen(j) % U16
  <1>1. IdBytes(j) \in {0, 2}
    BY DEF IdBytes
  <1>2. PublishLen(j) \in Nat /\ PublishLen(j) = j.topic + 2 + IdBytes(j) + j.payload
    BY <1>1, JobFacts DEF PublishLen
  <1>3. /\ j.kind \in {"SUBSCRIBE", "UNSUBSCRIBE"} => RemainLen(j) = 2
        /\ j.kind = "SUBACK" => RemainLen(j) = 2 + j.values
        /\ j.kind = "PUBLISH" => RemainLen(j) = PublishLen(j) % U16
    BY DEF RemainLen
  <1>4. j.values \in Nat /\ j.kind \in {"SUBSCRIBE", "UNSUBSCRIBE", "SUBACK", "PUBLISH"}
    BY JobFacts
  <1>5. PublishLen(j) % U16 \in Nat
    BY <1>2 DEF U16
  <1>. QED
    BY <1>1, <1>2, <1>3, <1>4, <1>5

LEMMA MessageStart == MessageInit => MessageInv
  <1>. SUFFICES ASSUME MessageInit PROVE MessageInv
    OBVIOUS
  <1>1. job \in Jobs
    BY DEF MessageInit
  <1>2. input \in Nat /\ length = input /\ pc = "encode" /\ encode = <<>>
    <2>1. CASE job.kind = "length"
      BY <2>1, LengthAssumption DEF MessageInit
    <2>2. CASE job.kind # "length"
      BY <1>1, <2>2, RemainFacts DEF MessageInit
    <2>. QED
      BY <2>1, <2>2 DEF MessageInit
  <1>3. FieldInv
    <2>1. TypeOK
      BY <1>2 DEF MessageInit, TypeOK, Byte, Zeros, FieldMax
    <2>2. input \div Weight[0] = input
      BY <1>2, WeightNat
    <2>. QED
      BY <1>2, <2>1, <2>2 DEF MessageInit, FieldInv, Digits, Writing, ShortestField,
                        Received, Reading, RoundTrip, Truncated, FieldMax
  <1>4. Places
    BY <1>1, <1>2, JobFacts DEF MessageInit, Places, Early, Built, Parsing, Filters
  <1>5. CountsInv
    <2>1. Len(counts) = 0 /\ counts \in Seq(Nat) /\ Num \in Nat
      BY <1>1, JobFacts DEF MessageInit, Num
    <2>. QED
      BY <1>1, <2>1, RemainFacts DEF MessageInit, CountsInv, Filters, Counted, CalcStart, Num
  <1>6. ItemsInv
    <2>1. Len(items) = 0 /\ items \in Seq(ItemType) /\ Num \in Nat
      BY <1>1, JobFacts DEF MessageInit, Num
    <2>2. at \in Early /\ items = <<>> /\ written = 0 /\ room = 7
      BY DEF MessageInit, Early, CalcStart
    <2>3. at \notin Built /\ at \notin {"items", "built", "overrun", "refused"}
      BY <2>2 DEF Early, Built, Parsing
    <2>. QED
      BY <2>1, <2>2, <2>3 DEF ItemsInv
  <1>7. ParseInv /\ ArrayInv
    BY DEF MessageInit, ParseInv, PublishRead, ArrayInv, Early, Parsing, InArray, U16
  <1>8. ExitInv
    BY DEF MessageInit, ExitInv, Filters
  <1>. QED
    BY <1>3, <1>4, <1>5, <1>6, <1>7, <1>8 DEF MessageInv

-----------------------------------------------------------------------------
(* The length field: its steps are those of RemainLength, except that the  *)
(* length is counted first and that a parse is told how much there is.     *)

LEMMA WholeLength ==
    ASSUME NEW n \in Nat
    PROVE  n \div Weight[0] = n
  BY WeightNat

LEMMA FieldCount ==
    ASSUME MessageInv, CountFilter
    PROVE  FieldInv'
  <1>. DEFINE f == job.filters[Len(counts) + 1]
  <1>1. /\ at = "count" /\ Len(counts) < Len(job.filters)
        /\ input' = input + Width(job, f) /\ length' = input'
        /\ UNCHANGED <<pc, encode, given, asked, buffer, encode_len, index, base>>
    BY DEF CountFilter, decodeVars
  <1>2. pc = "encode" /\ encode = <<>> /\ job \in Jobs /\ Filters
    BY <1>1 DEF MessageInv, Places, CountsInv
  <1>3. counts \in Seq(Nat)
    BY <1>2 DEF MessageInv, CountsInv
  <1>4. Len(counts) + 1 \in 1..Len(job.filters)
    BY <1>1, <1>2, <1>3, JobFacts
  <1>5. Width(job, f) \in Nat
    BY <1>2, <1>4, WidthFacts
  <1>6. input \in Nat
    BY DEF MessageInv, FieldInv, TypeOK
  <1>7. input' \in Nat /\ length' = input'
    BY <1>1, <1>5, <1>6
  <1>8. TypeOK'
    BY <1>1, <1>2, <1>7 DEF MessageInv, FieldInv, TypeOK
  <1>9. input' \div Weight[0] = input'
    BY <1>7, WholeLength
  <1>10. encode' = <<>> /\ Len(encode') = 0 /\ pc' = "encode"
    BY <1>1, <1>2
  <1>11. Digits' /\ Writing'
    BY <1>7, <1>9, <1>10 DEF Digits, Writing, FieldMax
  <1>. QED
    BY <1>8, <1>10, <1>11 DEF FieldInv, ShortestField, Received, Reading, RoundTrip, Truncated

LEMMA FieldParse ==
    ASSUME MessageInv, ParseLength
    PROVE  FieldInv'
  <1>. USE DEF FieldMax
  <1>1. /\ pc = "sent" /\ pc' = "decode" /\ length' = 0 /\ index' = 0 /\ base' = 1
        /\ input' = input /\ encode' = encode /\ input \in Nat
        /\ Len(encode) \in 1..4 /\ encode \in Seq(Byte)
    BY DEF MessageInv, Places, FieldInv, ParseLength, TypeOK, ShortestField
  <1>2. PICK n \in 0..4, filler \in Fillers :
          /\ given' = n /\ asked' = n /\ encode_len' = n
          /\ buffer' = [k \in 1..4 |->
                            IF k > n THEN 0
                            ELSE IF k <= Len(encode) THEN encode[k] ELSE filler]
    <2>1. written = 1 + Len(encode) + input
      BY DEF ParseLength, Need
    <2>2. Cut(written - 1) \in 0..4
      BY <1>1, <2>1 DEF Cut
    <2>. QED
      BY <2>2 DEF ParseLength
  <1>3. ASSUME NEW k \in 1..4
        PROVE  buffer'[k] \in Byte
    <2>1. k <= Len(encode) => encode[k] \in Byte
      BY <1>1
    <2>2. filler \in Byte /\ 0 \in Byte
      BY <1>2, LengthAssumption DEF Byte
    <2>. QED
      BY <1>2, <2>1, <2>2
  <1>4. TypeOK'
    BY <1>1, <1>2, <1>3 DEF MessageInv, FieldInv, TypeOK
  <1>5. Received'
    BY <1>1, <1>2 DEF Received
  <1>6. Reading'
    <2>1. input % Weight[0] = 0
      BY <1>1, WeightNat
    <2>2. Seen' >= 0
      BY <1>2 DEF Seen
    <2>3. index' < Len(encode') /\ index' <= Seen'
      BY <1>1, <2>2
    <2>. QED
      BY <1>1, <2>1, <2>3, WeightNat DEF Reading
  <1>7. Digits' /\ Writing' /\ ShortestField'
    BY <1>1 DEF MessageInv, FieldInv, Digits, Writing, ShortestField
  <1>. QED
    BY <1>1, <1>4, <1>5, <1>6, <1>7 DEF FieldInv, RoundTrip, Truncated

LEMMA FieldKept ==
    ASSUME FieldInv, UNCHANGED lengthVars
    PROVE  FieldInv'
  <1>1. UNCHANGED vars
    BY DEF lengthVars, decodeVars, vars
  <1>. QED
    BY <1>1, FieldStutter

LEMMA FieldSteps ==
    ASSUME MessageInv, [MessageNext]_allVars
    PROVE  FieldInv'
  <1>1. FieldInv
    BY DEF MessageInv
  <1>2. CASE LengthStep \/ LengthAlone
    BY <1>1, <1>2, EncodeStep, DeliverStep, DecodeStep, ReturnStep DEF LengthStep, LengthAlone
  <1>3. CASE CountFilter
    BY <1>3, FieldCount
  <1>4. CASE ParseLength
    BY <1>4, FieldParse
  <1>5. CASE CountDone \/ CheckRoom \/ BuildFilter \/ FiltersDone \/ BuildValues
                 \/ BuildPublish
    <2>1. UNCHANGED lengthVars
      BY <1>5 DEF CountDone, CheckRoom, BuildFilter, FiltersDone, BuildValues, BuildPublish
    <2>. QED
      BY <1>1, <2>1, FieldKept
  <1>6. CASE ParseHeader \/ ParseFilter \/ FilterNoMemory \/ ExitNode \/ FiltersParsed
                 \/ ReleaseFilters \/ ParsePublish
    <2>1. UNCHANGED lengthVars
      BY <1>6 DEF ParseHeader, ParseFilter, FilterNoMemory, ExitNode, FiltersParsed,
                  ReleaseFilters, ParsePublish
    <2>. QED
      BY <1>1, <2>1, FieldKept
  <1>7. CASE Array
    <2>1. UNCHANGED lengthVars
      BY <1>7 DEF Array, ArrayInit, ArrayFill, ArrayGrow, ArrayDone
    <2>. QED
      BY <1>1, <2>1, FieldKept
  <1>8. CASE UNCHANGED allVars
    BY <1>1, <1>8, FieldKept DEF allVars
  <1>. QED
    BY <1>2, <1>3, <1>4, <1>5, <1>6, <1>7, <1>8 DEF MessageNext, Build, Parse

-----------------------------------------------------------------------------
(* Where build and parse are.                                              *)

LEMMA PlacesBuild ==
    ASSUME Places, Build
    PROVE  Places'
  <1>. USE DEF Places, Early, Built, Parsing, lengthVars
  <1>1. CASE CountFilter
    BY <1>1 DEF CountFilter, Filters
  <1>2. CASE CountDone
    BY <1>2 DEF CountDone
  <1>3. CASE CheckRoom
    BY <1>3 DEF CheckRoom
  <1>4. CASE BuildFilter
    BY <1>4 DEF BuildFilter
  <1>5. CASE FiltersDone
    BY <1>5 DEF FiltersDone
  <1>6. CASE BuildValues
    BY <1>6 DEF BuildValues
  <1>7. CASE BuildPublish
    BY <1>7 DEF BuildPublish
  <1>. QED
    BY <1>1, <1>2, <1>3, <1>4, <1>5, <1>6, <1>7 DEF Build

LEMMA PlacesParse ==
    ASSUME Places, Parse
    PROVE  Places'
  <1>. USE DEF Places, Early, Built, Parsing, lengthVars
  <1>1. CASE ParseLength
    BY <1>1 DEF ParseLength
  <1>2. CASE ParseHeader
    BY <1>2 DEF ParseHeader
  <1>3. CASE ParseFilter
    <2>1. at = "filters" /\ UNCHANGED <<job, pc, encode, length, input>>
      BY <1>3 DEF ParseFilter
    <2>2. at' \in {"filters", "exit"}
      BY <1>3 DEF ParseFilter, Fail
    <2>. QED
      BY <2>1, <2>2
  <1>4. CASE FilterNoMemory
    <2>1. at = "filters" /\ UNCHANGED <<job, pc, encode, length, input>>
      BY <1>4 DEF FilterNoMemory
    <2>2. at' = "exit"
      BY <1>4 DEF FilterNoMemory, Fail
    <2>. QED
      BY <2>1, <2>2
  <1>5. CASE FiltersParsed
    BY <1>5 DEF FiltersParsed
  <1>6. CASE ReleaseFilters
    BY <1>6 DEF ReleaseFilters
  <1>7. CASE ParsePublish
    BY <1>7 DEF ParsePublish
  <1>8. CASE ExitNode
    BY <1>8 DEF ExitNode
  <1>. QED
    BY <1>1, <1>2, <1>3, <1>4, <1>5, <1>6, <1>7, <1>8 DEF Parse

LEMMA PlacesArray ==
    ASSUME Places, Array
    PROVE  Places'
  <1>. USE DEF Places, Early, Built, Parsing, lengthVars
  <1>1. CASE ArrayInit
    BY <1>1 DEF ArrayInit
  <1>2. CASE ArrayFill
    BY <1>2 DEF ArrayFill
  <1>3. CASE ArrayGrow
    BY <1>3 DEF ArrayGrow
  <1>4. CASE ArrayDone
    BY <1>4 DEF ArrayDone
  <1>. QED
    BY <1>1, <1>2, <1>3, <1>4 DEF Array

LEMMA PlacesSteps ==
    ASSUME MessageInv, [MessageNext]_allVars
    PROVE  Places'
  <1>0. Places
    BY DEF MessageInv
  <1>1. CASE LengthStep
    <2>1. at \in {"encode", "decode"} /\ UNCHANGED <<job, at>>
      BY <1>1 DEF LengthStep, messageVars
    <2>2. at = "encode" => job.kind = "length" \/ pc' \in {"encode", "sent", "refused"}
      BY <1>0, <1>1 DEF LengthStep, Places, EncodeByte, DecodeByte, DecodeReturns
    <2>3. at = "decode" => pc' \in {"decode", "decoded"}
      BY <1>0, <1>1 DEF LengthStep, Places, EncodeByte, DecodeByte, DecodeReturns
    <2>. QED
      BY <1>0, <2>1, <2>2, <2>3 DEF Places, Parsing
  <1>2. CASE LengthAlone
    BY <1>0, <1>2 DEF LengthAlone, messageVars, Places, Parsing
  <1>3. CASE UNCHANGED allVars
    BY <1>0, <1>3 DEF allVars, messageVars, lengthVars, Places, Early, Built, Parsing
  <1>. QED
    BY <1>0, <1>1, <1>2, <1>3, PlacesBuild, PlacesParse, PlacesArray DEF MessageNext

-----------------------------------------------------------------------------
(* What the counting loops have counted.                                   *)

LEMMA CountFilterStep ==
    ASSUME MessageInv, CountFilter
    PROVE  CountsInv'
  <1>0. PICK n \in Nat : n = Len(counts)
    <2>1. Filters
      BY DEF MessageInv, CountsInv, CountFilter
    <2>. QED
      BY <2>1 DEF MessageInv, CountsInv
  <1>. DEFINE f == job.filters[n + 1]
              w == Width(job, f)
  <1>1. /\ at = "count" /\ n < Len(job.filters) /\ at' = at /\ job' = job
        /\ input' = input + w /\ counts' = Append(counts, input')
        /\ room' = room + CalcWidth(f)
    BY <1>0 DEF CountFilter
  <1>2. /\ job \in Jobs /\ Filters /\ counts \in Seq(Nat) /\ n <= Num /\ input = Counted(counts, n)
        /\ \A k \in 1..n : counts[k] = Counted(counts, k - 1) + Width(job, job.filters[k])
        /\ \A i, j \in 0..n : i < j => Counted(counts, i) < Counted(counts, j)
        /\ job.kind = "SUBSCRIBE" => room = input + 5
    BY <1>0, <1>1 DEF MessageInv, Places, CountsInv
  <1>3. n + 1 \in 1..Num /\ Num = Len(job.filters)
    BY <1>1, <1>2, JobFacts DEF Num
  <1>4. w \in Nat \ {0} /\ (job.kind = "SUBSCRIBE" => CalcWidth(f) = w)
    BY <1>2, <1>3, WidthFacts
  <1>5. input \in Nat /\ input' \in Nat
    BY <1>1, <1>4 DEF MessageInv, FieldInv, TypeOK
  <1>6. /\ counts' \in Seq(Nat) /\ Len(counts') = n + 1
        /\ counts'[n + 1] = input'
        /\ \A k \in 1..n : counts'[k] = counts[k] /\ counts[k] \in Nat
    BY <1>0, <1>1, <1>2, <1>5
  <1>7. ASSUME NEW k \in 0..n PROVE Counted(counts', k) = Counted(counts, k) /\ Counted(counts, k) \in Nat
    BY <1>6 DEF Counted
  <1>8. Counted(counts', n + 1) = input'
    BY <1>6 DEF Counted
  <1>9. ASSUME NEW k \in 1..(n + 1)
        PROVE  counts'[k] = Counted(counts', k - 1) + Width(job', job'.filters[k])
    <2>1. CASE k = n + 1
      <3>1. counts'[k] = Counted(counts, n) + w
        BY <1>1, <1>2, <1>6, <2>1
      <3>2. k - 1 = n /\ n \in 0..n
        BY <2>1
      <3>3. Counted(counts', k - 1) = Counted(counts, n)
        BY <1>7, <3>2
      <3>4. Width(job', job'.filters[k]) = w
        BY <1>1, <2>1
      <3>. QED
        BY <3>1, <3>3, <3>4
    <2>2. CASE k \in 1..n
      <3>1. k - 1 \in 0..n
        BY <2>2
      <3>. QED
        BY <1>1, <1>2, <1>6, <1>7, <2>2, <3>1
    <2>. QED
      BY <2>1, <2>2
  <1>10. ASSUME NEW i \in 0..(n + 1), NEW j \in 0..(n + 1), i < j
         PROVE  Counted(counts', i) < Counted(counts', j)
    <2>1. i \in 0..n
      BY <1>10
    <2>2. CASE j = n + 1
      <3>1. Counted(counts, i) <= Counted(counts, n)
        <4>1. CASE i = n
          BY <1>7, <4>1
        <4>2. CASE i < n
          BY <1>2, <1>7, <2>1, <4>2
        <4>. QED
          BY <2>1, <4>1, <4>2
      <3>2. Counted(counts, n) < input'
        BY <1>1, <1>2, <1>4, <1>5
      <3>3. Counted(counts, i) \in Nat /\ Counted(counts, n) \in Nat
        BY <1>7, <2>1
      <3>. QED
        BY <1>5, <1>7, <1>8, <2>1, <2>2, <3>1, <3>2, <3>3
    <2>3. CASE j \in 0..n
      BY <1>2, <1>7, <1>10, <2>1, <2>3
    <2>. QED
      BY <2>2, <2>3
  <1>11. job.kind = "SUBSCRIBE" => room' = input' + 5
    BY <1>1, <1>2, <1>4, <1>5
  <1>12. Filters' /\ Num' = Num
    BY <1>1, <1>2 DEF Filters, Num
  <1>13. /\ counts' \in Seq(Nat) /\ Len(counts') <= Num' /\ at' = "count"
         /\ input' = Counted(counts', Len(counts'))
    BY <1>1, <1>3, <1>6, <1>8, <1>12
  <1>14. \A k \in 1..Len(counts') :
            counts'[k] = Counted(counts', k - 1) + Width(job', job'.filters[k])
    BY <1>6, <1>9
  <1>15. \A i, j \in 0..Len(counts') : i < j => Counted(counts', i) < Counted(counts', j)
    BY <1>6, <1>10
  <1>. QED
    BY <1>1, <1>11, <1>12, <1>13, <1>14, <1>15 DEF CountsInv

(* Once counted, the counts stay.                                          *)
LEMMA CountsKept ==
    ASSUME CountsInv, UNCHANGED <<job, counts, input>>,
           job.kind = "SUBSCRIBE" => room' = room,
           at' = "count" => at = "count",
           at = "count" /\ at' # "count" /\ Filters => Len(counts) = Num
    PROVE  CountsInv'
  BY DEF CountsInv, Filters, Num, Counted, RemainLen, PublishLen, IdBytes

LEMMA CountsSteps ==
    ASSUME MessageInv, [MessageNext]_allVars
    PROVE  CountsInv'
  <1>0. CountsInv
    BY DEF MessageInv
  <1>1. CASE CountFilter
    BY <1>1, CountFilterStep
  <1>2. CASE LengthStep \/ LengthAlone \/ UNCHANGED allVars
    <2>1. UNCHANGED <<job, counts, input, room, at>>
      BY <1>2 DEF LengthStep, LengthAlone, allVars, messageVars, buildVars, lengthVars,
                  EncodeByte, DecodeByte, DecodeReturns, Deliver
    <2>. QED
      BY <1>0, <2>1, CountsKept
  <1>3. CASE CountDone \/ CheckRoom \/ BuildFilter \/ FiltersDone \/ BuildValues
                 \/ BuildPublish
    <2>1. /\ UNCHANGED <<job, counts, input>> /\ at' # "count"
          /\ job.kind = "SUBSCRIBE" => room' = room
          /\ at = "count" => Len(counts) = Len(job.filters)
      BY <1>3 DEF CountDone, CheckRoom, BuildFilter, FiltersDone, BuildValues,
                  BuildPublish, buildVars, lengthVars
    <2>. QED
      BY <1>0, <2>1, CountsKept DEF Num
  <1>4. CASE ParseLength \/ ParseHeader \/ ExitNode \/ FiltersParsed \/ ReleaseFilters
                 \/ ParsePublish
    <2>1. UNCHANGED <<job, counts, input, room>> /\ at # "count" /\ at' # "count"
      BY <1>4 DEF ParseLength, ParseHeader, ExitNode, FiltersParsed, ReleaseFilters, ParsePublish,
                  buildVars, lengthVars
    <2>. QED
      BY <1>0, <2>1, CountsKept
  <1>5. CASE ParseFilter \/ FilterNoMemory
    <2>1. UNCHANGED <<job, counts, input, room>> /\ at = "filters"
      BY <1>5 DEF ParseFilter, FilterNoMemory, buildVars, lengthVars
    <2>2. at' # "count"
      BY <1>5 DEF ParseFilter, FilterNoMemory, Fail
    <2>. QED
      BY <1>0, <2>1, <2>2, CountsKept
  <1>6. CASE Array
    <2>1. UNCHANGED <<job, counts, input, room>> /\ at # "count" /\ at' # "count"
      BY <1>6 DEF Array, ArrayInit, ArrayFill, ArrayGrow, ArrayDone, buildVars, lengthVars
    <2>. QED
      BY <1>0, <2>1, CountsKept
  <1>. QED
    BY <1>1, <1>2, <1>3, <1>4, <1>5, <1>6 DEF MessageNext, Build, Parse

-----------------------------------------------------------------------------
(* What stands in the message.                                             *)

LEMMA InvFacts ==
    ASSUME MessageInv
    PROVE  /\ job \in Jobs /\ Num \in Nat /\ Num = Len(job.filters)
           /\ input \in Nat /\ Len(encode) \in Nat
           /\ Start = 1 + Len(encode) /\ Start \in Nat
           /\ Need = Start + input /\ Need \in Nat
           /\ pc = "sent" => Start >= 2 /\ Start <= 5
  <1>1. job \in Jobs /\ input \in Nat /\ encode \in Seq(Byte)
    BY DEF MessageInv, Places, FieldInv, TypeOK
  <1>2. pc = "sent" => Len(encode) \in 1..4
    BY DEF MessageInv, FieldInv, ShortestField, FieldMax
  <1>3. pc = "sent" => Start >= 2 /\ Start <= 5
    <2>1. SUFFICES ASSUME pc = "sent" PROVE Start >= 2 /\ Start <= 5
      OBVIOUS
    <2>2. PICK n \in 1..4 : n = Len(encode)
      BY <1>2, <2>1
    <2>3. Start = 1 + n
      BY <2>2 DEF Start
    <2>. QED
      BY <2>3
  <1>. QED
    BY <1>1, <1>3, JobFacts DEF Num, Start, Need

LEMMA CountedFacts ==
    ASSUME MessageInv, Filters
    PROVE  /\ Len(counts) \in Nat /\ Len(counts) <= Num
           /\ at # "count" => Len(counts) = Num
           /\ input = Counted(counts, Len(counts))
           /\ Counted(counts, 0) = 2
           /\ \A k \in 0..Len(counts) : Counted(counts, k) \in Nat
           /\ \A k \in 0..(Len(counts) - 1) :
                 /\ Counted(counts, k + 1) = Counted(counts, k) + job.filters[k + 1].len
                                                  + 2 + QosByte(job)
                 /\ job.filters[k + 1].len \in Nat /\ job.filters[k + 1].qos \in Nat
                 /\ QosByte(job) \in 0..1
           /\ \A i, j \in 0..Len(counts) : i < j => Counted(counts, i) < Counted(counts, j)
  <1>1. /\ counts \in Seq(Nat) /\ Len(counts) <= Num
        /\ at # "count" => Len(counts) = Num
        /\ input = Counted(counts, Len(counts))
        /\ \A k \in 1..Len(counts) :
              counts[k] = Counted(counts, k - 1) + Width(job, job.filters[k])
        /\ \A i, j \in 0..Len(counts) : i < j => Counted(counts, i) < Counted(counts, j)
    BY DEF MessageInv, CountsInv
  <1>2. \A k \in 0..Len(counts) : Counted(counts, k) \in Nat
    BY <1>1 DEF Counted
  <1>3. ASSUME NEW k \in 0..(Len(counts) - 1)
        PROVE  /\ Counted(counts, k + 1) = Counted(counts, k) + job.filters[k + 1].len
                                                + 2 + QosByte(job)
               /\ job.filters[k + 1].len \in Nat /\ job.filters[k + 1].qos \in Nat
               /\ QosByte(job) \in 0..1
    <2>1. PICK m \in 1..Len(counts) : m = k + 1
      BY <1>1
    <2>2. m \in 1..Len(job.filters) /\ m - 1 = k /\ k \in 0..Len(counts)
      BY <1>1, <2>1, InvFacts
    <2>3. counts[m] = Counted(counts, k) + Width(job, job.filters[m])
      BY <1>1, <2>2
    <2>4. Counted(counts, m) = counts[m]
      BY <2>2 DEF Counted
    <2>5. /\ Width(job, job.filters[m]) = job.filters[m].len + 2 + QosByte(job)
          /\ job.filters[m].len \in Nat /\ job.filters[m].qos \in Nat
          /\ QosByte(job) \in 0..1
      BY <2>2, InvFacts, WidthFacts
    <2>6. Counted(counts, k) \in Nat
      BY <1>2, <2>2
    <2>7. Counted(counts, m) = Counted(counts, k) + job.filters[m].len + 2 + QosByte(job)
      BY SMTT(30), <2>3, <2>4, <2>5, <2>6
    <2>. QED
      BY <2>1, <2>5, <2>7
  <1>. QED
    BY <1>1, <1>2, <1>3 DEF Counted

(* A step before the message is begun, and one behind its last byte.       *)
EarlyStep == at \in Early /\ at' \in Early \cup {"no memory", "out of array"}

LateStep ==
    /\ at \in Built /\ (at = "built" => written = Need)
    /\ at' \in (Built \ {"built"}) \cup {"unread", "no memory", "out of array"}

(* Before the message is begun nothing stands in it.                       *)
LEMMA ItemsEarly ==
    ASSUME MessageInv, EarlyStep,
           job' = job, items' = items, written' = written, room' \in Int
    PROVE  ItemsInv'
  <1>1. items' = <<>> /\ job' = job /\ written' \in Nat
    BY DEF MessageInv, ItemsInv, EarlyStep
  <1>2. Num' \in Nat
    BY InvFacts DEF Num
  <1>3. items' \in Seq(ItemType) /\ Len(items') = 0
    <2>1. \A s : s = <<>> => s \in Seq(ItemType) /\ Len(s) = 0
      OBVIOUS
    <2>. QED
      BY <1>1, <2>1
  <1>4. at' \notin Built /\ at' \notin {"items", "built", "refused", "overrun"}
    BY DEF EarlyStep, Early, Built, Parsing
  <1>5. Len(items') <= Num'
    BY <1>2, <1>3
  <1>6. \A k \in 1..Len(items') : items'[k] = Item(job', Start', counts', k)
    BY <1>3
  <1>. QED
    BY <1>1, <1>3, <1>4, <1>5, <1>6 DEF ItemsInv

(* A parse changes nothing in it.                                          *)
LEMMA ItemsParsed ==
    ASSUME MessageInv, LateStep,
           UNCHANGED <<job, items, written, room, encode, counts, input>>
    PROVE  ItemsInv'
  <1>1. ItemsInv
    BY DEF MessageInv
  <1>2. /\ at' \notin Early /\ at' \notin {"items", "built", "refused", "overrun"}
        /\ at \in Built /\ (at = "built" => written = Need)
    BY DEF LateStep, Early, Built, Parsing
  <1>3. Need' = Need /\ Num' = Num /\ Start' = Start /\ (Filters' <=> Filters)
    BY DEF Need, Num, Start, Filters
  <1>4. written = Need
    BY <1>1, <1>2 DEF ItemsInv
  <1>. QED
    BY <1>1, <1>2, <1>3, <1>4 DEF ItemsInv

LEMMA ItemsStutter ==
    ASSUME MessageInv, UNCHANGED <<job, at, items, written, room, encode, counts, input>>
    PROVE  ItemsInv'
  BY DEF MessageInv, ItemsInv, Need, Num, Start, Filters, Item, PublishLen, IdBytes

LEMMA ItemsRoom ==
    ASSUME MessageInv, CheckRoom
    PROVE  ItemsInv'
  <1>1. /\ at = "encode" /\ pc = "sent" /\ job.kind # "length"
        /\ room' = IF job.kind = "SUBSCRIBE" THEN room ELSE Need + job.slack
        /\ UNCHANGED <<job, counts, items, input, encode>>
    BY DEF CheckRoom, lengthVars
  <1>2. /\ job \in Jobs /\ Num \in Nat /\ input \in Nat /\ Start \in Nat /\ Start <= 5
        /\ Start = 1 + Len(encode) /\ Need = Start + input /\ Need \in Nat
    BY <1>1, InvFacts
  <1>3. /\ Need' = Need /\ Num' = Num /\ Start' = Start /\ (Filters' <=> Filters)
    BY <1>1 DEF Need, Num, Start, Filters
  <1>4. items' = <<>> /\ Len(items') = 0 /\ items' \in Seq(ItemType)
        /\ written \in Nat /\ room \in Int
    BY <1>1 DEF MessageInv, ItemsInv, Early
  <1>5. room' \in Int /\ (job.kind # "SUBSCRIBE" => room' = Need + job.slack)
    BY <1>1, <1>2, <1>4, JobFacts
  <1>6. job.kind = "SUBSCRIBE" => room' = room /\ room' >= Need
    <2>1. job.kind = "SUBSCRIBE" => room' = room /\ room = input + 5
      BY <1>1 DEF MessageInv, CountsInv, Filters
    <2>3. Start \in Nat /\ Start <= 5 /\ Need = Start + input /\ input \in Nat
      BY <1>2
    <2>2. Need <= input + 5
      BY <2>3
    <2>. QED
      BY <2>1, <2>2
  <1>7. ~job.own => room' >= Need
    <2>1. ~job.own => job.slack = 0
      <3>1. job \in Jobs
        BY <1>2
      <3>. QED
        BY <3>1, JobAssumption
    <2>2. job.slack = 0 /\ job.kind # "SUBSCRIBE" => room' >= Need
      BY <1>2, <1>5
    <2>. QED
      BY <1>6, <2>1, <2>2
  <1>8. CASE at' = "items"
    <2>1. written' = 1 + Len(encode) + IdentifierLen
      BY <1>8 DEF CheckRoom
    <2>2. Need <= room'
      BY <1>7, <1>8 DEF CheckRoom, Enough
    <2>3. IdentifierLen = IF job.kind = "PUBLISH" THEN 0 ELSE 2
      BY DEF IdentifierLen
    <2>4. written' \in Nat /\ written' = Start + IdentifierLen
      BY <1>2, <2>1, <2>3
    <2>5. /\ Filters => written' = Start' + Counted(counts', 0)
          /\ job.kind = "PUBLISH" => written' = Start'
          /\ job.kind = "SUBACK" => written' = Start' + 2
      BY <1>2, <1>3, <2>3, <2>4 DEF Counted, Filters
    <2>6. at' \notin Early /\ at' \notin Built /\ at' \notin {"built", "refused", "overrun"}
      BY <1>8 DEF Early, Built, Parsing
    <2>. QED
      BY <1>1, <1>2, <1>3, <1>4, <1>5, <2>2, <2>4, <2>5, <2>6 DEF ItemsInv
  <1>9. CASE at' = "refused"
    <2>1. job.own /\ ~(room' >= Need) /\ written' = written
      BY <1>9 DEF CheckRoom, Enough
    <2>2. at' \notin Early /\ at' \notin Built /\ at' \notin {"items", "built", "overrun"}
      BY <1>9 DEF Early, Built, Parsing
    <2>. QED
      BY <1>1, <1>2, <1>3, <1>4, <1>5, <1>6, <2>1, <2>2 DEF ItemsInv
  <1>. QED
    BY <1>8, <1>9 DEF CheckRoom

LEMMA ItemsFilter ==
    ASSUME MessageInv, BuildFilter
    PROVE  ItemsInv'
  <1>1. /\ at = "items" /\ Filters /\ Len(items) < Len(job.filters)
        /\ UNCHANGED <<job, room, counts, input, encode>>
    BY DEF BuildFilter, lengthVars
  <1>2. /\ items \in Seq(ItemType) /\ Len(items) <= Num
        /\ \A k \in 1..Len(items) : items[k] = Item(job, Start, counts, k)
        /\ written = Start + Counted(counts, Len(items))
        /\ Need <= room /\ written \in Nat /\ room \in Int
    BY <1>1 DEF MessageInv, ItemsInv
  <1>3. PICK n \in Nat : n = Len(items)
    BY <1>2
  <1>. DEFINE f == job.filters[n + 1]
  <1>4. /\ n \in 0..(Num - 1) /\ Num \in Nat /\ Num = Len(job.filters) /\ Start \in Nat
        /\ job \in Jobs
    BY <1>1, <1>2, <1>3, InvFacts
  <1>5. Len(counts) = Num
    BY <1>1, CountedFacts
  <1>6. /\ Counted(counts, n + 1) = Counted(counts, n) + f.len + 2 + QosByte(job)
        /\ Counted(counts, n) \in Nat
        /\ f.len \in Nat /\ f.qos \in Nat /\ QosByte(job) \in 0..1
    BY <1>1, <1>4, <1>5, CountedFacts
  <1>7. /\ Need' = Need /\ Num' = Num /\ Start' = Start /\ Filters'
    BY <1>1 DEF Need, Num, Start, Filters
  <1>8. job.kind # "PUBLISH" /\ job.kind # "SUBACK"
    BY <1>1 DEF Filters
  <1>9. CASE at' = "refused"
    <2>1. f.null /\ written' = written /\ items' = items
      BY <1>1, <1>3, <1>9 DEF BuildFilter
    <2>2. \E k \in 1..Num' : job'.filters[k].null
      BY <1>1, <1>4, <1>7, <2>1
    <2>3. at' \notin Early /\ at' \notin Built /\ at' \notin {"items", "built", "overrun"}
      BY <1>9 DEF Early, Built, Parsing
    <2>. QED
      BY <1>1, <1>2, <1>7, <1>8, <2>1, <2>2, <2>3 DEF ItemsInv
  <1>10. CASE at' = at
    <2>. DEFINE q == IF job.own THEN f.qos % 4 ELSE f.qos
                new == [off |-> written, len |-> f.len, qos |-> q]
    <2>1. items' = Append(items, new) /\ written' = written + f.len + 2 + QosByte(job)
      BY <1>1, <1>3, <1>10 DEF BuildFilter
    <2>2. q \in Nat
      BY <1>6
    <2>3. new \in ItemType
      BY <1>2, <1>6, <2>2 DEF ItemType
    <2>4. /\ items' \in Seq(ItemType) /\ Len(items') = n + 1
          /\ items'[n + 1] = new
          /\ \A k \in 1..n : items'[k] = items[k]
      BY <1>2, <1>3, <2>1, <2>3
    <2>5. new = Item(job, Start, counts, n + 1)
      <3>1. (n + 1) - 1 = n
        OBVIOUS
      <3>. QED
        BY <1>2, <1>3, <3>1 DEF Item
    <2>6. \A k \in 1..(n + 1) : items'[k] = Item(job, Start, counts, k)
      <3>1. ASSUME NEW k \in 1..(n + 1) PROVE k = n + 1 \/ k \in 1..n
        OBVIOUS
      <3>. QED
        BY <1>2, <1>3, <2>4, <2>5, <3>1
    <2>7. written' = Start + Counted(counts, n + 1) /\ written' \in Nat
      <3>1. written = Start + Counted(counts, n) /\ Start \in Nat
        BY <1>2, <1>3, <1>4
      <3>2. /\ written' = written + f.len + 2 + QosByte(job)
            /\ f.len \in Nat /\ QosByte(job) \in Nat
        BY <1>6, <2>1
      <3>3. /\ Counted(counts, n + 1) = Counted(counts, n) + f.len + 2 + QosByte(job)
            /\ Counted(counts, n) \in Nat
        BY <1>6
      <3>. HIDE DEF f
      <3>. QED
        BY <3>1, <3>2, <3>3
    <2>8. at' \notin Early /\ at' \notin Built /\ at' \notin {"refused", "overrun"}
      BY <1>1, <1>10 DEF Early, Built, Parsing
    <2>9. Len(items') <= Num'
      BY <1>4, <1>7, <2>4
    <2>10. /\ \A k \in 1..Len(items') : items'[k] = Item(job', Start', counts', k)
           /\ written' = Start' + Counted(counts', Len(items'))
      BY <1>1, <1>7, <2>4, <2>6, <2>7
    <2>. QED
      BY <1>1, <1>2, <1>7, <1>8, <1>10, <2>4, <2>7, <2>8, <2>9, <2>10 DEF ItemsInv
  <1>. QED
    BY <1>9, <1>10 DEF BuildFilter

(* The last byte of the build.  A PUBLISH may have gone past its length.   *)
LEMMA ModBelow ==
    ASSUME NEW n \in Nat
    PROVE  /\ n % U16 \in Nat /\ n % U16 < U16
           /\ n < U16 => n % U16 = n
  BY DEF U16

LEMMA ItemsBuilt ==
    ASSUME MessageInv, FiltersDone \/ BuildValues \/ BuildPublish
    PROVE  ItemsInv'
  <1>1. /\ at = "items" /\ job' = job /\ room' = room /\ counts' = counts
        /\ input' = input /\ encode' = encode
    BY DEF FiltersDone, BuildValues, BuildPublish, buildVars, lengthVars
  <1>2. /\ ItemsInv /\ job \in Jobs /\ Num \in Nat /\ Start \in Nat /\ input \in Nat
        /\ Need = Start + input /\ job.kind # "length"
    BY <1>1, InvFacts DEF MessageInv, Places
  <1>3. Need' = Need /\ Num' = Num /\ Start' = Start /\ (Filters' <=> Filters)
    BY <1>1 DEF Need, Num, Start, Filters
  <1>4. Need <= room /\ room \in Int /\ written \in Nat
    BY <1>1, <1>2 DEF ItemsInv
  <1>5. CASE FiltersDone
    <2>1. Filters /\ Len(items) = Num /\ at' = "built" /\ items' = items /\ written' = written
      BY <1>5 DEF FiltersDone, buildVars, Num
    <2>2. written = Need
      <3>1. written = Start + Counted(counts, Len(items))
        BY <1>1, <1>2, <2>1 DEF ItemsInv
      <3>2. input = Counted(counts, Num)
        BY <1>1, <2>1, CountedFacts
      <3>. QED
        BY <1>2, <2>1, <3>1, <3>2
    <2>3. at' \notin Early /\ at' \notin {"items", "refused", "overrun"}
      BY <2>1 DEF Early
    <2>4. job.kind # "PUBLISH" /\ job.kind # "SUBACK"
      BY <2>1 DEF Filters
    <2>. QED
      BY <1>1, <1>2, <1>3, <1>4, <2>1, <2>2, <2>3, <2>4 DEF ItemsInv
  <1>6. CASE BuildValues
    <2>1. job.kind = "SUBACK" /\ items' = items /\ ~Filters
      BY <1>6 DEF BuildValues, Filters
    <2>2. written = Start + 2 /\ input = 2 + job.values
      BY <1>1, <1>2, <2>1, RemainFacts DEF ItemsInv, MessageInv, CountsInv
    <2>3. job.values \in Nat /\ job.bad \in Nat
      BY <1>2, JobFacts
    <2>4. CASE at' = "built"
      <3>1. (job.own => job.bad = 0) /\ written' = written + job.values
        BY <2>4, <1>6 DEF BuildValues
      <3>2. written' = Need /\ written' \in Nat
        BY <1>2, <1>4, <2>2, <2>3, <3>1
      <3>3. at' \notin Early /\ at' \notin {"items", "refused", "overrun"}
        BY <2>4 DEF Early
      <3>. QED
        BY <1>1, <1>2, <1>3, <1>4, <2>1, <3>1, <3>2, <3>3 DEF ItemsInv
    <2>5. CASE at' = "refused"
      <3>1. job.bad > 0 /\ written' = written + job.bad - 1
        BY <2>5, <1>6 DEF BuildValues
      <3>2. written' \in Nat
        BY <1>4, <2>3, <3>1
      <3>3. at' \notin Early /\ at' \notin Built /\ at' \notin {"items", "built", "overrun"}
        BY <2>5 DEF Early, Built, Parsing
      <3>. QED
        BY <1>1, <1>2, <1>3, <1>4, <2>1, <3>2, <3>3 DEF ItemsInv
    <2>. QED
      BY <1>6, <2>4, <2>5 DEF BuildValues
  <1>7. CASE BuildPublish
    <2>1. /\ job.kind = "PUBLISH" /\ ~Filters
          /\ items' = <<[off |-> written, len |-> job.topic, qos |-> 0]>>
          /\ written' = written + PublishLen(job)
      BY <1>7 DEF BuildPublish, Filters
    <2>2. written = Start /\ PublishLen(job) \in Nat
      BY <1>1, <1>2, <2>1, RemainFacts DEF ItemsInv
    <2>3. /\ written' = Start + PublishLen(job) /\ written' \in Nat
          /\ items' = <<[off |-> Start, len |-> job.topic, qos |-> 0]>>
      BY <1>2, <2>1, <2>2
    <2>4. CASE at' = "built"
      <3>1. written' <= room
        BY <1>4, <1>7, <2>3, <2>4 DEF BuildPublish
      <3>2. at' \notin Early /\ at' \notin {"items", "refused", "overrun"}
        BY <2>4 DEF Early
      <3>. QED
        BY <1>1, <1>3, <1>4, <2>1, <2>3, <2>4, <3>1, <3>2 DEF ItemsInv
    <2>5. CASE at' = "overrun"
      <3>1. written' > room
        BY <1>7, <2>5 DEF BuildPublish
      <3>2. input = PublishLen(job) % U16
        BY <1>2, <2>1, RemainFacts DEF MessageInv, CountsInv
      <3>3. U16 \in Nat
        BY U16Nat
      <3>4. PublishLen(job) < U16 => PublishLen(job) % U16 = PublishLen(job)
        BY <2>2, ModBelow
      <3>5. ~(PublishLen(job) < U16)
        BY <1>2, <1>4, <2>2, <2>3, <3>1, <3>2, <3>4
      <3>6. PublishLen(job') >= U16
        BY <1>1, <2>2, <3>3, <3>5
      <3>7. at' \notin Early /\ at' \notin Built /\ at' \notin {"items", "built", "refused"}
        BY <2>5 DEF Early, Built, Parsing
      <3>. QED
        BY <1>1, <1>3, <1>4, <2>1, <2>3, <3>6, <3>7 DEF ItemsInv
    <2>. QED
      BY <1>7, <2>4, <2>5 DEF BuildPublish
  <1>. QED
    BY <1>5, <1>6, <1>7

(* Every step of a parse stays behind the last byte.                       *)
LEMMA ParseIsLate ==
    ASSUME Parse
    PROVE  LateStep /\ UNCHANGED <<job, items, written, room, encode, counts, input>>
  <1>. USE DEF LateStep, Built, Parsing, lengthVars, buildVars
  <1>1. CASE ParseLength
    BY <1>1 DEF ParseLength
  <1>2. CASE ParseHeader
    BY <1>2 DEF ParseHeader
  <1>3. CASE ParseFilter \/ FilterNoMemory
    <2>1. /\ at = "filters"
          /\ UNCHANGED <<job, items, written, room, encode, counts, input>>
      BY <1>3 DEF ParseFilter, FilterNoMemory
    <2>2. at' \in {"filters", "exit"}
      BY <1>3 DEF ParseFilter, FilterNoMemory, Fail
    <2>. QED
      BY <2>1, <2>2
  <1>4. CASE FiltersParsed
    BY <1>4 DEF FiltersParsed
  <1>5. CASE ReleaseFilters
    BY <1>5 DEF ReleaseFilters
  <1>6. CASE ParsePublish
    BY <1>6 DEF ParsePublish
  <1>7. CASE ExitNode
    BY <1>7 DEF ExitNode
  <1>. QED
    BY <1>1, <1>2, <1>3, <1>4, <1>5, <1>6, <1>7 DEF Parse

(* The array of a SUBACK is filled before or behind the message.           *)
LEMMA ArrayEarlyOrLate ==
    ASSUME Array
    PROVE  /\ EarlyStep \/ LateStep
           /\ UNCHANGED <<job, items, written, room, encode, counts, input>>
  <1>. USE DEF EarlyStep, LateStep, Early, Built, Parsing, lengthVars, buildVars
  <1>1. CASE ArrayInit
    BY <1>1 DEF ArrayInit
  <1>2. CASE ArrayFill
    BY <1>2 DEF ArrayFill
  <1>3. CASE ArrayGrow
    BY <1>3 DEF ArrayGrow
  <1>4. CASE ArrayDone
    BY <1>4 DEF ArrayDone
  <1>. QED
    BY <1>1, <1>2, <1>3, <1>4 DEF Array

LEMMA ItemsSteps ==
    ASSUME MessageInv, [MessageNext]_allVars
    PROVE  ItemsInv'
  <1>0. room \in Int
    BY DEF MessageInv, ItemsInv
  <1>1. CASE LengthStep \/ LengthAlone
    <2>1. UNCHANGED <<job, at, items, written, room, counts>> /\ input' = input
      BY <1>1 DEF LengthStep, LengthAlone, messageVars, buildVars,
                  EncodeByte, DecodeByte, DecodeReturns, Deliver
    <2>2. at = "encode" \/ at = "decode"
      BY <1>1 DEF LengthStep, LengthAlone, MessageInv, Places
    <2>3. CASE at = "encode"
      <3>1. EarlyStep
        BY <2>1, <2>3 DEF EarlyStep, Early
      <3>. QED
        BY <1>0, <2>1, <3>1, ItemsEarly
    <2>4. CASE at = "decode"
      <3>1. pc # "encode" /\ job.kind # "length"
        BY <2>4 DEF MessageInv, Places
      <3>2. encode' = encode
        BY <1>1, <3>1 DEF LengthStep, LengthAlone, EncodeByte, DecodeByte, DecodeReturns
      <3>. QED
        BY <2>1, <3>2, ItemsStutter
    <2>. QED
      BY <2>2, <2>3, <2>4
  <1>2. CASE CountFilter
    <2>1. /\ EarlyStep /\ job' = job /\ items' = items /\ written' = written
          /\ Len(counts) < Len(job.filters)
          /\ room' = room + CalcWidth(job.filters[Len(counts) + 1])
      BY <1>2 DEF CountFilter, EarlyStep, Early
    <2>2. Filters /\ job \in Jobs
      BY <1>2 DEF MessageInv, Places, CountsInv, CountFilter
    <2>3. PICK n \in 1..Len(job.filters) : n = Len(counts) + 1
      BY <2>1, <2>2, CountedFacts, JobFacts
    <2>4. CalcWidth(job.filters[n]) \in Int
      BY <2>2, <2>3, WidthFacts DEF CalcWidth
    <2>5. room' \in Int
      BY <1>0, <2>1, <2>3, <2>4
    <2>. QED
      BY <2>1, <2>5, ItemsEarly
  <1>3. CASE CountDone
    <2>1. /\ EarlyStep /\ job' = job /\ items' = items /\ written' = written
          /\ room' = room
      BY <1>3 DEF CountDone, EarlyStep, Early, buildVars
    <2>. QED
      BY <1>0, <2>1, ItemsEarly
  <1>4. CASE Array
    <2>1. /\ EarlyStep \/ LateStep
          /\ UNCHANGED <<job, items, written, room, encode, counts, input>>
      BY <1>4, ArrayEarlyOrLate
    <2>. QED
      BY <1>0, <2>1, ItemsEarly, ItemsParsed
  <1>5. CASE UNCHANGED allVars
    <2>1. UNCHANGED <<job, at, items, written, room, encode, counts, input>>
      BY <1>5 DEF allVars, messageVars, buildVars, lengthVars
    <2>. QED
      BY <2>1, ItemsStutter
  <1>. QED
    BY <1>1, <1>2, <1>3, <1>4, <1>5, ItemsRoom, ItemsFilter, ItemsBuilt, ItemsParsed,
       ParseIsLate DEF MessageNext, Build

-----------------------------------------------------------------------------
(* What the parser has found.                                              *)

LEMMA BuiltFacts ==
    ASSUME MessageInv, at \in Parsing \cup {"decode"}
    PROVE  /\ written = Need
           /\ Filters => Len(counts) = Num /\ Len(items) = Num
           /\ Filters => \A k \in 1..Num : items[k] = Item(job, Start, counts, k)
           /\ job.kind = "PUBLISH" =>
                 /\ input = PublishLen(job)
                 /\ items = <<[off |-> Start, len |-> job.topic, qos |-> 0]>>
           /\ job.kind = "SUBACK" => input = 2 + job.values /\ (job.own => job.bad = 0)
  <1>1. at \in Built /\ at # "built" /\ at # "count"
    BY DEF Built, Parsing
  <1>2. ItemsInv /\ CountsInv /\ job \in Jobs /\ input \in Nat /\ Start \in Nat
        /\ Need = Start + input
    BY InvFacts DEF MessageInv
  <1>3. written = Need
    BY <1>1, <1>2 DEF ItemsInv
  <1>4. Filters => /\ Len(counts) = Num /\ Len(items) = Num
                   /\ \A k \in 1..Num : items[k] = Item(job, Start, counts, k)
    BY <1>1, <1>2 DEF ItemsInv, CountsInv
  <1>5. job.kind = "PUBLISH" =>
            /\ input = PublishLen(job)
            /\ items = <<[off |-> Start, len |-> job.topic, qos |-> 0]>>
    <2>1. SUFFICES ASSUME job.kind = "PUBLISH"
          PROVE  /\ input = PublishLen(job)
                 /\ items = <<[off |-> Start, len |-> job.topic, qos |-> 0]>>
      OBVIOUS
    <2>2. /\ written = Start + PublishLen(job)
          /\ items = <<[off |-> Start, len |-> job.topic, qos |-> 0]>>
      BY <1>1, <1>2, <2>1 DEF ItemsInv
    <2>3. PublishLen(job) \in Nat
      BY <1>2, <2>1, RemainFacts
    <2>4. Start + input = Start + PublishLen(job)
      BY <1>2, <1>3, <2>2
    <2>5. input = PublishLen(job)
      BY <1>2, <2>3, <2>4
    <2>. QED
      BY <2>2, <2>5
  <1>6. job.kind = "SUBACK" => input = 2 + job.values /\ (job.own => job.bad = 0)
    BY <1>1, <1>2, RemainFacts DEF ItemsInv, CountsInv, Filters
  <1>. QED
    BY <1>3, <1>4, <1>5, <1>6

(* The decoder saw the whole field, and so found what was encoded.         *)
LEMMA WholeFieldRead ==
    ASSUME MessageInv, at = "decode", pc = "decoded"
    PROVE  /\ encode_len = Len(encode) /\ length = input
           /\ written - 1 - encode_len = input
  <1>1. given >= Len(encode) /\ asked >= Len(encode)
    BY DEF MessageInv, ParseInv
  <1>2. Seen >= Len(encode)
    BY <1>1 DEF Seen
  <1>3. encode_len = Len(encode) /\ length = input
    BY <1>2 DEF MessageInv, FieldInv, RoundTrip
  <1>4. /\ written = Need /\ Need = Start + input /\ Start = 1 + Len(encode)
        /\ Len(encode) \in Nat /\ input \in Nat
    BY BuiltFacts, InvFacts
  <1>5. written - 1 - Len(encode) = input
    BY <1>4
  <1>. QED
    BY <1>3, <1>5

LEMMA ParseLengthStep ==
    ASSUME MessageInv, ParseLength
    PROVE  ParseInv'
  <1>1. /\ at = "built" /\ at' = "decode" /\ pc = "sent"
        /\ UNCHANGED <<job, result, list, nodes, place, rest, counts, input, encode>>
    BY DEF ParseLength, parseVars, buildVars, MessageInv, Places
  <1>2. result = <<>> /\ list = "unset" /\ nodes \in Nat /\ place \in Nat /\ rest \in Nat
    BY <1>1 DEF MessageInv, ParseInv
  <1>3. given' >= Len(encode') /\ asked' >= Len(encode')
    <2>1. /\ Start \in Nat /\ Start <= 5 /\ Start >= 2 /\ Start = 1 + Len(encode)
          /\ Len(encode) \in Nat /\ input \in Nat /\ Need = Start + input
      BY <1>1, InvFacts
    <2>2. written - 1 \in Nat /\ written - 1 >= Len(encode)
      BY <2>1 DEF ParseLength
    <2>3. Len(encode) <= 4
      BY <2>1
    <2>4. Cut(written - 1) >= Len(encode)
      BY <2>1, <2>2, <2>3 DEF Cut, FieldMax
    <2>. QED
      BY <1>1, <2>4 DEF ParseLength
  <1>4. at' \notin Parsing /\ at' \in Early \cup {"items", "built", "decode"}
    BY <1>1 DEF Parsing
  <1>. QED
    BY <1>1, <1>2, <1>3, <1>4 DEF ParseInv, PublishRead, Parsing

LEMMA ParseHeaderStep ==
    ASSUME MessageInv, ParseHeader
    PROVE  ParseInv'
  <1>1. /\ at = "decode" /\ pc = "decoded"
        /\ UNCHANGED <<job, result, list, counts, input, encode, length, encode_len>>
    BY DEF ParseHeader, buildVars, lengthVars, decodeVars
  <1>2. /\ encode_len = Len(encode) /\ length = input /\ written - 1 - encode_len = input
    BY <1>1, WholeFieldRead
  <1>3. result = <<>> /\ list = "unset" /\ nodes \in Nat
    BY <1>1 DEF MessageInv, ParseInv
  <1>4. /\ job \in Jobs /\ input \in Nat /\ Start \in Nat /\ Start = 1 + Len(encode)
        /\ Need = Start + input /\ Num \in Nat /\ Len(encode) \in Nat
    BY InvFacts
  <1>5. LengthFits(input)
    BY <1>2, <1>4 DEF LengthFits
  <1>6. /\ place' = Start + IdentifierLen /\ rest' = input - IdentifierLen
        /\ \/ at' = "array" /\ job.kind = "SUBACK" /\ nodes' = nodes
           \/ at' = "publish" /\ job.kind = "PUBLISH" /\ nodes' = nodes
           \/ at' = "filters" /\ Filters /\ nodes' = 1
           \/ at' = "no memory" /\ nodes' = nodes
    BY <1>2, <1>4, <1>5 DEF ParseHeader, BehindIdentifier
  <1>7. IdentifierLen = IF job.kind = "PUBLISH" THEN 0 ELSE 2
    BY DEF IdentifierLen
  <1>8. job.kind # "PUBLISH" => input >= 2
    <2>1. CASE Filters
      <3>1. /\ Len(counts) \in Nat /\ input = Counted(counts, Len(counts))
            /\ Counted(counts, 0) = 2
            /\ Len(counts) > 0 => Counted(counts, 0) < Counted(counts, Len(counts))
        BY <2>1, CountedFacts
      <3>. QED
        BY <1>4, <3>1
    <2>2. CASE job.kind = "SUBACK"
      <3>1. input = 2 + job.values /\ job.values \in Nat
        BY <1>1, <1>4, <2>2, BuiltFacts, JobFacts
      <3>. QED
        BY <3>1
    <2>3. job.kind # "length"
      BY <1>1 DEF MessageInv, Places
    <2>. QED
      BY <1>4, <2>1, <2>2, <2>3, JobFacts DEF Filters
  <1>9. place' \in Nat /\ rest' \in Nat /\ nodes' \in Nat
    <2>3. nodes' = nodes \/ nodes' = 1
      BY <1>6
    <2>4. nodes' \in Nat
      BY <1>3, <2>3
    <2>1. CASE job.kind = "PUBLISH"
      <3>1. place' = Start + 0 /\ rest' = input - 0
        BY <1>6, <1>7, <2>1
      <3>2. Start \in Nat /\ input \in Nat
        BY <1>4
      <3>. QED
        BY <2>4, <3>1, <3>2
    <2>2. CASE job.kind # "PUBLISH"
      <3>1. place' = Start + 2 /\ rest' = input - 2 /\ input >= 2
        BY <1>6, <1>7, <1>8, <2>2
      <3>2. Start \in Nat /\ input \in Nat
        BY <1>4
      <3>. QED
        BY <2>4, <3>1, <3>2
    <2>. QED
      BY <2>1, <2>2
  <1>10. Filters' <=> Filters
    BY <1>1 DEF Filters
  <1>11. Start' = Start /\ Need' = Need /\ Num' = Num
    BY <1>1 DEF Start, Need, Num
  <1>12. at' = "publish" => job.kind = "PUBLISH" /\ place' = Start /\ rest' = input
    BY <1>4, <1>6, <1>7
  <1>13. at' = "filters" =>
             /\ Same' /\ Len(result') = 0 /\ Len(result') <= Num
             /\ place' = Start + Counted(counts, 0) /\ rest' = Need - place'
             /\ nodes' = 1
    <2>1. SUFFICES ASSUME at' = "filters"
          PROVE  /\ Same' /\ Len(result') = 0 /\ Len(result') <= Num
                 /\ place' = Start + Counted(counts, 0) /\ rest' = Need - place'
                 /\ nodes' = 1
      OBVIOUS
    <2>2. job.kind # "PUBLISH" /\ nodes' = 1
      BY <1>6, <2>1 DEF Filters
    <2>3. place' = Start + 2 /\ rest' = input - 2
      BY <1>6, <1>7, <2>2
    <2>4. rest' = Need - place'
      BY <1>4, <2>3
    <2>5. result' \in Seq([len : Nat, qos : Nat]) /\ Len(result') = 0
      BY <1>1, <1>3
    <2>. QED
      BY <1>4, <2>2, <2>3, <2>4, <2>5 DEF Same, Counted
  <1>14. at' \in {"array", "publish", "filters", "no memory"}
    BY <1>6
  <1>15. at' \notin Early \cup {"items", "built", "decode"}
    BY <1>14 DEF Early
  <1>16. at' = "filters" =>
             /\ Same' /\ Len(result') <= Num'
             /\ place' = Start' + Counted(counts', Len(result')) /\ rest' = Need' - place'
             /\ nodes' = Len(result') + 1 /\ list' = "unset"
    BY <1>1, <1>3, <1>11, <1>13
  <1>17. at' = "publish" => job'.kind = "PUBLISH" /\ place' = Start' /\ rest' = input'
    BY <1>1, <1>11, <1>12
  <1>18. /\ at' = "filters" => Filters'
         /\ at' = "array" => job'.kind = "SUBACK"
    BY <1>1, <1>6, <1>10
  <1>19. at' \in Parsing => encode_len' = Len(encode') /\ length' = input'
    BY <1>1, <1>2
  <1>20. list' = "unset"
    BY <1>1, <1>3
  <1>. QED
    BY <1>9, <1>14, <1>15, <1>16, <1>17, <1>18, <1>19, <1>20 DEF ParseInv, PublishRead

(* What is known in the loop over the filters: the string that stands at   *)
(* the parser's place is the next one, and no other.                       *)
LEMMA InLoop ==
    ASSUME MessageInv, at = "filters"
    PROVE  /\ Filters /\ Same /\ Len(result) \in Nat /\ Len(result) <= Num
           /\ place = Start + Counted(counts, Len(result)) /\ rest = Need - place
           /\ nodes = Len(result) + 1 /\ list = "unset"
           /\ Len(counts) = Num /\ input = Counted(counts, Num)
           /\ encode_len = Len(encode) /\ length = input
  <1>1. ParseInv
    BY DEF MessageInv
  <1>2. Filters /\ Same /\ Len(result) <= Num
    BY <1>1 DEF ParseInv, PublishRead
  <1>3. Len(result) \in Nat
    BY <1>2 DEF Same
  <1>4. Len(counts) = Num /\ input = Counted(counts, Num)
    BY <1>2, CountedFacts
  <1>. QED
    BY <1>1, <1>2, <1>3, <1>4 DEF ParseInv, PublishRead, Parsing

LEMMA NextFilter ==
    ASSUME MessageInv, at = "filters", rest > 0
    PROVE  /\ Len(result) < Num
           /\ Standing = {Len(result) + 1}
           /\ items[Len(result) + 1] = Item(job, Start, counts, Len(result) + 1)
  <1>1. PICK n \in Nat : n = Len(result)
    BY InLoop
  <1>2. /\ Filters /\ n <= Num /\ place = Start + Counted(counts, n) /\ rest = Need - place
        /\ Len(counts) = Num /\ input = Counted(counts, Num)
    BY <1>1, InLoop
  <1>3. /\ Num \in Nat /\ Start \in Nat /\ input \in Nat /\ Need = Start + input
    BY InvFacts
  <1>4. /\ \A k \in 0..Num : Counted(counts, k) \in Nat
        /\ \A i, j \in 0..Num : i < j => Counted(counts, i) < Counted(counts, j)
    BY <1>2, CountedFacts
  <1>5. Len(items) = Num /\ \A k \in 1..Num : items[k] = Item(job, Start, counts, k)
    BY <1>2, BuiltFacts DEF Parsing
  <1>6. n < Num
    <2>1. CASE n = Num
      <3>1. rest = (Start + input) - (Start + input)
        BY <1>2, <1>3, <2>1
      <3>. QED
        BY <1>3, <3>1
    <2>. QED
      BY <1>2, <1>3, <2>1
  <1>7. DOMAIN items = 1..Num
    <2>1. items \in Seq(ItemType)
      BY <1>2 DEF MessageInv, ItemsInv
    <2>. QED
      BY <1>5, <2>1
  <1>8. \A k \in 1..Num : items[k].off = Start + Counted(counts, k - 1)
    BY <1>5 DEF Item
  <1>9. n + 1 \in Standing
    <2>1. n + 1 \in 1..Num /\ (n + 1) - 1 = n
      BY <1>3, <1>6
    <2>. QED
      BY <1>2, <1>7, <1>8, <2>1 DEF Standing
  <1>10. ASSUME NEW k \in Standing PROVE k = n + 1
    <2>1. k \in 1..Num /\ items[k].off = place
      BY <1>7 DEF Standing
    <2>2. PICK m \in 0..Num : m = k - 1
      BY <1>3, <2>1
    <2>3. Start + Counted(counts, m) = Start + Counted(counts, n)
      BY <1>2, <1>8, <2>1, <2>2
    <2>4. n \in 0..Num
      BY <1>2, <1>3
    <2>5. Counted(counts, m) = Counted(counts, n)
      BY <1>3, <1>4, <2>3, <2>4
    <2>6. ~(m < n) /\ ~(n < m)
      BY <1>4, <2>4, <2>5
    <2>7. m = n
      BY <2>4, <2>6
    <2>. QED
      BY <2>1, <2>2, <2>7
  <1>11. Standing = {n + 1}
    BY <1>9, <1>10
  <1>12. n + 1 \in 1..Num
    BY <1>3, <1>6
  <1>. QED
    BY <1>1, <1>5, <1>6, <1>11, <1>12

(* An error exit leaves the loop with the list as it is.                   *)
LEMMA FailStep ==
    ASSUME MessageInv, at = "filters", NEW r, Fail(r), job' = job, UNCHANGED lengthVars
    PROVE  ParseInv'
  <1>1. /\ at' = "exit" /\ result' = result /\ list' = list /\ nodes' = nodes
        /\ place' = place /\ rest' = rest
    BY DEF Fail
  <1>2. /\ Filters' /\ encode_len' = Len(encode') /\ length' = input' /\ list = "unset"
    BY InLoop DEF Filters, lengthVars, decodeVars
  <1>3. place \in Nat /\ rest \in Nat /\ nodes \in Nat
    BY DEF MessageInv, ParseInv
  <1>. QED
    BY <1>1, <1>2, <1>3 DEF ParseInv, PublishRead, Early

(* The walk frees every node: the one where it ends is the last there is.  *)
LEMMA ExitNodeStep ==
    ASSUME MessageInv, ExitNode
    PROVE  ParseInv' /\ ExitInv'
  <1>1. /\ at = "exit" /\ nodes' = nodes - 1 /\ list' = "dangling"
        /\ job' = job /\ place' = place /\ rest' = rest /\ result' = result /\ ret' = ret
        /\ UNCHANGED lengthVars
    BY DEF ExitNode
  <1>2. /\ Len(result) \in Nat /\ cur \in Nat /\ cur <= Len(result)
        /\ nodes = Len(result) + 1 - cur
    BY <1>1 DEF MessageInv, ExitInv
  <1>3. /\ Filters' /\ Num' = Num /\ encode_len' = Len(encode') /\ length' = input'
        /\ place' \in Nat /\ rest' \in Nat
    BY <1>1 DEF MessageInv, ParseInv, Parsing, Filters, Num, lengthVars, decodeVars
  <1>4. CASE ~IsLast /\ cur' = cur + 1 /\ at' = at
    <2>1. /\ cur' <= Len(result') /\ nodes' = Len(result') + 1 - cur'
          /\ cur' \in Nat /\ nodes' \in Nat /\ Len(result') \in Nat
      BY <1>1, <1>2, <1>4 DEF IsLast
    <2>2. ParseInv'
      BY <1>1, <1>3, <1>4, <2>1 DEF ParseInv, PublishRead, Early
    <2>3. ExitInv'
      BY <1>1, <1>3, <2>1 DEF MessageInv, ExitInv
    <2>. QED
      BY <2>2, <2>3
  <1>5. CASE /\ cur' = cur
             /\ at' \in {"failed", "wild"}
             /\ at' = "wild" => result = <<>>
             /\ cur = Len(result)
    <2>1. nodes' = 0
      BY <1>1, <1>2, <1>5
    <2>2. ParseInv'
      <3>0. nodes' \in Nat /\ list' = "dangling" /\ (at' = "wild" => result' = <<>>)
        BY <1>1, <1>5, <2>1
      <3>1. CASE at' = "failed"
        BY <1>3, <2>1, <3>0, <3>1 DEF ParseInv, PublishRead, Early
      <3>2. CASE at' = "wild"
        BY <1>3, <2>1, <3>0, <3>2 DEF ParseInv, PublishRead, Early
      <3>. QED
        BY <1>5, <3>1, <3>2
    <2>3. ExitInv'
      BY <1>1, <1>3, <1>5 DEF MessageInv, ExitInv
    <2>. QED
      BY <2>2, <2>3
  <1>6. cur = 0 /\ result = <<>> => cur = Len(result)
    OBVIOUS
  <1>. QED
    BY <1>4, <1>5, <1>6 DEF ExitNode, IsLast

LEMMA ParseFilterStep ==
    ASSUME MessageInv, ParseFilter
    PROVE  ParseInv'
  <1>1. /\ at = "filters" /\ rest > 0 /\ job' = job /\ counts' = counts /\ UNCHANGED lengthVars
        /\ encode' = encode /\ input' = input /\ length' = length /\ encode_len' = encode_len
    BY DEF ParseFilter, buildVars, lengthVars, decodeVars
  <1>2. PICK n \in Nat : n = Len(result)
    BY <1>1, InLoop
  <1>3. /\ n < Num /\ Standing = {n + 1}
        /\ items[n + 1] = Item(job, Start, counts, n + 1)
    BY <1>1, <1>2, NextFilter
  <1>4. /\ Filters /\ Same /\ place = Start + Counted(counts, n) /\ rest = Need - place
        /\ nodes = n + 1 /\ list = "unset" /\ Len(counts) = Num /\ input = Counted(counts, Num)
        /\ encode_len = Len(encode) /\ length = input
    BY <1>1, <1>2, InLoop
  <1>5. /\ job \in Jobs /\ Num \in Nat /\ Num = Len(job.filters) /\ Start \in Nat
        /\ input \in Nat /\ Need = Start + input
    BY InvFacts
  <1>. DEFINE f == job.filters[n + 1]
              it == items[n + 1]
  <1>6. /\ Counted(counts, n + 1) = Counted(counts, n) + f.len + 2 + QosByte(job)
        /\ f.len \in Nat /\ f.qos \in Nat /\ QosByte(job) \in 0..1
        /\ Counted(counts, n) \in Nat /\ Counted(counts, n + 1) \in Nat
    <2>1. n \in 0..(Len(counts) - 1) /\ n \in 0..Len(counts) /\ n + 1 \in 0..Len(counts)
      BY <1>3, <1>4, <1>5
    <2>. QED
      BY <1>4, <2>1, CountedFacts
  <1>7. it.len = f.len /\ it.qos = IF job.own THEN f.qos % 4 ELSE f.qos
    BY <1>3 DEF Item
  <1>8. CASE job.kind = "SUBSCRIBE" /\ ~QosFits(it.qos)
    <2>1. Fail("message error")
      BY <1>3, <1>8 DEF ParseFilter
    <2>. QED
      BY <1>1, <2>1, FailStep
  <1>9. CASE job.kind = "SUBSCRIBE" => QosFits(it.qos)
    <2>. DEFINE new == [len |-> it.len, qos |-> it.qos]
    <2>1. /\ result' = Append(result, new) /\ nodes' = nodes + 1 /\ at' = at /\ list' = list
          /\ place' = place + it.len + 2 + QosByte(job)
          /\ rest' = rest - (it.len + 2 + QosByte(job))
      BY <1>3, <1>9 DEF ParseFilter
    <2>2. it.qos \in Nat
      <3>1. f.qos % 4 \in Nat
        BY <1>6
      <3>. QED
        BY <1>6, <1>7, <3>1
    <2>3. job.kind = "SUBSCRIBE" => it.qos = f.qos % 4
      <3>1. SUFFICES ASSUME job.kind = "SUBSCRIBE" PROVE it.qos = f.qos % 4
        OBVIOUS
      <3>2. it.qos < 3
        BY <1>9, <3>1 DEF QosFits, QosMax
      <3>3. \A q \in Nat : q < 3 => q % 4 = q
        OBVIOUS
      <3>4. CASE job.own
        BY <1>7, <3>4
      <3>5. CASE ~job.own
        <4>1. it.qos = f.qos
          BY <1>7, <3>5
        <4>. QED
          BY <1>6, <3>2, <3>3, <4>1
      <3>. QED
        BY <3>4, <3>5
    <2>4. new \in [len : Nat, qos : Nat] /\ new.len = f.len /\ new.qos = it.qos
      BY <1>6, <1>7, <2>2
    <2>5. /\ result \in Seq([len : Nat, qos : Nat])
          /\ \A k \in 1..n : /\ result[k].len = job.filters[k].len
                             /\ job.kind = "SUBSCRIBE" => result[k].qos = job.filters[k].qos % 4
      BY <1>2, <1>4 DEF Same
    <2>6. /\ result' \in Seq([len : Nat, qos : Nat]) /\ Len(result') = n + 1
          /\ result'[n + 1] = new /\ \A k \in 1..n : result'[k] = result[k]
      BY <1>2, <2>1, <2>4, <2>5
    <2>7. Same'
      <3>1. ASSUME NEW k \in 1..(n + 1)
            PROVE  /\ result'[k].len = job.filters[k].len
                   /\ job.kind = "SUBSCRIBE" => result'[k].qos = job.filters[k].qos % 4
        <4>1. CASE k = n + 1
          BY <2>3, <2>4, <2>6, <4>1
        <4>2. CASE k \in 1..n
          BY <2>5, <2>6, <4>2
        <4>. QED
          BY <4>1, <4>2
      <3>. QED
        BY <1>1, <2>6, <3>1 DEF Same
    <2>8. /\ place' = Start + Counted(counts, n + 1) /\ rest' = Need - place'
          /\ place' \in Nat /\ rest' \in Nat
      <3>1. PICK w \in Nat : w = f.len + 2 + QosByte(job)
        BY <1>6
      <3>2. Counted(counts, n + 1) = Counted(counts, n) + w
        BY <1>6, <3>1
      <3>3. place' = place + w /\ rest' = rest - w
        <4>1. place' = place + f.len + 2 + QosByte(job) /\ rest' = rest - (f.len + 2 + QosByte(job))
          BY <1>7, <2>1
        <4>2. place \in Nat /\ rest \in Nat
          BY DEF MessageInv, ParseInv
        <4>. QED
          BY <1>6, <3>1, <4>1, <4>2
      <3>4. Counted(counts, n + 1) <= input
        <4>1. CASE n + 1 = Num
          BY <1>4, <1>5, <4>1
        <4>2. CASE n + 1 < Num
          <5>1. n + 1 \in 0..Len(counts) /\ Num \in 0..Len(counts)
            BY <1>4, <1>5, <4>2
          <5>2. Counted(counts, n + 1) < Counted(counts, Num)
            BY <1>4, <4>2, <5>1, CountedFacts
          <5>. QED
            BY <1>4, <1>5, <1>6, <5>2
        <4>. QED
          BY <1>3, <1>5, <4>1, <4>2
      <3>5. PICK c \in Nat : c = Counted(counts, n)
        BY <1>6
      <3>6. place = Start + c /\ rest = (Start + input) - place
        BY <1>4, <1>5, <3>5
      <3>7. c + w <= input /\ Counted(counts, n + 1) = c + w
        BY <3>2, <3>4, <3>5
      <3>8. Start \in Nat /\ input \in Nat /\ Need = Start + input
        BY <1>5
      <3>. QED
        BY <3>3, <3>6, <3>7, <3>8
    <2>9. /\ Len(result') <= Num' /\ Start' = Start /\ Need' = Need
      BY <1>1, <1>3, <1>5, <2>6 DEF Num, Start, Need
    <2>10. nodes' = Len(result') + 1 /\ nodes' \in Nat /\ list' = "unset"
      BY <1>4, <2>1, <2>6
    <2>11. /\ place' = Start' + Counted(counts', Len(result')) /\ rest' = Need' - place'
      BY <1>1, <2>6, <2>8, <2>9
    <2>12. Filters' /\ encode_len' = Len(encode') /\ length' = input' /\ at' = "filters"
      BY <1>1, <1>4, <2>1 DEF Filters
    <2>. QED
      BY <2>7, <2>8, <2>9, <2>10, <2>11, <2>12 DEF ParseInv, PublishRead, Early
  <1>. QED
    BY <1>8, <1>9

LEMMA FiltersParsedStep ==
    ASSUME MessageInv, FiltersParsed
    PROVE  ParseInv'
  <1>1. /\ at = "filters" /\ rest = 0 /\ nodes' = nodes - 1 /\ at' = "parsed"
        /\ list' = IF result = <<>> THEN "wild" ELSE "list"
        /\ job' = job /\ counts' = counts /\ written' = written
        /\ place' = place /\ rest' = rest /\ result' = result
        /\ encode' = encode /\ input' = input /\ length' = length /\ encode_len' = encode_len
    BY DEF FiltersParsed, buildVars, lengthVars, decodeVars
  <1>2. PICK n \in Nat : n = Len(result)
    BY <1>1, InLoop
  <1>3. /\ Filters /\ Same /\ n <= Num /\ place = Start + Counted(counts, n)
        /\ rest = Need - place
        /\ nodes = n + 1 /\ Len(counts) = Num /\ input = Counted(counts, Num)
        /\ encode_len = Len(encode) /\ length = input
    BY <1>1, <1>2, InLoop
  <1>4. Num \in Nat /\ Start \in Nat /\ input \in Nat /\ Need = Start + input
    BY InvFacts
  <1>5. /\ place \in Nat /\ rest \in Nat
    BY DEF MessageInv, ParseInv
  <1>6. n = Num
    <2>1. CASE n < Num
      <3>1. n \in 0..Len(counts) /\ Num \in 0..Len(counts)
        BY <1>3, <1>4, <2>1
      <3>2. Counted(counts, n) < Counted(counts, Num) /\ Counted(counts, n) \in Nat
        BY <1>3, <2>1, <3>1, CountedFacts
      <3>. QED
        BY <1>1, <1>3, <1>4, <3>2
    <2>. QED
      BY <1>3, <1>4, <2>1
  <1>7. nodes' = Len(result') /\ nodes' \in Nat
    BY <1>1, <1>2, <1>3
  <1>8. Filters' /\ Num' = Num /\ Same'
    BY <1>1, <1>3 DEF Filters, Num, Same
  <1>9. list' = "wild" => Num' = 0
    <2>1. result = <<>> => Len(result) = 0
      OBVIOUS
    <2>. QED
      BY <1>1, <1>2, <1>6, <1>8, <2>1
  <1>10. place' + rest' = written'
    <2>1. written = Need
      BY <1>1, BuiltFacts DEF Parsing
    <2>. QED
      BY <1>1, <1>3, <1>4, <1>5, <2>1
  <1>11. Len(result') = Num' /\ list' \in {"list", "wild"} /\ job'.kind # "PUBLISH"
    BY <1>1, <1>2, <1>6, <1>8 DEF Filters
  <1>12. encode_len' = Len(encode') /\ length' = input' /\ place' \in Nat /\ rest' \in Nat
    BY <1>1, <1>3, <1>5
  <1>13. at' = "parsed"
    BY <1>1
  <1>. QED
    BY <1>7, <1>8, <1>9, <1>10, <1>11, <1>12, <1>13 DEF ParseInv, PublishRead, Early

LEMMA ReleaseStep ==
    ASSUME MessageInv, ReleaseFilters
    PROVE  ParseInv'
  <1>1. /\ at = "parsed" /\ list = "list" /\ nodes' = nodes - Len(result)
        /\ list' = "dangling" /\ at' = "released"
        /\ job' = job /\ counts' = counts /\ written' = written
        /\ place' = place /\ rest' = rest /\ result' = result
        /\ encode' = encode /\ input' = input /\ length' = length /\ encode_len' = encode_len
    BY DEF ReleaseFilters, buildVars, lengthVars, decodeVars
  <1>2. ParseInv
    BY DEF MessageInv
  <1>3. Filters
    BY <1>1, <1>2 DEF ParseInv, PublishRead
  <1>4. /\ Same /\ Len(result) = Num /\ nodes = Len(result) /\ nodes \in Nat
        /\ place \in Nat /\ rest \in Nat /\ place + rest = written
    BY <1>1, <1>2, <1>3 DEF ParseInv, PublishRead
  <1>5. nodes' = 0
    BY <1>1, <1>4
  <1>6. Filters' /\ Num' = Num /\ Same'
    BY <1>1, <1>3, <1>4 DEF Filters, Num, Same
  <1>7. encode_len' = Len(encode') /\ length' = input'
    BY <1>1, <1>2 DEF ParseInv, PublishRead, Parsing
  <1>8. /\ Len(result') = Num' /\ place' \in Nat /\ rest' \in Nat /\ nodes' \in Nat
        /\ place' + rest' = written'
    BY <1>1, <1>4, <1>5, <1>6
  <1>9. at' = "released" /\ list' = "dangling"
    BY <1>1
  <1>. QED
    BY <1>5, <1>6, <1>7, <1>8, <1>9 DEF ParseInv, PublishRead, Early

LEMMA ParsePublishStep ==
    ASSUME MessageInv, ParsePublish
    PROVE  ParseInv'
  <1>1. /\ at = "publish" /\ at' = "parsed"
        /\ job' = job /\ counts' = counts /\ written' = written /\ list' = list /\ nodes' = nodes
        /\ encode' = encode /\ input' = input /\ length' = length /\ encode_len' = encode_len
    BY DEF ParsePublish, buildVars, lengthVars, decodeVars
  <1>2. /\ job.kind = "PUBLISH" /\ place = Start /\ rest = input
        /\ encode_len = Len(encode) /\ length = input /\ nodes \in Nat
        /\ list \in {"unset", "list", "dangling", "wild"} /\ (list # "unset" => Filters)
    BY <1>1 DEF MessageInv, ParseInv, PublishRead, Parsing
  <1>3. /\ job \in Jobs /\ Start \in Nat /\ input \in Nat /\ Need = Start + input
    BY InvFacts
  <1>4. /\ written = Need /\ input = PublishLen(job)
        /\ items = <<[off |-> Start, len |-> job.topic, qos |-> 0]>>
    <2>1. at \in Parsing \cup {"decode"}
      BY <1>1 DEF Parsing
    <2>2. job.kind = "PUBLISH"
      BY <1>2
    <2>. QED
      BY <2>1, <2>2, BuiltFacts
  <1>5. /\ IdBytes(job) \in Nat /\ job.topic \in Nat /\ job.payload \in Nat
        /\ input = job.topic + 2 + IdBytes(job) + job.payload
    <2>1. job.topic \in Nat /\ job.payload \in Nat
      BY <1>3, JobFacts
    <2>2. IdBytes(job) \in {0, 2}
      BY DEF IdBytes
    <2>. QED
      BY <1>4, <2>1, <2>2 DEF PublishLen
  <1>6. ASSUME NEW k \in Standing PROVE items[k].len = job.topic
    <2>1. k \in DOMAIN items
      BY DEF Standing
    <2>2. k = 1
      BY <1>4, <2>1
    <2>. QED
      BY <1>4, <2>2
  <1>7. PICK k \in Standing :
          LET left == rest - (items[k].len + 2) - IdBytes(job)
          IN  /\ result' = <<[topic |-> items[k].len, payload |-> left]>>
              /\ rest' = left
              /\ place' = place + items[k].len + 2 + IdBytes(job)
    BY DEF ParsePublish
  <1>. DEFINE left == rest - (job.topic + 2) - IdBytes(job)
  <1>8. /\ result' = <<[topic |-> job.topic, payload |-> left]>> /\ rest' = left
        /\ place' = place + job.topic + 2 + IdBytes(job)
    BY <1>6, <1>7
  <1>9. left = job.payload
    BY <1>2, <1>5
  <1>10. /\ rest' \in Nat /\ place' \in Nat /\ place' + rest' = written'
    <2>1. place' = Start + job.topic + 2 + IdBytes(job) /\ rest' = job.payload
      BY <1>2, <1>8, <1>9
    <2>2. written' = Start + (job.topic + 2 + IdBytes(job) + job.payload)
      BY <1>1, <1>3, <1>4, <1>5
    <2>3. /\ IdBytes(job) \in Nat /\ job.topic \in Nat /\ job.payload \in Nat /\ Start \in Nat
      BY <1>3, <1>5
    <2>. QED
      BY <2>1, <2>2, <2>3
  <1>11. result' = <<[topic |-> job'.topic, payload |-> job'.payload]>>
    BY <1>1, <1>8, <1>9
  <1>12. ~Filters /\ ~Filters' /\ list' = "unset" /\ job'.kind = "PUBLISH"
    BY <1>1, <1>2 DEF Filters
  <1>13. at' = "parsed" /\ encode_len' = Len(encode') /\ length' = input' /\ nodes' \in Nat
    BY <1>1, <1>2
  <1>. QED
    BY <1>10, <1>11, <1>12, <1>13 DEF ParseInv, PublishRead, Early

(* A step that leaves the parser alone.                                    *)
Idle ==
    \/ at' = at
    \/ at' \in Early \cup {"items", "built", "refused", "overrun", "no memory", "out of array"}
       /\ at \in Early \cup {"items"}
    \/ at \in {"array", "values"}
       /\ at' \in {"values", "parsed", "bad qos", "no memory", "out of array"}

ParserFrame ==
    /\ job' = job /\ result' = result /\ list' = list
    /\ nodes' = nodes /\ place' = place /\ rest' = rest
    /\ at \in Parsing => /\ counts' = counts /\ written' = written /\ encode' = encode
                        /\ input' = input /\ length' = length /\ encode_len' = encode_len
    /\ at = "decode" => given' = given /\ asked' = asked /\ encode' = encode

LEMMA ParserNames ==
    ASSUME ParserFrame
    PROVE  /\ (Filters' <=> Filters) /\ Num' = Num /\ (Same' <=> Same)
           /\ at \in Parsing => Start' = Start /\ Need' = Need
  <1>1. job' = job /\ result' = result
    BY DEF ParserFrame
  <1>2. (Filters' <=> Filters) /\ Num' = Num
    BY <1>1 DEF Filters, Num
  <1>3. Same' <=> Same
    BY <1>1 DEF Same
  <1>4. at \in Parsing => Start' = Start /\ Need' = Need
    BY DEF ParserFrame, Start, Need
  <1>. QED
    BY <1>2, <1>3, <1>4

LEMMA ParserStays ==
    ASSUME ParseInv, at' = at, ParserFrame
    PROVE  ParseInv'
  BY ParserNames DEF ParseInv, PublishRead, ParserFrame, Parsing, Early

LEMMA ParserBegins ==
    ASSUME ParseInv, ParserFrame, at \in Early \cup {"items"},
           at' \in Early \cup {"items", "built", "refused", "overrun", "no memory",
                             "out of array"}
    PROVE  ParseInv'
  BY ParserNames DEF ParseInv, PublishRead, ParserFrame, Parsing, Early

LEMMA ParserInArray ==
    ASSUME ParseInv, ParserFrame, at \in {"array", "values"},
           at' \in {"values", "parsed", "bad qos", "no memory", "out of array"}
    PROVE  ParseInv'
  <1>1. job.kind = "SUBACK" /\ ~Filters
    BY DEF ParseInv, Filters
  <1>. QED
    BY <1>1, ParserNames DEF ParseInv, PublishRead, ParserFrame, Parsing, Early

LEMMA ParserIdle ==
    ASSUME MessageInv, Idle, ParserFrame
    PROVE  ParseInv'
  BY ParserStays, ParserBegins, ParserInArray DEF MessageInv, Idle

LEMMA LengthIsIdle ==
    ASSUME MessageInv, LengthStep \/ LengthAlone
    PROVE  Idle /\ ParserFrame
  <1>1. UNCHANGED <<job, at, result, list, nodes, place, rest>>
    BY DEF LengthStep, LengthAlone, messageVars, parseVars
  <1>2. at = "encode" \/ at = "decode"
    BY DEF LengthStep, LengthAlone, MessageInv, Places
  <1>3. at = "decode" => pc # "encode" /\ job.kind # "length"
    BY DEF MessageInv, Places
  <1>4. at = "decode" => given' = given /\ asked' = asked /\ encode' = encode
    BY <1>3 DEF LengthStep, LengthAlone, EncodeByte, DecodeByte, DecodeReturns
  <1>5. at \notin Parsing
    BY <1>2 DEF Parsing
  <1>. QED
    BY <1>1, <1>4, <1>5 DEF Idle, ParserFrame

LEMMA BuildIsIdle ==
    ASSUME Build
    PROVE  Idle /\ ParserFrame
  <1>1. UNCHANGED <<job, result, list, nodes, place, rest>>
    BY DEF Build, CountFilter, CountDone, CheckRoom, BuildFilter, FiltersDone, BuildValues,
           BuildPublish, parseVars
  <1>2. at = "count" \/ at = "encode" \/ at = "items"
    BY DEF Build, CountFilter, CountDone, CheckRoom, BuildFilter, FiltersDone, BuildValues,
           BuildPublish
  <1>3. at' \in {"count", "encode", "items", "built", "refused", "overrun"}
    BY DEF Build, CountFilter, CountDone, CheckRoom, BuildFilter, FiltersDone, BuildValues,
           BuildPublish
  <1>. QED
    BY <1>1, <1>2, <1>3 DEF Idle, ParserFrame, Parsing, Early

LEMMA ArrayIsIdle ==
    ASSUME Array
    PROVE  Idle /\ ParserFrame
  <1>1. UNCHANGED <<job, result, list, nodes, place, rest>>
    BY DEF Array, ArrayInit, ArrayFill, ArrayGrow, ArrayDone, parseVars
  <1>2. UNCHANGED <<counts, written, encode, input, length, encode_len, given, asked>>
    BY DEF Array, ArrayInit, ArrayFill, ArrayGrow, ArrayDone, buildVars, lengthVars, decodeVars
  <1>3. \/ /\ at = "init" \/ at = "append"
           /\ at' \in {"init", "append", "encode", "no memory", "out of array"}
        \/ /\ at \in {"array", "values"}
           /\ at' \in {"values", "parsed", "bad qos", "no memory", "out of array"}
    <2>1. CASE ArrayInit
      BY <2>1 DEF ArrayInit
    <2>2. CASE ArrayFill
      BY <2>2 DEF ArrayFill
    <2>3. CASE ArrayGrow
      BY <2>3 DEF ArrayGrow
    <2>4. CASE ArrayDone
      BY <2>4 DEF ArrayDone
    <2>. QED
      BY <2>1, <2>2, <2>3, <2>4 DEF Array
  <1>4. Idle
    BY <1>3 DEF Idle, Early
  <1>. QED
    BY <1>1, <1>2, <1>4 DEF ParserFrame

LEMMA ParseSteps ==
    ASSUME MessageInv, [MessageNext]_allVars
    PROVE  ParseInv'
  <1>1. CASE LengthStep \/ LengthAlone
    BY <1>1, LengthIsIdle, ParserIdle
  <1>2. CASE Build
    BY <1>2, BuildIsIdle, ParserIdle
  <1>3. CASE Array
    BY <1>3, ArrayIsIdle, ParserIdle
  <1>4. CASE UNCHANGED allVars
    <2>1. Idle /\ ParserFrame
      BY <1>4 DEF allVars, messageVars, parseVars, buildVars, lengthVars, decodeVars,
                  Idle, ParserFrame
    <2>. QED
      BY <2>1, ParserIdle
  <1>5. CASE FilterNoMemory
    <2>1. at = "filters" /\ Fail("no buffer") /\ job' = job /\ UNCHANGED lengthVars
      BY <1>5 DEF FilterNoMemory
    <2>. QED
      BY <2>1, FailStep
  <1>. QED
    BY <1>1, <1>2, <1>3, <1>4, <1>5, ParseLengthStep, ParseHeaderStep, ParseFilterStep,
       FiltersParsedStep, ExitNodeStep, ReleaseStep, ParsePublishStep DEF MessageNext, Parse

-----------------------------------------------------------------------------
(* The error exits of a parse of filters.                                  *)

(* A step that does not touch the walk.                                    *)
ExitFrame ==
    /\ ret' = ret /\ cur' = cur /\ job' = job
    /\ at' = "exit" => at = "exit" /\ result' = result /\ nodes' = nodes

LEMMA ExitKept ==
    ASSUME ExitInv, ExitFrame
    PROVE  ExitInv'
  <1>1. ret' = ret /\ cur' = cur /\ job' = job /\ Num' = Num
    BY DEF ExitFrame, Num
  <1>2. at' = "exit" => /\ Len(result') \in Nat /\ cur <= Len(result')
                        /\ nodes' = Len(result') + 1 - cur
    BY DEF ExitFrame, ExitInv
  <1>. QED
    BY <1>1, <1>2 DEF ExitInv

(* What this library sent and the parser refuses has a QoS of 3.           *)
LEMMA FailEnters ==
    ASSUME MessageInv, ParseFilter \/ FilterNoMemory, at' # "filters"
    PROVE  ExitInv'
  <1>1. at = "filters" /\ rest > 0 /\ job' = job
    BY DEF ParseFilter, FilterNoMemory
  <1>2. PICK n \in Nat : n = Len(result)
    BY <1>1, InLoop
  <1>3. /\ n < Num /\ Standing = {n + 1} /\ nodes = n + 1 /\ Num \in Nat
        /\ items[n + 1] = Item(job, Start, counts, n + 1)
    BY <1>1, <1>2, NextFilter, InLoop, InvFacts
  <1>4. n + 1 \in 1..Num /\ job \in Jobs /\ Num = Len(job.filters)
    BY <1>3, InvFacts
  <1>5. PICK q \in Nat : q = job.filters[n + 1].qos
    BY <1>4, WidthFacts
  <1>6. job.own => items[n + 1].qos = q % 4
    BY <1>3, <1>5 DEF Item
  <1>7. \/ Fail("no buffer")
        \/ Fail("message error") /\ job.kind = "SUBSCRIBE" /\ ~QosFits(items[n + 1].qos)
    BY <1>1, <1>3 DEF ParseFilter, FilterNoMemory
  <1>8. /\ at' = "exit" /\ cur' = 0 /\ result' = result /\ nodes' = nodes
        /\ \/ ret' = "no buffer"
           \/ /\ ret' = "message error" /\ job.kind = "SUBSCRIBE"
              /\ ~QosFits(items[n + 1].qos)
    BY <1>7 DEF Fail
  <1>9. q % 4 \in 0..3 /\ (~QosFits(q % 4) => q % 4 = QosMax)
    BY <1>5 DEF QosFits, QosMax
  <1>10. ret' = "message error" /\ job.own => job.filters[n + 1].qos % 4 = QosMax
    BY <1>5, <1>6, <1>8, <1>9
  <1>11. /\ ret' \in {"success", "message error", "no buffer"} /\ cur' \in Nat
         /\ ret' = "message error" => job'.kind = "SUBSCRIBE"
         /\ Len(result') \in Nat /\ cur' <= Len(result')
         /\ nodes' = Len(result') + 1 - cur'
    <2>1. /\ ret' \in {"success", "message error", "no buffer"} /\ cur' \in Nat
          /\ ret' = "message error" => job'.kind = "SUBSCRIBE"
      BY <1>1, <1>8
    <2>2. Len(result') = n /\ nodes' = n + 1 /\ cur' = 0
      BY <1>2, <1>3, <1>8
    <2>3. Len(result') \in Nat /\ cur' <= Len(result') /\ nodes' = Len(result') + 1 - cur'
      BY <2>2
    <2>. QED
      BY <2>1, <2>3
  <1>12. ret' = "message error" /\ job'.own =>
             \E k \in 1..Num' : job'.filters[k].qos % 4 = QosMax
    <2>1. Num' = Num
      BY <1>1 DEF Num
    <2>. QED
      BY <1>1, <1>4, <1>10, <2>1
  <1>. QED
    BY <1>11, <1>12 DEF ExitInv

LEMMA ExitSteps ==
    ASSUME MessageInv, [MessageNext]_allVars
    PROVE  ExitInv'
  <1>0. ExitInv
    BY DEF MessageInv
  <1>1. CASE LengthStep \/ LengthAlone \/ UNCHANGED allVars
    <2>1. ExitFrame
      BY <1>1 DEF LengthStep, LengthAlone, allVars, messageVars, parseVars, exitVars, ExitFrame
    <2>. QED
      BY <1>0, <2>1, ExitKept
  <1>2. CASE Build
    <2>1. ExitFrame
      BY <1>2 DEF Build, CountFilter, CountDone, CheckRoom, BuildFilter, FiltersDone,
                  BuildValues, BuildPublish, parseVars, exitVars, ExitFrame
    <2>. QED
      BY <1>0, <2>1, ExitKept
  <1>3. CASE Array
    <2>1. ExitFrame
      BY <1>3 DEF Array, ArrayInit, ArrayFill, ArrayGrow, ArrayDone, parseVars, exitVars,
                  ExitFrame
    <2>. QED
      BY <1>0, <2>1, ExitKept
  <1>4. CASE ParseLength \/ ParseHeader \/ FiltersParsed \/ ReleaseFilters \/ ParsePublish
    <2>1. ExitFrame
      BY <1>4 DEF ParseLength, ParseHeader, FiltersParsed, ReleaseFilters, ParsePublish,
                  parseVars, exitVars, ExitFrame
    <2>. QED
      BY <1>0, <2>1, ExitKept
  <1>5. CASE (ParseFilter \/ FilterNoMemory) /\ at' = "filters"
    <2>1. ExitFrame
      BY <1>5 DEF ParseFilter, FilterNoMemory, Fail, exitVars, ExitFrame
    <2>. QED
      BY <1>0, <2>1, ExitKept
  <1>. QED
    BY <1>1, <1>2, <1>3, <1>4, <1>5, FailEnters, ExitNodeStep DEF MessageNext, Parse

-----------------------------------------------------------------------------
(* The array of QoS values.                                                *)

(* Its capacity grows unless the 16 bits of it are used up.                *)
LEMMA GrownFacts ==
    ASSUME NEW c \in Nat, c >= 1, c < U16
    PROVE  /\ Grown(c) \in Nat /\ Grown(c) < U16
           /\ c + 1 <= U16 - DefaultSize => c < Grown(c)
  <1>. DEFINE g == IF c < Threshold THEN 2 * c ELSE c + DefaultSize
  <1>1. g \in Nat /\ c < g
    BY DEF Threshold, DefaultSize
  <1>2. g % U16 \in Nat /\ g % U16 < U16 /\ (g < U16 => g % U16 = g)
    BY <1>1, ModBelow
  <1>3. c + 1 <= U16 - DefaultSize => g < U16
    BY DEF Threshold, DefaultSize, U16
  <1>. QED
    BY <1>1, <1>2, <1>3 DEF Grown

LEMMA GoodFacts ==
    ASSUME MessageInv, job.kind = "SUBACK", at = "values" => rest = job.values
    PROVE  /\ InArray => Good \in Nat /\ Good <= job.values
           /\ at = "append" => Good = job.values
           /\ at = "values" /\ job.bad = 0 => Good = job.values
           /\ job.values \in Nat /\ job.bad \in Nat
  <1>1. job \in Jobs
    BY DEF MessageInv, Places
  <1>2. job.values \in Nat /\ job.bad \in Nat /\ job.bad <= job.values
    BY <1>1, JobFacts
  <1>4. at = "append" => Good = job.values
    BY DEF Good, Target
  <1>5. at = "values" => Good = IF job.bad > 0 THEN job.bad - 1 ELSE job.values
    BY DEF Good, Target
  <1>6. InArray => Good \in Nat /\ Good <= job.values
    BY <1>2, <1>4, <1>5 DEF InArray
  <1>. QED
    BY <1>2, <1>4, <1>5, <1>6

(* A step that leaves the array alone, and goes on with it in no case.     *)
ArrayFrame ==
    /\ capacity' = capacity /\ size' = size /\ job' = job
    /\ \/ at' = at /\ rest' = rest /\ written' = written
       \/ /\ at' \notin {"init", "append", "values", "array", "out of array", "bad qos"}
          /\ at' = "parsed" => job.kind # "SUBACK"

LEMMA ArrayKept ==
    ASSUME ArrayInv, ArrayFrame
    PROVE  ArrayInv'
  <1>1. capacity' = capacity /\ size' = size /\ job' = job
    BY DEF ArrayFrame
  <1>2. CASE at' = at /\ rest' = rest /\ written' = written
    <2>1. Good' = Good /\ (InArray' <=> InArray)
      BY <1>1, <1>2 DEF Good, Target, InArray
    <2>. QED
      BY <1>1, <1>2, <2>1 DEF ArrayInv
  <1>3. CASE /\ at' \notin {"init", "append", "values", "array", "out of array", "bad qos"}
             /\ at' = "parsed" => job.kind # "SUBACK"
    <2>1. ~InArray'
      BY <1>3 DEF InArray
    <2>. QED
      BY <1>1, <1>3, <2>1 DEF ArrayInv
  <1>. QED
    BY <1>2, <1>3 DEF ArrayFrame

LEMMA ArrayInitStep ==
    ASSUME MessageInv, ArrayInit
    PROVE  ArrayInv'
  <1>0. /\ size' = 0 /\ rest' = rest
        /\ capacity' = IF Asks % U16 = 0 THEN DefaultSize ELSE Asks % U16
    BY DEF ArrayInit, parseVars
  <1>1. /\ at = "init" \/ at = "array"
        /\ at = "init" => at' = "append" \/ at' = "no memory"
        /\ at = "array" => at' = "values" \/ at' = "no memory"
        /\ job' = job /\ written' = written
    BY DEF ArrayInit, buildVars
  <1>2. job \in Jobs /\ ArrayInv /\ job.kind = "SUBACK"
    BY <1>1 DEF MessageInv, Places, ParseInv
  <1>3. /\ job.values \in Nat /\ job.capacity \in Nat
        /\ job.capacity < U16 /\ job.bad \in Nat /\ job.bad <= job.values
    BY <1>2, JobFacts, JobAssumption
  <1>4. at = "array" => rest = job.values
    BY <1>2 DEF ArrayInv
  <1>5. Asks \in Nat /\ (at = "array" => Asks = rest)
    BY <1>1, <1>3, <1>4 DEF Asks
  <1>6. Asks % U16 \in Nat /\ Asks % U16 < U16 /\ (Asks < U16 => Asks % U16 = Asks)
    BY <1>5, ModBelow
  <1>7. DefaultSize \in Nat /\ DefaultSize >= 1 /\ DefaultSize < U16
    BY DEF DefaultSize, U16
  <1>8. /\ capacity' \in Nat /\ capacity' < U16 /\ capacity' >= 1
        /\ Asks < U16 => Asks <= capacity'
    <2>1. CASE Asks % U16 = 0
      BY <1>0, <1>5, <1>6, <1>7, <2>1
    <2>2. CASE Asks % U16 # 0
      BY <1>0, <1>5, <1>6, <2>2
    <2>. QED
      BY <2>1, <2>2
  <1>9. \/ at' = "append" /\ at = "init"
        \/ at' = "values" /\ at = "array"
        \/ at' = "no memory"
    BY <1>1
  <1>10. InArray' => Good' \in Nat
    <2>1. CASE at' = "append"
      BY <1>1, <1>3, <2>1 DEF Good, Target
    <2>2. CASE at' = "values"
      <3>1. at = "array"
        BY <1>9, <2>2
      <3>2. rest' = job.values /\ job' = job
        BY <1>0, <1>1, <1>4, <3>1
      <3>3. CASE job.bad > 0
        <4>1. Good' = job.bad - 1
          BY <2>2, <3>2, <3>3 DEF Good
        <4>. QED
          BY <1>3, <3>3, <4>1
      <3>4. CASE ~(job.bad > 0)
        <4>1. Good' = job.values
          BY <2>2, <3>2, <3>4 DEF Good, Target
        <4>. QED
          BY <1>3, <4>1
      <3>. QED
        BY <3>3, <3>4
    <2>. QED
      BY <2>1, <2>2 DEF InArray
  <1>11. InArray' => size' <= capacity' /\ size' <= Good'
    BY <1>0, <1>8, <1>10
  <1>12. at' = "values" => /\ rest' = job'.values
                           /\ rest' < U16 => rest' <= capacity'
    <2>1. at' = "values" => at = "array"
      BY <1>9
    <2>2. at' = "values" => rest' = job'.values /\ rest' = Asks
      BY <1>0, <1>1, <1>4, <1>5, <2>1
    <2>. QED
      BY <1>8, <2>2
  <1>13. size' \in Nat /\ size' <= U16
    BY <1>0, U16Nat
  <1>14. /\ at' \notin {"init", "array", "out of array", "parsed", "bad qos"}
         /\ at' = "append" => written' = 0
    BY <1>1, <1>2, <1>9 DEF ArrayInv
  <1>. QED
    BY <1>8, <1>11, <1>12, <1>13, <1>14 DEF ArrayInv

LEMMA ArrayFillStep ==
    ASSUME MessageInv, ArrayFill
    PROVE  ArrayInv'
  <1>1. /\ at \in {"append", "values"} /\ size < capacity /\ size < Good
        /\ size' = (IF Good < capacity THEN Good ELSE capacity)
        /\ capacity' = capacity /\ job' = job /\ rest' = rest /\ at' = at
        /\ written' = written
    BY DEF ArrayFill, parseVars, buildVars
  <1>2. ArrayInv /\ job.kind = "SUBACK" /\ InArray
    BY <1>1 DEF MessageInv, Places, ParseInv, InArray
  <1>3. Good \in Nat /\ U16 \in Nat
    BY <1>2, GoodFacts, U16Nat DEF ArrayInv
  <1>4. capacity \in Nat /\ capacity < U16 /\ capacity >= 1
    BY <1>2 DEF ArrayInv
  <1>5. size' \in Nat /\ size' <= capacity' /\ size' <= Good
    <2>1. CASE Good < capacity
      BY <1>1, <1>3, <1>4, <2>1
    <2>2. CASE ~(Good < capacity)
      BY <1>1, <1>3, <1>4, <2>2
    <2>. QED
      BY <2>1, <2>2
  <1>6. Good' = Good /\ (InArray' <=> InArray)
    BY <1>1 DEF Good, Target, InArray
  <1>7. size' <= U16
    BY <1>1, <1>3, <1>4, <1>5
  <1>8. /\ at' \notin {"init", "array", "out of array", "parsed", "bad qos"}
        /\ at' = "append" => written' = 0
    BY <1>1, <1>2 DEF ArrayInv
  <1>9. at' = "values" => rest' = job'.values /\ (rest' < U16 => rest' <= capacity')
    BY <1>1, <1>2 DEF ArrayInv
  <1>. QED
    BY <1>1, <1>4, <1>5, <1>6, <1>7, <1>8, <1>9 DEF ArrayInv

LEMMA ArrayGrowStep ==
    ASSUME MessageInv, ArrayGrow
    PROVE  ArrayInv'
  <1>1. /\ at \in {"append", "values"} /\ size >= capacity /\ size < Good
        /\ job' = job /\ rest' = rest /\ written' = written
    BY DEF ArrayGrow, parseVars, buildVars
  <1>2. ArrayInv /\ job.kind = "SUBACK" /\ InArray
    BY <1>1 DEF MessageInv, Places, ParseInv, InArray
  <1>3. /\ Good \in Nat /\ Good <= job.values
        /\ job.values \in Nat /\ U16 \in Nat
    BY <1>2, GoodFacts, U16Nat DEF ArrayInv
  <1>4. /\ capacity \in Nat /\ capacity < U16 /\ capacity >= 1 /\ size \in Nat
        /\ size <= capacity /\ size <= U16
    BY <1>2 DEF ArrayInv
  <1>5. size = capacity
    BY <1>1, <1>4
  <1>6. \/ at = "append" /\ written = 0
        \/ at = "values" /\ rest = job.values /\ job.values >= U16
    <2>1. CASE at = "values"
      <3>1. rest = job.values /\ (rest < U16 => rest <= capacity)
        BY <1>2, <2>1 DEF ArrayInv
      <3>2. ~(job.values <= capacity)
        BY <1>1, <1>3, <1>4
      <3>. QED
        BY <1>3, <2>1, <3>1, <3>2
    <2>2. CASE at = "append"
      BY <1>2, <2>2 DEF ArrayInv
    <2>. QED
      BY <1>1, <2>1, <2>2
  <1>7. CASE at' = "no memory"
    <2>1. capacity' = capacity /\ size' = size
      BY <1>1, <1>7 DEF ArrayGrow, arrayVars
    <2>2. ArrayFrame
      BY <1>1, <1>7, <2>1 DEF ArrayFrame
    <2>. QED
      BY <1>2, <2>2, ArrayKept
  <1>8. CASE /\ capacity' = Grown(capacity) /\ size' = size + 1
             /\ at' = IF size < capacity' THEN at ELSE "out of array"
    <2>1. /\ capacity' \in Nat /\ capacity' < U16
          /\ capacity + 1 <= U16 - DefaultSize => capacity < capacity'
      BY <1>4, <1>8, GrownFacts
    <2>6. size' = size + 1 /\ size < Good
      BY <1>1, <1>8
    <2>2. size' \in Nat /\ size' <= Good /\ U16 \in Nat /\ DefaultSize \in Nat
      BY <1>3, <1>4, <2>6, U16Nat DEF DefaultSize
    <2>3. size' <= U16
      BY <1>4, <1>5, <2>2, <2>6
    <2>4. CASE size < capacity'
      <3>1. at' = at /\ capacity' >= 1 /\ size' <= capacity'
        BY <1>4, <1>8, <2>1, <2>4
      <3>2. Good' = Good
        BY <1>1, <3>1 DEF Good, Target
      <3>3. at' = "values" => rest' = job'.values /\ ~(rest' < U16)
        BY <1>1, <1>3, <1>6, <3>1
      <3>4. /\ at' \in {"append", "values"} /\ (at' = "append" => written' = 0)
        BY <1>1, <1>6, <3>1
      <3>. QED
        BY <2>1, <2>2, <2>3, <3>1, <3>2, <3>3, <3>4 DEF ArrayInv
    <2>5. CASE ~(size < capacity')
      <3>1. at' = "out of array"
        BY <1>8, <2>5
      <3>2. ~(capacity + 1 <= U16 - DefaultSize)
        BY <1>5, <2>1, <2>5
      <3>3. size' > U16 - DefaultSize
        BY <1>4, <1>5, <2>2, <2>6, <3>2
      <3>4. ~InArray'
        BY <3>1 DEF InArray
      <3>5. written' = 0 \/ job'.values >= U16
        BY <1>1, <1>6
      <3>. QED
        BY <2>1, <2>2, <2>3, <3>1, <3>3, <3>4, <3>5 DEF ArrayInv
    <2>. QED
      BY <2>4, <2>5
  <1>. QED
    BY <1>7, <1>8 DEF ArrayGrow

LEMMA ArrayDoneStep ==
    ASSUME MessageInv, ArrayDone
    PROVE  ArrayInv'
  <1>1. /\ at \in {"append", "values"} /\ size >= Good
        /\ at' = IF at = "append" THEN "encode" ELSE IF job.bad > 0 THEN "bad qos" ELSE "parsed"
        /\ capacity' = capacity /\ size' = size /\ job' = job /\ rest' = rest
    BY DEF ArrayDone, parseVars, arrayVars
  <1>5. size >= Good /\ size' = size
    BY <1>1
  <1>2. ArrayInv /\ job.kind = "SUBACK" /\ InArray
    BY <1>1 DEF MessageInv, Places, ParseInv, InArray
  <1>3. CASE at = "append"
    <2>1. ArrayFrame
      BY <1>1, <1>3 DEF ArrayFrame
    <2>. QED
      BY <1>2, <2>1, ArrayKept
  <1>4. CASE at = "values"
    <2>1. job.own => job.bad = 0
      BY <1>2, <1>4, BuiltFacts DEF Parsing
    <2>2. /\ job.bad \in Nat /\ Good \in Nat /\ (job.bad = 0 => Good = job.values)
      BY <1>2, <1>4, GoodFacts DEF ArrayInv
    <2>3. size \in Nat /\ size <= Good
      BY <1>2 DEF ArrayInv
    <2>4. size' = Good
      BY <1>5, <2>2, <2>3
    <2>5. at' = "bad qos" => ~job'.own
      <3>1. at' = "bad qos" => job.bad > 0
        BY <1>1, <1>4
      <3>2. job.bad > 0 => ~job.own
        BY <2>1
      <3>. QED
        BY <1>1, <3>1, <3>2
    <2>6. at' = "parsed" => /\ job'.bad = 0 /\ size' = job'.values
                            /\ job'.values < U16
      <3>1. at' = "parsed" => ~(job.bad > 0)
        BY <1>1, <1>4
      <3>2. ~(job.bad > 0) => job.bad = 0
        BY <2>2
      <3>3. size < U16
        BY <1>2, <1>4, U16Nat DEF ArrayInv
      <3>4. Good < U16
        BY <1>5, <2>4, <3>3
      <3>. QED
        BY <1>1, <2>2, <2>4, <3>1, <3>2, <3>4
    <2>7. at' \in {"bad qos", "parsed"} /\ ~InArray'
      BY <1>1, <1>4 DEF InArray
    <2>8. /\ capacity' \in Nat /\ capacity' < U16 /\ size' \in Nat /\ size' <= U16
      BY <1>1, <1>2 DEF ArrayInv
    <2>. QED
      BY <2>5, <2>6, <2>7, <2>8 DEF ArrayInv
  <1>. QED
    BY <1>1, <1>3, <1>4

LEMMA ArraySteps ==
    ASSUME MessageInv, [MessageNext]_allVars
    PROVE  ArrayInv'
  <1>0. ArrayInv /\ ParseInv
    BY DEF MessageInv
  <1>1. CASE LengthStep \/ LengthAlone \/ UNCHANGED allVars
    <2>1. ArrayFrame
      BY <1>1 DEF LengthStep, LengthAlone, allVars, messageVars, buildVars, parseVars, arrayVars,
                  ArrayFrame
    <2>. QED
      BY <1>0, <2>1, ArrayKept
  <1>2. CASE Build
    <2>1. capacity' = capacity /\ size' = size /\ job' = job
      BY <1>2 DEF Build, CountFilter, CountDone, CheckRoom, BuildFilter, FiltersDone,
                  BuildValues, BuildPublish, arrayVars
    <2>2. at' \in {"count", "encode", "items", "built", "refused", "overrun"}
      BY <1>2 DEF Build, CountFilter, CountDone, CheckRoom, BuildFilter, FiltersDone,
                  BuildValues, BuildPublish
    <2>3. ArrayFrame
      BY <2>1, <2>2 DEF ArrayFrame
    <2>. QED
      BY <1>0, <2>3, ArrayKept
  <1>3. CASE ParseHeader
    <2>1. /\ at = "decode" /\ pc = "decoded" /\ job' = job /\ capacity' = capacity /\ size' = size
      BY <1>3 DEF ParseHeader, arrayVars
    <2>2. rest' = input - IdentifierLen
      BY <2>1, <1>3, WholeFieldRead DEF ParseHeader, BehindIdentifier
    <2>3. \/ at' = "unread" \/ at' = "publish" \/ at' = "filters" \/ at' = "no memory"
          \/ at' = "array" /\ job.kind = "SUBACK"
      BY <1>3 DEF ParseHeader
    <2>4. CASE at' = "array"
      <3>1. job.kind = "SUBACK"
        BY <2>3, <2>4
      <3>2. input = 2 + job.values /\ job.values \in Nat /\ IdentifierLen = 2
        BY <2>1, <3>1, BuiltFacts, InvFacts, JobFacts DEF IdentifierLen
      <3>3. rest' = job'.values
        BY <2>1, <2>2, <3>2
      <3>4. ~InArray'
        BY <2>4 DEF InArray
      <3>. QED
        BY <1>0, <2>1, <2>4, <3>3, <3>4 DEF ArrayInv
    <2>5. CASE at' # "array"
      <3>1. ArrayFrame
        BY <2>1, <2>3, <2>5 DEF ArrayFrame
      <3>. QED
        BY <1>0, <3>1, ArrayKept
    <2>. QED
      BY <2>4, <2>5
  <1>4. CASE ParseLength \/ ParseFilter \/ FilterNoMemory \/ ExitNode \/ ReleaseFilters
    <2>1. capacity' = capacity /\ size' = size /\ job' = job
      BY <1>4 DEF ParseLength, ParseFilter, FilterNoMemory, ExitNode, ReleaseFilters, arrayVars
    <2>3. at' \in {"decode", "filters", "exit", "failed", "wild", "released"}
      BY <1>4 DEF ParseLength, ParseFilter, FilterNoMemory, Fail, ExitNode, ReleaseFilters
    <2>4. ArrayFrame
      BY <2>1, <2>3 DEF ArrayFrame
    <2>. QED
      BY <1>0, <2>4, ArrayKept
  <1>5. CASE FiltersParsed \/ ParsePublish
    <2>1. capacity' = capacity /\ size' = size /\ job' = job /\ at' = "parsed"
      BY <1>5 DEF FiltersParsed, ParsePublish, arrayVars
    <2>2. at = "filters" \/ at = "publish"
      BY <1>5 DEF FiltersParsed, ParsePublish
    <2>3. job.kind # "SUBACK"
      BY <1>0, <2>2 DEF ParseInv, Filters
    <2>4. ArrayFrame
      BY <2>1, <2>3 DEF ArrayFrame
    <2>. QED
      BY <1>0, <2>4, ArrayKept
  <1>. QED
    BY <1>1, <1>2, <1>3, <1>4, <1>5, ArrayInitStep, ArrayFillStep, ArrayGrowStep,
       ArrayDoneStep DEF MessageNext, Parse, Array

LEMMA MessageAlways == MessageSpec => []MessageInv
  <1>1. MessageInv /\ [MessageNext]_allVars => MessageInv'
    BY FieldSteps, PlacesSteps, CountsSteps, ItemsSteps, ParseSteps, ArraySteps, ExitSteps
       DEF MessageInv
  <1>. QED
    BY MessageStart, <1>1, PTL DEF MessageSpec

-----------------------------------------------------------------------------
(* The length field of a message holds as the field alone does: types,     *)
(* and the decoder stays in its four bytes (message.c:36-45).              *)
THEOREM MessageFieldType == MessageSpec => []TypeOK
  BY MessageAlways, PTL DEF MessageInv, FieldInv

(* The field of a message that is built is the shortest for its length     *)
(* (message.c:13-28).                                                      *)
THEOREM MessageFieldIsShortest == MessageSpec => []ShortestField
  BY MessageAlways, PTL DEF MessageInv, FieldInv

(* The parser finds the length the build wrote (message.c:9-51).           *)
THEOREM MessageLengthIsReadBack == MessageSpec => []RoundTrip
  BY MessageAlways, PTL DEF MessageInv, FieldInv

(* A field of which only a part was seen reads as a shorter message        *)
(* (message.c:31-51).                                                      *)
THEOREM MessagePartIsShorter == MessageSpec => []Truncated
  BY MessageAlways, PTL DEF MessageInv, FieldInv

(* The array of QoS values is not written behind its end before it has     *)
(* 65526 of them, and not by a parse unless the message has 65536 or more, *)
(* of which suback_data_init is told the last 16 bits                      *)
(* (msg_suback.c:14-59 and 193-208).                                       *)
THEOREM ArrayHolds == MessageSpec => []InCapacity
  <1>1. MessageInv => InCapacity
    <2>1. SUFFICES ASSUME MessageInv PROVE InCapacity
      OBVIOUS
    <2>2. ArrayInv /\ ItemsInv
      BY <2>1 DEF MessageInv
    <2>3. written \in Nat
      BY <2>2 DEF ItemsInv
    <2>4. at = "out of array" /\ written > 0 => job.values >= U16
      <3>1. at = "out of array" => written = 0 \/ job.values >= U16
        BY <2>2 DEF ArrayInv
      <3>2. written > 0 => written # 0
        BY <2>3
      <3>. QED
        BY <3>1, <3>2
    <2>. QED
      BY <2>2, <2>4 DEF ArrayInv, InCapacity
  <1>. QED
    BY MessageAlways, <1>1, PTL

(* The nodes of a parsed list of filters all come back, and its first      *)
(* pointer is set unless the message has no filter at all, which no build  *)
(* makes (msg_subscribe.c:149-203, msg_unsubscribe.c:118-162).             *)
THEOREM NodesComeBack == MessageSpec => []FiltersReturned
  <1>1. ASSUME MessageInv PROVE FiltersReturned
    <2>1. list = "wild" => ~job.own /\ job.filters = <<>>
      <3>1. SUFFICES ASSUME list = "wild" PROVE ~job.own /\ job.filters = <<>>
        OBVIOUS
      <3>2. Filters /\ Num = 0 /\ job \in Jobs
        BY <1>1, <3>1 DEF MessageInv, ParseInv, Places
      <3>3. job.filters \in Seq(Filter) /\ Len(job.filters) = 0
        BY <3>2, JobFacts DEF Num
      <3>4. job.filters = <<>>
        BY <3>3
      <3>5. ~job.own
        BY <3>2, <3>4, JobAssumption DEF Filters
      <3>. QED
        BY <3>4, <3>5
    <2>2. /\ at = "parsed" /\ Filters => nodes = Len(result)
          /\ at \in {"failed", "released", "wild"} => nodes = 0
      BY <1>1 DEF MessageInv, ParseInv
    <2>3. at = "wild" => result = <<>>
      BY <1>1 DEF MessageInv, ParseInv
    <2>. QED
      BY <2>1, <2>2, <2>3 DEF FiltersReturned
  <1>. QED
    BY MessageAlways, <1>1, PTL

(* No build writes behind the caller's buffer, and a SUBSCRIBE finds room  *)
(* in what subscribe_message_len_calc asked for                            *)
(* (msg_subscribe.c:20-35 and 49-69, msg_publish.c:48-78).                 *)
THEOREM BuildsInBounds == MessageSpec => []BufferFits
  <1>1. ASSUME MessageInv PROVE BufferFits
    <2>1. /\ ItemsInv /\ Places /\ CountsInv /\ job \in Jobs
      BY <1>1 DEF MessageInv, Places
    <2>2. /\ input \in Nat /\ Start \in Nat /\ Need = Start + input /\ Num \in Nat
          /\ Num = Len(job.filters)
      BY <1>1, InvFacts
    <2>3. /\ written \in Nat /\ room \in Int
      BY <2>1 DEF ItemsInv
    <2>4. at = "overrun" => job.kind = "PUBLISH" /\ ~(PublishLen(job) < U16)
      <3>1. SUFFICES ASSUME at = "overrun" PROVE job.kind = "PUBLISH" /\ ~(PublishLen(job) < U16)
        OBVIOUS
      <3>2. job.kind = "PUBLISH" /\ PublishLen(job) >= U16
        BY <2>1, <3>1 DEF ItemsInv, Places
      <3>3. PublishLen(job) \in Nat /\ U16 \in Nat
        BY <2>1, <3>2, RemainFacts, U16Nat
      <3>. QED
        BY <3>2, <3>3
    <2>5. at = "built" => written <= room
      BY <2>1 DEF ItemsInv
    <2>6. at = "items" => written <= room
      <3>1. SUFFICES ASSUME at = "items" PROVE written <= room
        OBVIOUS
      <3>2. Need <= room
        BY <2>1, <3>1 DEF ItemsInv
      <3>3. CASE Filters
        <4>1. PICK n \in Nat : n = Len(items)
          BY <2>1, <3>3 DEF ItemsInv
        <4>2. written = Start + Counted(counts, n) /\ n <= Num
          BY <2>1, <3>1, <3>3, <4>1 DEF ItemsInv
        <4>3. /\ Len(counts) = Num /\ input = Counted(counts, Num)
          BY <1>1, <3>1, <3>3, CountedFacts
        <4>4. Counted(counts, n) \in Nat /\ Counted(counts, n) <= input
          <5>1. CASE n = Num
            BY <2>2, <4>3, <5>1
          <5>2. CASE n < Num
            <6>1. n \in 0..Len(counts) /\ Num \in 0..Len(counts)
              BY <2>2, <4>3, <5>2
            <6>2. Counted(counts, n) < Counted(counts, Num) /\ Counted(counts, n) \in Nat
              BY <1>1, <3>3, <5>2, <6>1, CountedFacts
            <6>. QED
              BY <2>2, <4>3, <6>2
          <5>. QED
            BY <2>2, <4>2, <5>1, <5>2
        <4>5. Start \in Nat /\ input \in Nat /\ Start + input <= room /\ room \in Int
          BY <2>2, <2>3, <3>2
        <4>. QED
          BY <4>2, <4>4, <4>5
      <3>4. CASE job.kind = "PUBLISH"
        <4>1. written = Start
          BY <2>1, <3>1, <3>4 DEF ItemsInv
        <4>. QED
          BY <2>2, <2>3, <3>2, <4>1
      <3>5. CASE job.kind = "SUBACK"
        <4>1. written = Start + 2
          BY <2>1, <3>1, <3>5 DEF ItemsInv
        <4>2. input = 2 + job.values /\ job.values \in Nat
          BY <2>1, <3>5, RemainFacts, JobFacts DEF CountsInv, Filters
        <4>3. Start \in Nat /\ input \in Nat /\ Start + input <= room /\ room \in Int
          BY <2>2, <2>3, <3>2
        <4>. QED
          BY <4>1, <4>2, <4>3
      <3>6. job.kind # "length"
        BY <2>1, <3>1 DEF Places
      <3>. QED
        BY <2>1, <3>3, <3>4, <3>5, <3>6, JobFacts DEF Filters
    <2>7. at = "built" /\ (job.kind = "PUBLISH" => PublishLen(job) < U16) => written = Need
      <3>1. SUFFICES ASSUME at = "built", job.kind = "PUBLISH" => PublishLen(job) < U16
            PROVE  written = Need
        OBVIOUS
      <3>2. at \in Built
        BY <3>1 DEF Built
      <3>3. CASE job.kind # "PUBLISH"
        BY <2>1, <3>2, <3>3 DEF ItemsInv
      <3>4. CASE job.kind = "PUBLISH"
        <4>1. written = Start + PublishLen(job)
          BY <2>1, <3>2, <3>4 DEF ItemsInv
        <4>2. input = PublishLen(job) % U16 /\ PublishLen(job) \in Nat
          BY <2>1, <3>4, RemainFacts DEF CountsInv, Filters
        <4>3. input = PublishLen(job)
          BY <3>1, <3>4, <4>2, ModBelow
        <4>. QED
          BY <2>2, <4>1, <4>3
      <3>. QED
        BY <3>3, <3>4
    <2>8. at = "refused" /\ job.kind = "SUBSCRIBE" =>
              \E k \in DOMAIN job.filters : job.filters[k].null
      <3>1. DOMAIN job.filters = 1..Num
        BY <2>1, <2>2, JobFacts
      <3>. QED
        BY <2>1, <3>1 DEF ItemsInv
    <2>. QED
      BY <2>4, <2>5, <2>6, <2>7, <2>8 DEF BufferFits
  <1>. QED
    BY MessageAlways, <1>1, PTL

(* What is parsed is what was built, and of the messages of this library   *)
(* only a SUBSCRIBE with a QoS cut to 3 is taken for a malformed one       *)
(* (msg_subscribe.c:91 and 112-204, msg_suback.c:156-211,                  *)
(* msg_unsubscribe.c:82-163, msg_publish.c:140-212).                       *)
THEOREM ParsesWhatWasBuilt == MessageSpec => []ParsedIsBuilt
  <1>1. ASSUME MessageInv PROVE ParsedIsBuilt
    <2>1. /\ ParseInv /\ ArrayInv /\ Places /\ job \in Jobs
      BY <1>1 DEF MessageInv, Places
    <2>2. /\ at # "unread" /\ (at = "bad qos" => ~job.own)
          /\ ret = "message error" => job.kind = "SUBSCRIBE"
          /\ ret = "message error" /\ job.own =>
                \E k \in DOMAIN job.filters : job.filters[k].qos % 4 = QosMax
      <3>1. DOMAIN job.filters = 1..Num
        BY <2>1, JobFacts DEF Num
      <3>. QED
        BY <1>1, <2>1, <3>1 DEF MessageInv, ParseInv, ArrayInv, ExitInv
    <2>3. ASSUME at \in {"parsed", "released"}, Filters
          PROVE  /\ Len(result) = Len(job.filters)
                 /\ \A k \in DOMAIN result :
                       /\ result[k].len = job.filters[k].len
                       /\ job.kind = "SUBSCRIBE" => result[k].qos = job.filters[k].qos % 4
      <3>1. Same /\ Len(result) = Num
        BY <2>1, <2>3 DEF ParseInv
      <3>2. DOMAIN result = 1..Len(result)
        BY <3>1 DEF Same
      <3>. QED
        BY <3>1, <3>2 DEF Same, Num
    <2>4. ASSUME at \in {"parsed", "released"}, job.kind = "PUBLISH"
          PROVE  result = <<[topic |-> job.topic, payload |-> job.payload]>>
      <3>1. ~Filters
        BY <2>4 DEF Filters
      <3>2. at = "parsed"
        BY <2>1, <2>4, <3>1 DEF ParseInv
      <3>. QED
        BY <2>1, <2>4, <3>2 DEF ParseInv, PublishRead
    <2>5. ASSUME at \in {"parsed", "released"}, job.kind = "SUBACK"
          PROVE  size = job.values /\ job.bad = 0
      <3>1. ~Filters
        BY <2>5 DEF Filters
      <3>2. at = "parsed"
        BY <2>1, <2>5, <3>1 DEF ParseInv
      <3>. QED
        BY <2>1, <2>5, <3>2 DEF ArrayInv
    <2>6. at \in {"parsed", "released"} => job.kind # "length"
      BY <2>1 DEF Places
    <2>7. job.kind \in {"length", "SUBSCRIBE", "UNSUBSCRIBE", "SUBACK", "PUBLISH"}
      BY <2>1, JobFacts
    <2>8. CASE Filters
      <3>1. job.kind # "PUBLISH" /\ job.kind # "SUBACK"
        BY <2>8 DEF Filters
      <3>. QED
        BY <2>2, <2>3, <2>8, <3>1 DEF ParsedIsBuilt
    <2>9. CASE job.kind = "PUBLISH"
      <3>1. ~Filters
        BY <2>9 DEF Filters
      <3>. QED
        BY <2>2, <2>4, <2>9, <3>1 DEF ParsedIsBuilt
    <2>10. CASE job.kind = "SUBACK"
      <3>1. ~Filters
        BY <2>10 DEF Filters
      <3>. QED
        BY <2>2, <2>5, <2>10, <3>1 DEF ParsedIsBuilt
    <2>11. CASE job.kind = "length"
      BY <2>2, <2>6, <2>11 DEF ParsedIsBuilt
    <2>. QED
      BY <2>7, <2>8, <2>9, <2>10, <2>11 DEF Filters
  <1>. QED
    BY MessageAlways, <1>1, PTL

(* Types, and the parser's place and its count of what is left agree with  *)
(* the message: it takes for a string only what was written as one         *)
(* (msg_subscribe.c:127-187, msg_publish.c:171-209).                       *)
THEOREM MessageTypeCorrect == MessageSpec => []MessageTypeOK
  <1>1. ASSUME MessageInv PROVE MessageTypeOK
    <2>1. ItemsInv /\ Places /\ ParseInv /\ ArrayInv /\ job \in Jobs
      BY <1>1 DEF MessageInv, Places
    <2>2. /\ input \in Nat /\ Start \in Nat /\ Need = Start + input
      BY <1>1, InvFacts
    <2>3. job \in JobType
      BY <2>1, JobAssumption
    <2>4. at \in {"init", "append", "count", "encode", "items", "built", "refused", "overrun",
                 "decode", "unread", "filters", "publish", "array", "values", "parsed",
                 "released", "exit", "failed", "wild", "no memory", "bad qos", "out of array"}
      BY <2>1 DEF Places, Early, Built, Parsing
    <2>5. /\ room \in Int /\ written \in Nat
      BY <2>1 DEF ItemsInv
    <2>6. /\ place \in Nat /\ rest \in Nat /\ nodes \in Nat
          /\ list \in {"unset", "list", "dangling", "wild"}
      BY <2>1 DEF ParseInv
    <2>11. ret \in {"success", "message error", "no buffer"} /\ cur \in Nat
      BY <1>1 DEF MessageInv, ExitInv
    <2>7. capacity \in 0..(U16 - 1) /\ size \in 0..U16
      <3>1. capacity \in Nat /\ capacity < U16 /\ size \in Nat /\ size <= U16 /\ U16 \in Nat
        BY <2>1, U16Nat DEF ArrayInv
      <3>. QED
        BY <3>1
    <2>8. at \in {"filters", "publish", "array", "parsed"} /\ job.kind # "SUBACK" =>
              place + rest = written
      <3>1. CASE at = "filters"
        <4>1. rest = Need - place /\ written = Need
          BY <1>1, <3>1, InLoop, BuiltFacts DEF Parsing
        <4>. QED
          BY <2>2, <2>6, <4>1
      <3>2. CASE at = "publish"
        <4>1. place = Start /\ rest = input
          BY <2>1, <3>2 DEF ParseInv
        <4>2. written = Need
          BY <1>1, <3>2, BuiltFacts DEF Parsing
        <4>. QED
          BY <2>2, <4>1, <4>2
      <3>3. CASE at = "array"
        BY <2>1, <3>3 DEF ParseInv
      <3>4. CASE at = "parsed"
        <4>1. Filters => place + rest = written
          BY <2>1, <3>4 DEF ParseInv
        <4>2. job.kind = "PUBLISH" => place + rest = written
          BY <2>1, <3>4 DEF ParseInv, PublishRead
        <4>3. job.kind # "length"
          BY <2>1, <3>4 DEF Places
        <4>. QED
          BY <2>1, <4>1, <4>2, <4>3, JobFacts DEF Filters
      <3>. QED
        BY <3>1, <3>2, <3>3, <3>4
    <2>9. at = "filters" /\ rest > 0 => Standing # {}
      BY <1>1, NextFilter
    <2>10. at = "publish" => Standing # {}
      <3>1. SUFFICES ASSUME at = "publish" PROVE Standing # {}
        OBVIOUS
      <3>2. job.kind = "PUBLISH" /\ place = Start
        BY <2>1, <3>1 DEF ParseInv
      <3>3. items = <<[off |-> Start, len |-> job.topic, qos |-> 0]>>
        BY <1>1, <3>1, <3>2, BuiltFacts DEF Parsing
      <3>4. 1 \in DOMAIN items /\ items[1].off = place
        BY <3>2, <3>3
      <3>. QED
        BY <3>4 DEF Standing
    <2>. QED
      BY <2>3, <2>4, <2>5, <2>6, <2>7, <2>8, <2>9, <2>10, <2>11 DEF MessageTypeOK
  <1>. QED
    BY MessageAlways, <1>1, PTL
=============================================================================
