------------------------ MODULE ConnectMessageProofs ------------------------
(***************************************************************************)
(* The build of a CONNECT fits its buffers, its parse refuses a message    *)
(* for two reasons only, and no memory is kept on the way, for every       *)
(* length and every value of the arguments.                                *)
(***************************************************************************)
EXTENDS ConnectMessage, TLAPS

LEMMA OrderIs ==
    /\ Order[1] = "client_id" /\ Order[2] = "will_topic" /\ Order[3] = "will_msg"
    /\ Order[4] = "username" /\ Order[5] = "password"
    /\ Names = {"client_id", "will_topic", "will_msg", "username", "password"}
    /\ \A i \in 1..5 : Order[i] \in Names
    /\ \A f \in Names : \E i \in 1..5 : f = Order[i]
<1>1. /\ Order[1] = "client_id" /\ Order[2] = "will_topic" /\ Order[3] = "will_msg"
      /\ Order[4] = "username" /\ Order[5] = "password"
  BY DEF Order
<1>2. 1..5 = {1, 2, 3, 4, 5}
  OBVIOUS
<1>3. Names = {Order[1], Order[2], Order[3], Order[4], Order[5]}
  BY <1>2 DEF Names
<1>4. QED
  BY <1>1, <1>2, <1>3

LEMMA LengthsAreNat ==
    ASSUME TypeOK
    PROVE  /\ len["client_id"] \in Nat /\ len["will_topic"] \in Nat
           /\ len["will_msg"] \in Nat /\ len["username"] \in Nat
           /\ len["password"] \in Nat
           /\ \A i \in 1..5 : len[Order[i]] \in Nat
<1>1. \A f \in Names : len[f] \in Nat
  BY DEF TypeOK
<1>2. QED
  BY <1>1, OrderIs

-----------------------------------------------------------------------------
(* What is known of a message while field k is the next one.  fl stands for *)
(* the flags, l for the lengths, pl for the payload.                       *)

In(fl, f) == f = "client_id" \/ FlagFor(f) \in fl

One(fl, i) == IF In(fl, Order[i]) THEN 1 ELSE 0
Bytes(fl, l, i) == IF In(fl, Order[i]) THEN l[Order[i]] + 2 ELSE 0

(* How many of the fields before the k-th are in the message.              *)
Count(fl, k) ==
    (IF k > 1 THEN One(fl, 1) ELSE 0) + (IF k > 2 THEN One(fl, 2) ELSE 0)
      + (IF k > 3 THEN One(fl, 3) ELSE 0) + (IF k > 4 THEN One(fl, 4) ELSE 0)
      + (IF k > 5 THEN One(fl, 5) ELSE 0)

(* How many bytes they have.                                               *)
Upto(fl, l, k) ==
    (IF k > 1 THEN Bytes(fl, l, 1) ELSE 0) + (IF k > 2 THEN Bytes(fl, l, 2) ELSE 0)
      + (IF k > 3 THEN Bytes(fl, l, 3) ELSE 0) + (IF k > 4 THEN Bytes(fl, l, 4) ELSE 0)
      + (IF k > 5 THEN Bytes(fl, l, 5) ELSE 0)

(* The payload has these fields, in the places Count gives them.           *)
Placed(fl, pl, k) ==
    /\ Len(pl) = Count(fl, k)
    /\ \A i \in 1..5 : i < k /\ In(fl, Order[i]) => pl[Count(fl, i) + 1] = Order[i]

(* The parser has allocated those that are not empty.                      *)
Got(fl, l, k) ==
    {f \in Names : \E i \in 1..5 : i < k /\ f = Order[i] /\ In(fl, f) /\ l[f] > 0}

(* The size asked for knows no flags.                                      *)
Largest(l) ==
    15 + (l["client_id"] + 2) + (l["will_topic"] + 2) + (l["will_msg"] + 2)
       + (l["username"] + 2) + (l["password"] + 2)

Built == {"built", "parse", "refused", "nomemory", "parsed"}

Shape ==
    /\ pc \in Built \cup {"fields"} =>
          flags = FlagsOf /\ payload_room = PayloadRoom /\ len["client_id"] <= IdMax
    /\ pc # "calc" => room = Largest(len)
    /\ payload_len <= payload_room
    /\ pc \in {"calc", "flags"} =>
          payload_len = 0 /\ payload = <<>> /\ field = 1 /\ heap = {}
    /\ pc \notin {"parse", "parsed", "refused", "nomemory"} => parsed = <<>>
    /\ pc = "fields" =>
          /\ payload_len = Upto(flags, len, field)
          /\ Placed(flags, payload, field)
          /\ heap = {"payload"}
    /\ pc \in Built => payload_len = Upto(flags, len, 6) /\ Placed(flags, payload, 6)
    /\ pc = "built" =>
          /\ heap = {}
          /\ message_len = 1 + LengthField(payload_len + HeaderLen) + HeaderLen
                             + payload_len
    /\ pc = "parse" =>
          /\ Will
          /\ Len(parsed) = Count(flags, field)
          /\ message_len = Upto(flags, len, 6) - Upto(flags, len, field)
          /\ heap = Got(flags, len, field)
    /\ pc = "parsed" => Will /\ heap = Got(flags, len, 6)
    /\ pc \in {"failed", "refused", "nomemory"} => heap = {}
    /\ WillAccepted

(* One field further.                                                      *)
LEMMA NextField ==
    ASSUME NEW fl, NEW l, \A i \in 1..5 : l[Order[i]] \in Nat, NEW k \in 1..5
    PROVE  /\ Count(fl, k) \in Nat /\ Count(fl, k + 1) \in Nat
           /\ Upto(fl, l, k) \in Nat /\ Upto(fl, l, k + 1) \in Nat
           /\ In(fl, Order[k]) =>
                 /\ Count(fl, k + 1) = Count(fl, k) + 1
                 /\ Upto(fl, l, k + 1) = Upto(fl, l, k) + l[Order[k]] + 2
           /\ ~In(fl, Order[k]) =>
                 Count(fl, k + 1) = Count(fl, k) /\ Upto(fl, l, k + 1) = Upto(fl, l, k)
           /\ Count(fl, k + 1) <= Count(fl, 6) /\ Upto(fl, l, k + 1) <= Upto(fl, l, 6)
<1>1. /\ One(fl, 1) \in Nat /\ One(fl, 2) \in Nat /\ One(fl, 3) \in Nat
      /\ One(fl, 4) \in Nat /\ One(fl, 5) \in Nat
  BY DEF One
<1>2. /\ Bytes(fl, l, 1) \in Nat /\ Bytes(fl, l, 2) \in Nat /\ Bytes(fl, l, 3) \in Nat
      /\ Bytes(fl, l, 4) \in Nat /\ Bytes(fl, l, 5) \in Nat
  BY DEF Bytes
<1>3. k = 1 \/ k = 2 \/ k = 3 \/ k = 4 \/ k = 5
  OBVIOUS
<1>4. /\ Count(fl, k) \in Nat /\ Count(fl, k + 1) = Count(fl, k) + One(fl, k)
      /\ Count(fl, k + 1) <= Count(fl, 6)
  BY <1>1, <1>3 DEF Count
<1>5. /\ Upto(fl, l, k) \in Nat
      /\ Upto(fl, l, k + 1) = Upto(fl, l, k) + Bytes(fl, l, k)
      /\ Upto(fl, l, k + 1) <= Upto(fl, l, 6)
  BY <1>2, <1>3 DEF Upto
<1>6. One(fl, k) \in Nat /\ Bytes(fl, l, k) \in Nat /\ l[Order[k]] \in Nat
  BY <1>1, <1>2, <1>3
<1>7. QED
  BY <1>4, <1>5, <1>6 DEF One, Bytes

(* Nothing precedes the first field.                                       *)
LEMMA FirstField ==
    ASSUME NEW fl, NEW l
    PROVE  Count(fl, 1) = 0 /\ Upto(fl, l, 1) = 0 /\ Got(fl, l, 1) = {}
  BY DEF Count, Upto, Got

(* The field the parser finds is the one it expects.                       *)
LEMMA FoundIsExpected ==
    ASSUME TypeOK, Shape, pc = "parse", field \in 1..5, InMessage(Order[field])
    PROVE  Found = Order[field] /\ Found \in Names
<1>1. In(flags, Order[field])
  BY DEF In, InMessage
<1>2. field < 6
  BY DEF TypeOK
<1>3. Found = payload[Count(flags, field) + 1]
  BY DEF Shape, Found
<1>4. Found = Order[field]
  BY <1>1, <1>2, <1>3 DEF Shape, Built, Placed
<1>5. QED
  BY <1>4, OrderIs

(* With the flags of this module a field other than the identifier that is *)
(* in the message has a length.                                            *)
LEMMA FlagsMeanLength ==
    ASSUME TypeOK, flags = FlagsOf, NEW f \in Names, InMessage(f), f # "client_id"
    PROVE  f \in given /\ len[f] > 0
<1>1. f \in {"will_topic", "will_msg", "username", "password"}
  BY OrderIs
<1>2. FlagFor(f) \in FlagsOf
  BY DEF InMessage
<1>3. CASE f \in {"will_topic", "will_msg"}
  BY <1>2, <1>3 DEF FlagFor, FlagsOf, Will, Present
<1>4. CASE f = "username"
  BY <1>2, <1>4 DEF FlagFor, FlagsOf, Present
<1>5. CASE f = "password"
  BY <1>2, <1>5 DEF FlagFor, FlagsOf, Password, Present
<1>6. QED
  BY <1>1, <1>3, <1>4, <1>5

(* The flags are flags, and no forbidden combination of them.              *)
LEMMA FlagsAreSound ==
    /\ FlagsOf \subseteq Flags
    /\ "PASSWD" \in FlagsOf => "USERNAME" \in FlagsOf
    /\ FlagsOf \cap {"WILL_QOS_LOW", "WILL_QOS_HIGH", "WILL_RETAIN"} # {} =>
          "WILL_FLAG" \in FlagsOf
  BY DEF FlagsOf, Flags, Password

(* What the flags say of the will, the user name and the password.         *)
LEMMA FlagsMean ==
    /\ "WILL_FLAG" \in FlagsOf <=> Will
    /\ "USERNAME" \in FlagsOf <=> Present("username")
    /\ "PASSWD" \in FlagsOf <=> Password
  BY DEF FlagsOf

(* The memory the payload gets is what all its fields take.                *)
LEMMA RoomIsExact ==
    ASSUME TypeOK
    PROVE  /\ PayloadRoom = Upto(FlagsOf, len, 6)
           /\ PayloadRoom \in Nat
           /\ PayloadRoom + 15 <= Largest(len)
<1>1. /\ In(FlagsOf, "client_id")
      /\ In(FlagsOf, "will_topic") <=> Will
      /\ In(FlagsOf, "will_msg") <=> Will
      /\ In(FlagsOf, "username") <=> Present("username")
      /\ In(FlagsOf, "password") <=> Password
  BY FlagsMean DEF In, FlagFor
<1> DEFINE id == len["client_id"]
           wt == len["will_topic"]
           wm == len["will_msg"]
           un == len["username"]
           pw == len["password"]
<1>2. id \in Nat /\ wt \in Nat /\ wm \in Nat /\ un \in Nat /\ pw \in Nat
  BY LengthsAreNat
<1>3. /\ Bytes(FlagsOf, len, 1) = id + 2
      /\ Bytes(FlagsOf, len, 2) = IF Will THEN wt + 2 ELSE 0
      /\ Bytes(FlagsOf, len, 3) = IF Will THEN wm + 2 ELSE 0
      /\ Bytes(FlagsOf, len, 4) = IF Present("username") THEN un + 2 ELSE 0
      /\ Bytes(FlagsOf, len, 5) = IF Password THEN pw + 2 ELSE 0
  BY <1>1, OrderIs DEF Bytes
<1>4. Upto(FlagsOf, len, 6) =
        (id + 2) + (IF Will THEN wt + 2 ELSE 0) + (IF Will THEN wm + 2 ELSE 0)
          + (IF Present("username") THEN un + 2 ELSE 0)
          + (IF Password THEN pw + 2 ELSE 0)
  BY <1>3 DEF Upto
<1>5. PayloadRoom =
        (id + 2) + (IF Will THEN (wt + 2) + (wm + 2) ELSE 0)
          + (IF Password THEN pw + 2 ELSE 0)
          + (IF Present("username") THEN un + 2 ELSE 0)
  BY DEF PayloadRoom
<1>6. Largest(len) = 15 + (id + 2) + (wt + 2) + (wm + 2) + (un + 2) + (pw + 2)
  BY DEF Largest
<1> HIDE DEF id, wt, wm, un, pw
<1>7. QED
  BY <1>2, <1>4, <1>5, <1>6

-----------------------------------------------------------------------------
(* Types                                                                   *)

LEMMA TypeInit == Init => TypeOK
<1> SUFFICES ASSUME Init PROVE TypeOK
  OBVIOUS
<1>1. IdLens \cup FieldLens \subseteq Nat
  BY MessageAssumption
<1>2. len \in [Names -> IdLens \cup FieldLens]
  BY DEF Init
<1>3. len \in [Names -> Nat]
  BY <1>1, <1>2
<1>4. will_qos \in Nat
  BY MessageAssumption DEF Init
<1>5. payload \in Seq(Names) /\ parsed \in Seq(Names \X Names)
  BY DEF Init
<1>6. /\ given \subseteq Names /\ clean_session \in BOOLEAN
      /\ will_retain \in BOOLEAN
  BY DEF Init
<1>7. /\ pc = "calc" /\ room = 0 /\ payload_room = 0 /\ flags = {}
      /\ payload_len = 0 /\ message_len = 0 /\ field = 1 /\ heap = {}
  BY DEF Init
<1>8. QED
  BY <1>3, <1>4, <1>5, <1>6, <1>7 DEF TypeOK, PCs

LEMMA TypeStep == TypeOK /\ Shape /\ [Next]_vars => TypeOK'
<1> SUFFICES ASSUME TypeOK, Shape, [Next]_vars PROVE TypeOK'
  OBVIOUS
<1> USE DEF argVars, buildVars, PCs
<1>1. CASE LenCalc
  <2>1. room' \in Nat
    BY <1>1, LengthsAreNat DEF LenCalc, HeaderLen
  <2>2. QED
    BY <1>1, <2>1 DEF LenCalc, TypeOK
<1>2. CASE RefuseId
  BY <1>2 DEF RefuseId, TypeOK
<1>3. CASE SetFlags
  <2>1. /\ flags' \subseteq Flags
        /\ "PASSWD" \in flags' => "USERNAME" \in flags'
        /\ flags' \cap {"WILL_QOS_LOW", "WILL_QOS_HIGH", "WILL_RETAIN"} # {} =>
              "WILL_FLAG" \in flags'
    BY <1>3, FlagsAreSound DEF SetFlags
  <2>2. payload_room' \in Nat
    BY <1>3, RoomIsExact DEF SetFlags
  <2>3. QED
    BY <1>3, <2>1, <2>2 DEF SetFlags, TypeOK
<1>4. CASE BuildField
  <2>1. field \in 1..5
    BY <1>4 DEF BuildField, TypeOK
  <2>2. Order[field] \in Names /\ len[Order[field]] \in Nat
    BY <2>1, OrderIs, LengthsAreNat
  <2>3. Append(payload, Order[field]) \in Seq(Names)
    BY <2>2 DEF TypeOK
  <2>4. payload_len + len[Order[field]] + 2 \in Nat
    BY <2>2 DEF TypeOK
  <2>5. payload' \in Seq(Names)
    BY <1>4, <2>3 DEF BuildField, TypeOK
  <2>6. payload_len' \in Nat /\ field' \in 1..6 /\ pc' \in PCs
    BY <1>4, <2>1, <2>4 DEF BuildField, TypeOK
  <2>7. heap' \subseteq Names \cup {"payload"}
    BY <1>4 DEF BuildField, TypeOK
  <2>8. QED
    BY <1>4, <2>5, <2>6, <2>7 DEF BuildField, TypeOK
<1>5. CASE SkipField
  BY <1>5 DEF SkipField, TypeOK
<1>6. CASE Assemble
  BY <1>6 DEF Assemble, TypeOK, LengthField, HeaderLen
<1>7. CASE ParseHeader
  BY <1>7 DEF ParseHeader, TypeOK, LengthField, HeaderLen
<1>8. CASE ParseField
  <2>1. field \in 1..5 /\ InMessage(Order[field]) /\ pc = "parse"
    BY <1>8 DEF ParseField, TypeOK
  <2>2. Found = Order[field] /\ Found \in Names /\ len[Found] \in Nat
    BY <2>1, FoundIsExpected, LengthsAreNat
  <2>3. <<Order[field], Found>> \in Names \X Names
    BY <2>2
  <2>4. Append(parsed, <<Order[field], Found>>) \in Seq(Names \X Names)
    BY <2>3 DEF TypeOK
  <2>5. message_len' \in Int /\ parsed' \in Seq(Names \X Names)
    <3>1. message_len' = message_len \/ message_len' = message_len - (len[Found] + 2)
      BY <1>8 DEF ParseField
    <3>2. parsed' = parsed \/ parsed' = Append(parsed, <<Order[field], Found>>)
      BY <1>8 DEF ParseField
    <3>3. message_len \in Int /\ parsed \in Seq(Names \X Names)
      BY DEF TypeOK
    <3>4. message_len' \in Int
      BY <2>2, <3>1, <3>3
    <3>5. parsed' \in Seq(Names \X Names)
      BY <2>4, <3>2, <3>3
    <3>6. QED
      BY <3>4, <3>5
  <2>6. heap' \subseteq Names \cup {"payload"}
    <3>1. heap' = heap \/ heap' = heap \cup {Order[field]} \/ heap' = heap \ Names
      BY <1>8 DEF ParseField, Release
    <3>2. heap \subseteq Names \cup {"payload"}
      BY DEF TypeOK
    <3>3. QED
      BY <2>2, <3>1, <3>2
  <2>7. field' \in 1..6 /\ pc' \in PCs
    BY <1>8, <2>1 DEF ParseField, TypeOK
  <2>8. QED
    BY <1>8, <2>5, <2>6, <2>7 DEF ParseField, TypeOK
<1>9. CASE NoMemory
  BY <1>9 DEF NoMemory, Release, TypeOK
<1>10. CASE PassField
  BY <1>10 DEF PassField, TypeOK
<1>11. CASE ParseEnd
  BY <1>11 DEF ParseEnd, Release, TypeOK
<1>12. CASE UNCHANGED vars
  BY <1>12 DEF vars, TypeOK
<1>13. QED
  BY <1>1, <1>2, <1>3, <1>4, <1>5, <1>6, <1>7, <1>8, <1>9, <1>10, <1>11, <1>12
     DEF Next

-----------------------------------------------------------------------------
(* What one field does to the payload and to what the parser has           *)

(* The places of the fields do not run ahead of the fields.                *)
LEMMA CountGrows ==
    ASSUME NEW fl, NEW k \in 1..6, NEW i \in 1..5, i < k
    PROVE  Count(fl, i + 1) <= Count(fl, k)
<1>1. /\ One(fl, 1) \in Nat /\ One(fl, 2) \in Nat /\ One(fl, 3) \in Nat
      /\ One(fl, 4) \in Nat /\ One(fl, 5) \in Nat
  BY DEF One
<1>2. QED
  BY <1>1 DEF Count

LEMMA CountNext ==
    ASSUME NEW fl, NEW k \in 1..5
    PROVE  /\ Count(fl, k) \in Nat
           /\ In(fl, Order[k]) => Count(fl, k + 1) = Count(fl, k) + 1
           /\ ~In(fl, Order[k]) => Count(fl, k + 1) = Count(fl, k)
<1>1. /\ One(fl, 1) \in Nat /\ One(fl, 2) \in Nat /\ One(fl, 3) \in Nat
      /\ One(fl, 4) \in Nat /\ One(fl, 5) \in Nat
  BY DEF One
<1>2. Count(fl, k) \in Nat /\ Count(fl, k + 1) = Count(fl, k) + One(fl, k)
  BY <1>1 DEF Count
<1>3. QED
  BY <1>2 DEF One

(* A field in the message takes the next place, one that is not takes none.*)
LEMMA PlacedNext ==
    ASSUME NEW fl, NEW pl \in Seq(Names), NEW k \in 1..5, Placed(fl, pl, k),
           In(fl, Order[k])
    PROVE  Placed(fl, Append(pl, Order[k]), k + 1)
<1> DEFINE q == Append(pl, Order[k])
<1>1. Order[k] \in Names
  BY OrderIs
<1>2. /\ Len(q) = Len(pl) + 1
      /\ \A n \in 1..Len(pl) : q[n] = pl[n]
      /\ q[Len(pl) + 1] = Order[k]
  BY <1>1
<1>3. Len(pl) = Count(fl, k) /\ Count(fl, k + 1) = Count(fl, k) + 1
  BY CountNext DEF Placed
<1> HIDE DEF q
<1>4. ASSUME NEW i \in 1..5, i < k + 1, In(fl, Order[i])
      PROVE  q[Count(fl, i) + 1] = Order[i]
  <2>1. CASE i = k
    BY <1>2, <1>3, <2>1
  <2>2. CASE i # k
    <3>1. i < k /\ k \in 1..6
      BY <1>4, <2>2
    <3>2. pl[Count(fl, i) + 1] = Order[i]
      BY <1>4, <3>1 DEF Placed
    <3>3. Count(fl, i) \in Nat /\ Count(fl, i + 1) = Count(fl, i) + 1
      BY <1>4, CountNext
    <3>4. Count(fl, i) + 1 <= Count(fl, k)
      BY <3>1, <3>3, CountGrows
    <3>5. Count(fl, i) + 1 \in 1..Len(pl)
      BY <1>3, <3>3, <3>4
    <3>6. QED
      BY <1>2, <3>2, <3>5
  <2>3. QED
    BY <2>1, <2>2
<1>5. QED
  BY <1>2, <1>3, <1>4 DEF Placed, q

LEMMA PlacedSkip ==
    ASSUME NEW fl, NEW pl, NEW k \in 1..5, Placed(fl, pl, k), ~In(fl, Order[k])
    PROVE  Placed(fl, pl, k + 1)
<1>1. Len(pl) = Count(fl, k) /\ Count(fl, k + 1) = Count(fl, k)
  BY CountNext DEF Placed
<1>2. \A i \in 1..5 : i < k + 1 /\ In(fl, Order[i]) => i < k
  OBVIOUS
<1>3. QED
  BY <1>1, <1>2 DEF Placed

(* A field that is not empty is one more piece of memory.                  *)
LEMMA GotNext ==
    ASSUME NEW fl, NEW l, NEW k \in 1..5, l[Order[k]] \in Nat
    PROVE  Got(fl, l, k + 1) =
              IF In(fl, Order[k]) /\ l[Order[k]] # 0
              THEN Got(fl, l, k) \cup {Order[k]} ELSE Got(fl, l, k)
<1>1. \A i \in 1..5 : i < k + 1 <=> (i < k \/ i = k)
  OBVIOUS
<1>2. Order[k] \in Names
  BY OrderIs
<1>3. l[Order[k]] > 0 <=> l[Order[k]] # 0
  OBVIOUS
<1>4. \A f \in Names :
        f \in Got(fl, l, k + 1) <=>
           f \in Got(fl, l, k) \/ (f = Order[k] /\ In(fl, f) /\ l[f] > 0)
  BY <1>1 DEF Got
<1>5. QED
  BY <1>2, <1>3, <1>4 DEF Got

-----------------------------------------------------------------------------
(* Shape is inductive                                                      *)

LEMMA ShapeInit == Init => Shape
  BY DEF Init, Shape, Built, WillAccepted

(* Nothing of what the flags are made from ever changes.                   *)
LEMMA ArgumentsKept ==
    ASSUME [Next]_vars
    PROVE  /\ len' = len
           /\ FlagsOf' = FlagsOf /\ PayloadRoom' = PayloadRoom /\ Will' = Will
<1>1. UNCHANGED argVars
  BY DEF Next, vars, LenCalc, RefuseId, SetFlags, BuildField, SkipField, Assemble,
         ParseHeader, ParseField, NoMemory, PassField, ParseEnd
<1>2. QED
  BY <1>1 DEF argVars, FlagsOf, PayloadRoom, Will, Present, Password

LEMMA ShapeStep == TypeOK /\ Shape /\ [Next]_vars => Shape'
<1> SUFFICES ASSUME TypeOK, Shape, [Next]_vars PROVE Shape'
  OBVIOUS
<1> USE DEF Built, WillAccepted, argVars, buildVars
<1>0. /\ len' = len
      /\ FlagsOf' = FlagsOf /\ PayloadRoom' = PayloadRoom /\ Will' = Will
  BY ArgumentsKept
<1>1. CASE LenCalc
  <2>1. room' = Largest(len)
    BY <1>1, LengthsAreNat DEF LenCalc, Largest, HeaderLen
  <2>2. QED
    BY <1>0, <1>1, <2>1 DEF LenCalc, Shape
<1>2. CASE RefuseId
  BY <1>0, <1>2 DEF RefuseId, Shape
<1>3. CASE SetFlags
  <2>1. /\ payload_room' = PayloadRoom /\ flags' = FlagsOf /\ PayloadRoom \in Nat
        /\ payload_len' = 0 /\ payload' = <<>> /\ field' = 1 /\ parsed' = <<>>
        /\ room' = Largest(len) /\ len["client_id"] <= IdMax
    BY <1>3, RoomIsExact DEF SetFlags, Shape
  <2>2. Placed(flags', payload', field') /\ Upto(flags', len', field') = 0
    BY <2>1, FirstField DEF Placed
  <2>3. CASE pc' = "fields" /\ heap' = {"payload"}
    BY <1>0, <2>1, <2>2, <2>3 DEF Shape
  <2>4. CASE pc' = "failed" /\ heap' = heap
    BY <1>0, <1>3, <2>1, <2>4 DEF SetFlags, Shape
  <2>5. QED
    BY <1>3, <2>3, <2>4 DEF SetFlags
<1>4. CASE BuildField
  <2>1. /\ pc = "fields" /\ field \in 1..5 /\ In(flags, Order[field])
        /\ payload \in Seq(Names)
    BY <1>4 DEF BuildField, TypeOK, InMessage, In
  <2>2. /\ payload_len = Upto(flags, len, field) /\ Placed(flags, payload, field)
        /\ heap = {"payload"} /\ flags = FlagsOf /\ payload_room = PayloadRoom
        /\ len["client_id"] <= IdMax /\ parsed = <<>> /\ room = Largest(len)
        /\ payload_len <= payload_room
    BY <2>1 DEF Shape
  <2>3. /\ UNCHANGED <<flags, payload_room, parsed, room>>
    BY <1>4 DEF BuildField
  <2>4. CASE /\ payload' = Append(payload, Order[field])
             /\ payload_len' = payload_len + len[Order[field]] + 2
             /\ field' = field + 1 /\ pc' = pc /\ heap' = heap
    <3>1. /\ payload_len' = Upto(flags, len, field + 1)
          /\ Upto(flags, len, field + 1) <= Upto(flags, len, 6)
      BY <2>1, <2>2, <2>4, NextField, LengthsAreNat
    <3>2. payload_len' <= payload_room
      BY <2>2, <3>1, RoomIsExact
    <3>3. Placed(flags, payload', field + 1)
      BY <2>1, <2>2, <2>4, PlacedNext
    <3>4. QED
      BY <1>0, <2>1, <2>2, <2>3, <2>4, <3>1, <3>2, <3>3 DEF Shape
  <2>5. CASE /\ pc' = "failed" /\ heap' = heap \ {"payload"}
             /\ UNCHANGED <<payload, payload_len, field>>
    <3>1. heap' = {}
      BY <2>2, <2>5
    <3>2. QED
      BY <1>0, <2>2, <2>3, <2>5, <3>1 DEF Shape
  <2>6. QED
    BY <1>4, <2>4, <2>5 DEF BuildField
<1>5. CASE SkipField
  <2>1. pc = "fields" /\ field \in 1..5 /\ ~In(flags, Order[field])
    BY <1>5 DEF SkipField, TypeOK, InMessage, In
  <2>2. Placed(flags, payload, field + 1)
    BY <2>1, PlacedSkip DEF Shape
  <2>3. Upto(flags, len, field + 1) = Upto(flags, len, field)
    BY <2>1, NextField, LengthsAreNat
  <2>4. QED
    BY <1>0, <1>5, <2>1, <2>2, <2>3 DEF SkipField, Shape
<1>6. CASE Assemble
  <2>1. /\ pc = "fields" /\ field = 6 /\ pc' = "built" /\ heap' = heap \ {"payload"}
        /\ message_len' = 1 + LengthField(payload_len + HeaderLen)
                            + HeaderLen + payload_len
        /\ UNCHANGED <<len, room, payload_room, flags, payload, payload_len, parsed>>
    BY <1>6 DEF Assemble
  <2>2. heap' = {}
    BY <2>1 DEF Shape
  <2>3. /\ payload_len = Upto(flags, len, 6) /\ Placed(flags, payload, 6)
        /\ flags = FlagsOf /\ payload_room = PayloadRoom
        /\ len["client_id"] <= IdMax /\ parsed = <<>> /\ room = Largest(len)
        /\ payload_len <= payload_room
    BY <2>1 DEF Shape
  <2>4. message_len' = 1 + LengthField(payload_len' + HeaderLen)
                         + HeaderLen + payload_len'
    BY <2>1
  <2>5. QED
    BY <1>0, <2>1, <2>2, <2>3, <2>4 DEF Shape
<1>7. CASE ParseHeader
  <2>1. /\ pc = "built" /\ heap' = heap /\ heap = {} /\ parsed' = parsed
        /\ UNCHANGED <<len, room, payload_room, flags, payload, payload_len>>
    BY <1>7 DEF ParseHeader, Shape
  <2>2. /\ payload_len = Upto(flags, len, 6) /\ Placed(flags, payload, 6)
        /\ flags = FlagsOf /\ payload_room = PayloadRoom
        /\ len["client_id"] <= IdMax /\ parsed = <<>> /\ room = Largest(len)
        /\ payload_len <= payload_room
        /\ message_len = 1 + LengthField(payload_len + HeaderLen) + HeaderLen
                           + payload_len
    BY <2>1 DEF Shape
  <2>3. CASE ~HeaderAccepted /\ pc' = "refused"
    <3>1. payload_len >= 2
      <4>1. Upto(flags, len, 2) = Upto(flags, len, 1) + len["client_id"] + 2
        BY NextField, LengthsAreNat, OrderIs DEF In
      <4>2. Upto(flags, len, 2) <= Upto(flags, len, 6) /\ Upto(flags, len, 1) \in Nat
        BY NextField, LengthsAreNat
      <4>3. len["client_id"] \in Nat /\ payload_len \in Nat
        BY LengthsAreNat DEF TypeOK
      <4>4. QED
        BY <2>2, <4>1, <4>2, <4>3, FirstField
    <3>2. ~Will
      BY <2>2, <2>3, <3>1, FlagsMean DEF HeaderAccepted, TypeOK
    <3>3. QED
      BY <1>0, <2>1, <2>2, <2>3, <3>2 DEF Shape
  <2>4. CASE /\ HeaderAccepted /\ pc' = "parse" /\ field' = 1
             /\ message_len' = message_len
                   - 1 - LengthField(payload_len + HeaderLen) - HeaderLen
    <3>1. Will
      BY <2>2, <2>4, FlagsMean DEF HeaderAccepted
    <3>2. message_len' = payload_len
      <4> DEFINE n == LengthField(payload_len + HeaderLen)
      <4>1. n \in Nat /\ payload_len \in Nat /\ HeaderLen \in Nat
        BY DEF LengthField, HeaderLen, TypeOK
      <4>2. /\ message_len = 1 + n + HeaderLen + payload_len
            /\ message_len' = message_len - 1 - n - HeaderLen
        BY <2>2, <2>4
      <4> HIDE DEF n
      <4>3. QED
        BY <4>1, <4>2
    <3>3. payload_len \in Nat
      BY DEF TypeOK
    <3>4. message_len' = Upto(flags, len, 6) - Upto(flags, len, 1)
      BY <2>2, <3>2, <3>3, FirstField
    <3>5. Len(parsed') = Count(flags, 1) /\ heap' = Got(flags, len, 1)
      BY <2>1, <2>2, FirstField
    <3>6. QED
      BY <1>0, <2>1, <2>2, <2>4, <3>1, <3>4, <3>5 DEF Shape
  <2>5. QED
    BY <1>7, <2>3, <2>4 DEF ParseHeader
<1>8. CASE ParseField
  <2>1. /\ pc = "parse" /\ field \in 1..5 /\ InMessage(Order[field])
        /\ In(flags, Order[field])
    BY <1>8 DEF ParseField, TypeOK, InMessage, In
  <2>2. /\ UNCHANGED <<len, room, payload_room, flags, payload, payload_len>>
    BY <1>8 DEF ParseField
  <2>3. /\ payload_len = Upto(flags, len, 6) /\ Placed(flags, payload, 6)
        /\ flags = FlagsOf /\ payload_room = PayloadRoom
        /\ len["client_id"] <= IdMax /\ room = Largest(len)
        /\ payload_len <= payload_room
        /\ Will /\ Len(parsed) = Count(flags, field)
        /\ message_len = Upto(flags, len, 6) - Upto(flags, len, field)
        /\ heap = Got(flags, len, field)
    BY <2>1 DEF Shape
  <2>4. Found = Order[field] /\ len[Order[field]] \in Nat /\ Order[field] \in Names
    BY <2>1, FoundIsExpected, LengthsAreNat
  <2>5. /\ Upto(flags, len, field) \in Nat
        /\ Upto(flags, len, 6) \in Nat
        /\ Upto(flags, len, field + 1) = Upto(flags, len, field) + len[Order[field]] + 2
        /\ Upto(flags, len, field + 1) <= Upto(flags, len, 6)
        /\ Count(flags, field + 1) = Count(flags, field) + 1
    BY <2>1, <2>3, NextField, LengthsAreNat DEF TypeOK
  <2>6. CASE /\ heap' = IF len[Found] = 0 THEN heap ELSE heap \cup {Order[field]}
             /\ message_len' = message_len - (len[Found] + 2)
             /\ parsed' = Append(parsed, <<Order[field], Found>>)
             /\ field' = field + 1 /\ pc' = pc
    <3>1. message_len' = Upto(flags, len, 6) - Upto(flags, len, field + 1)
      BY SMTT(30), <2>3, <2>4, <2>5, <2>6
    <3>2. Len(parsed') = Count(flags, field + 1)
      <4> DEFINE pair == <<Order[field], Found>>
      <4>1. pair \in Names \X Names
        BY <2>4
      <4>2. parsed \in Seq(Names \X Names) /\ parsed' = Append(parsed, pair)
        BY <2>6 DEF TypeOK
      <4> HIDE DEF pair
      <4>3. Len(parsed') = Len(parsed) + 1
        BY <4>1, <4>2
      <4>4. QED
        BY <2>3, <2>5, <4>3
    <3>3. heap' = Got(flags, len, field + 1)
      <4>1. Got(flags, len, field + 1) =
              IF len[Order[field]] # 0 THEN Got(flags, len, field) \cup {Order[field]}
                                       ELSE Got(flags, len, field)
        BY ZenonT(30), <2>1, <2>4, GotNext
      <4>2. heap' = IF len[Order[field]] = 0 THEN heap ELSE heap \cup {Order[field]}
        BY <2>4, <2>6
      <4>3. CASE len[Order[field]] = 0
        BY <2>3, <4>1, <4>2, <4>3
      <4>4. CASE len[Order[field]] # 0
        BY <2>3, <4>1, <4>2, <4>4
      <4>5. QED
        BY <4>3, <4>4
    <3>4. QED
      BY <1>0, <2>1, <2>2, <2>3, <2>6, <3>1, <3>2, <3>3 DEF Shape
  <2>7. CASE /\ ~Acceptable(Order[field])
             /\ heap' = IF Order[field] = "client_id" THEN heap ELSE Release
             /\ pc' = "refused"
             /\ UNCHANGED <<message_len, parsed, field>>
    <3>1. len[Found] <= message_len - 2
      BY <2>3, <2>4, <2>5
    <3>2. CASE Order[field] = "client_id"
      <4>1. len["client_id"] = 0
        BY <2>3, <2>4, <2>7, <3>1, <3>2 DEF Acceptable, IdMax
      <4>2. field = 1
        BY <2>1, <3>2, OrderIs
      <4>3. heap' = {}
        BY <2>3, <2>7, <3>2, <4>2, FirstField
      <4>4. QED
        BY <1>0, <2>2, <2>3, <2>7, <4>1, <4>3 DEF Shape
    <3>3. CASE Order[field] # "client_id"
      <4>1. len[Order[field]] > 0
        BY <2>1, <2>3, <2>4, <3>3, FlagsMeanLength
      <4>2. Acceptable(Order[field])
        BY <2>4, <3>1, <3>3, <4>1 DEF Acceptable
      <4>3. QED
        BY <2>7, <4>2
    <3>4. QED
      BY <3>2, <3>3
  <2>8. QED
    BY <1>8, <2>6, <2>7 DEF ParseField
<1>9. CASE NoMemory
  <2>1. /\ pc = "parse" /\ pc' = "nomemory" /\ heap' = heap \ Names
        /\ UNCHANGED <<len, room, payload_room, flags, payload, payload_len>>
    BY <1>9 DEF NoMemory, Release
  <2>2. heap' = {}
    BY <2>1 DEF Shape, Got
  <2>3. QED
    BY <1>0, <2>1, <2>2 DEF Shape
<1>10. CASE PassField
  <2>1. /\ pc = "parse" /\ field \in 1..5 /\ ~In(flags, Order[field])
        /\ field' = field + 1
        /\ UNCHANGED <<pc, len, room, payload_room, flags, payload, payload_len,
                        message_len, heap, parsed>>
    BY <1>10 DEF PassField, TypeOK, InMessage, In
  <2>2. /\ Upto(flags, len, field + 1) = Upto(flags, len, field)
        /\ Count(flags, field + 1) = Count(flags, field)
    BY <2>1, NextField, LengthsAreNat
  <2>3. Got(flags, len, field + 1) = Got(flags, len, field)
    BY <2>1, GotNext, LengthsAreNat
  <2>4. QED
    BY <1>0, <2>1, <2>2, <2>3 DEF Shape
<1>11. CASE ParseEnd
  <2>1. /\ pc = "parse" /\ field = 6
        /\ pc' = IF message_len = 0 THEN "parsed" ELSE "refused"
        /\ heap' = IF message_len = 0 THEN heap ELSE Release
        /\ UNCHANGED <<len, room, payload_room, flags, payload, payload_len, field,
                        message_len, parsed>>
    BY <1>11 DEF ParseEnd
  <2>2. message_len = 0
    BY <2>1 DEF Shape, TypeOK
  <2>3. QED
    BY <1>0, <2>1, <2>2 DEF Shape
<1>12. CASE UNCHANGED vars
  BY <1>0, <1>12 DEF vars, Shape
<1>13. QED
  BY <1>1, <1>2, <1>3, <1>4, <1>5, <1>6, <1>7, <1>8, <1>9, <1>10, <1>11, <1>12
     DEF Next

-----------------------------------------------------------------------------
(* What follows for the specification                                      *)

(* The types hold, and with them that no forbidden combination of flags is *)
(* ever built, for every length and every argument of                      *)
(* connect_message_build (msg_connect.c:116-157).                          *)
THEOREM TypeCorrect == Spec => [](TypeOK /\ Shape)
<1>1. Init => TypeOK /\ Shape
  BY TypeInit, ShapeInit
<1>2. TypeOK /\ Shape /\ [Next]_vars => (TypeOK /\ Shape)'
  BY TypeStep, ShapeStep
<1>3. QED
  BY <1>1, <1>2, PTL DEF Spec

LEMMA ShapeFits == TypeOK /\ Shape => BufferSuffices
<1> SUFFICES ASSUME TypeOK, Shape PROVE BufferSuffices
  OBVIOUS
<1>1. payload_len <= payload_room
  BY DEF Shape
<1>2. ASSUME pc = "built" PROVE message_len <= room
  <2> DEFINE n == LengthField(payload_len + HeaderLen)
  <2>1. /\ message_len = 1 + n + HeaderLen + payload_len
        /\ payload_room = PayloadRoom /\ room = Largest(len)
    BY <1>2 DEF Shape, Built
  <2>2. n \in 1..3 /\ HeaderLen = 10 /\ payload_len \in Nat
    BY DEF LengthField, HeaderLen, TypeOK
  <2>3. PayloadRoom \in Nat /\ PayloadRoom + 15 <= Largest(len)
    BY RoomIsExact
  <2>4. room \in Nat
    BY DEF TypeOK
  <2> HIDE DEF n
  <2>5. QED
    BY <1>1, <2>1, <2>2, <2>3, <2>4
<1>3. QED
  BY <1>1, <1>2 DEF BufferSuffices

(* connect_message_build never writes past the memory it counted for the   *)
(* payload, nor past what connect_message_len_calc told the caller to      *)
(* allocate, whatever the five lengths (msg_connect.c:26-43 and 100-254).  *)
THEOREM MessageFits == Spec => []BufferSuffices
<1>1. QED
  BY TypeCorrect, ShapeFits, PTL

(* connect_message_parse refuses a message with a will that                *)
(* connect_message_build wrote only for an empty client identifier,        *)
(* whatever the lengths (WillAccepted; msg_connect.c:340-581).             *)
THEOREM WillIsAccepted == Spec => []WillAccepted
<1>1. TypeOK /\ Shape => WillAccepted
  BY DEF Shape
<1>2. QED
  BY <1>1, TypeCorrect, PTL

LEMMA ShapeReturns == TypeOK /\ Shape => MemoryReturned
<1> SUFFICES ASSUME TypeOK, Shape PROVE MemoryReturned
  OBVIOUS
<1>1. ASSUME pc \in {"failed", "built", "refused", "nomemory"} PROVE heap = {}
  BY <1>1 DEF Shape
<1>2. ASSUME pc = "parsed"
      PROVE  heap = {f \in Names : Configured(f) /\ len[f] > 0}
  <2>1. heap = Got(flags, len, 6) /\ flags = FlagsOf
    BY <1>2 DEF Shape, Built
  <2>2. \A f \in Names : In(FlagsOf, f) <=> Configured(f)
    BY FlagsMean, OrderIs DEF In, FlagFor, Configured
  <2>3. \A f \in Names : \E i \in 1..5 : i < 6 /\ f = Order[i]
    BY OrderIs
  <2>4. QED
    BY <2>1, <2>2, <2>3 DEF Got
<1>3. QED
  BY <1>1, <1>2 DEF MemoryReturned

(* Every way out of the build and of the parse gives back the memory: the  *)
(* payload buffer always, the fields of a parse that fails; a parse that   *)
(* succeeds leaves exactly the fields that are not empty                   *)
(* (msg_connect.c:259-260, 265-292 and 585-588).                           *)
THEOREM MemoryIsReturned == Spec => []MemoryReturned
<1>1. QED
  BY TypeCorrect, ShapeReturns, PTL

-----------------------------------------------------------------------------
(* What the parser has found *)

(* Each field before the k-th that is in the message, as itself.           *)
Pairs(fl, k) == {<<Order[i], Order[i]>> : i \in {j \in 1..5 : j < k /\ In(fl, Order[j])}}

RangeOf(p) == {p[i] : i \in DOMAIN p}

PairsInv ==
    /\ pc = "parse" => RangeOf(parsed) = Pairs(flags, field)
    /\ pc = "parsed" => RangeOf(parsed) = Pairs(flags, 6) /\ message_len = 0

LEMMA RangeAppended ==
    ASSUME NEW S, NEW p \in Seq(S), NEW x \in S
    PROVE  RangeOf(Append(p, x)) = RangeOf(p) \cup {x}
<1> DEFINE q == Append(p, x)
           L == Len(p)
<1>1. L \in Nat /\ DOMAIN p = 1..L /\ DOMAIN q = 1..(L + 1) /\ q[L + 1] = x
      /\ \A i \in 1..L : q[i] = p[i]
  OBVIOUS
<1> HIDE DEF q, L
<1>2. \A i \in 1..(L + 1) : i \in 1..L \/ i = L + 1
  BY <1>1
<1>3. RangeOf(q) = RangeOf(p) \cup {x}
  <2>1. \A i \in 1..(L + 1) : q[i] \in RangeOf(p) \cup {x}
    BY <1>1, <1>2 DEF RangeOf
  <2>2. L + 1 \in 1..(L + 1) /\ \A i \in 1..L : i \in 1..(L + 1)
    BY <1>1
  <2> QED
    BY <1>1, <2>1, <2>2 DEF RangeOf
<1> QED
  BY <1>3 DEF q

LEMMA PairsNext ==
    ASSUME NEW fl, NEW k \in 1..5
    PROVE  Pairs(fl, k + 1) = IF In(fl, Order[k])
                              THEN Pairs(fl, k) \cup {<<Order[k], Order[k]>>}
                              ELSE Pairs(fl, k)
<1>1. \A i \in 1..5 : i < k + 1 <=> (i < k \/ i = k)
  OBVIOUS
<1> QED
  BY <1>1 DEF Pairs

LEMMA PairsStep ==
    ASSUME TypeOK, Shape, PairsInv, [Next]_vars
    PROVE  PairsInv'
<1> USE DEF PairsInv, argVars, buildVars
<1>1. CASE ParseHeader
  <2>1. parsed = <<>> /\ parsed' = parsed /\ pc' # "parsed"
        /\ (pc' = "parse" => field' = 1)
    BY <1>1 DEF ParseHeader, Shape
  <2>2. RangeOf(<<>>) = {} /\ Pairs(flags', 1) = {}
    BY DEF RangeOf, Pairs
  <2> QED
    BY <2>1, <2>2
<1>2. CASE ParseField
  <2>1. pc = "parse" /\ field \in 1..5 /\ In(flags, Order[field]) /\ flags' = flags
        /\ InMessage(Order[field])
    BY <1>2 DEF ParseField, TypeOK, InMessage, In
  <2>2. CASE pc' = "refused"
    BY <2>2
  <2>3. CASE pc' = pc /\ field' = field + 1
             /\ parsed' = Append(parsed, <<Order[field], Found>>)
    <3>1. Found = Order[field] /\ Found \in Names
      BY <2>1, FoundIsExpected
    <3>2. RangeOf(parsed') = RangeOf(parsed) \cup {<<Order[field], Order[field]>>}
      <4> DEFINE x == <<Order[field], Order[field]>>
      <4>1. x \in Names \X Names /\ parsed \in Seq(Names \X Names)
        BY <3>1 DEF TypeOK
      <4>2. parsed' = Append(parsed, x)
        BY <2>3, <3>1
      <4> HIDE DEF x
      <4>3. RangeOf(parsed') = RangeOf(parsed) \cup {x}
        BY <4>1, <4>2, RangeAppended
      <4> QED
        BY <4>3 DEF x
    <3> QED
      BY <2>1, <2>3, <3>2, PairsNext
  <2> QED
    BY <1>2, <2>2, <2>3 DEF ParseField
<1>3. CASE PassField
  <2>1. pc = "parse" /\ field \in 1..5 /\ ~In(flags, Order[field]) /\ field' = field + 1
        /\ UNCHANGED <<pc, flags, parsed>>
    BY <1>3 DEF PassField, TypeOK, InMessage, In
  <2> QED
    BY <2>1, PairsNext
<1>4. CASE ParseEnd
  BY <1>4 DEF ParseEnd
<1>5. CASE UNCHANGED vars
  BY <1>5 DEF vars
<1>6. CASE LenCalc \/ RefuseId \/ SetFlags \/ BuildField \/ SkipField \/ Assemble
           \/ NoMemory
  <2>1. pc' # "parse" /\ pc' # "parsed"
    BY <1>6 DEF LenCalc, RefuseId, SetFlags, BuildField, SkipField, Assemble, NoMemory
  <2> QED
    BY <2>1
<1> QED
  BY <1>1, <1>2, <1>3, <1>4, <1>5, <1>6 DEF Next

(* The arguments can be read off the flags of a message with a will.       *)
LEMMA FlagsTell ==
    ASSUME Will, flags = FlagsOf, will_qos \in Nat, clean_session \in BOOLEAN,
           will_retain \in BOOLEAN
    PROVE  /\ ("CLEAN_SESSION" \in flags) = clean_session
           /\ ("WILL_RETAIN" \in flags) = will_retain
           /\ ReadQos = IF will_qos <= 2 THEN will_qos ELSE 0
<1>1. "CLEAN_SESSION" \in flags <=> clean_session
  BY DEF FlagsOf
<1>2. "WILL_RETAIN" \in flags <=> will_retain
  BY DEF FlagsOf
<1>3. /\ "WILL_QOS_LOW" \in flags <=> will_qos = 1
      /\ "WILL_QOS_HIGH" \in flags <=> will_qos = 2
  BY DEF FlagsOf
<1>4. ReadQos = IF will_qos <= 2 THEN will_qos ELSE 0
  BY <1>3 DEF ReadQos
<1> QED
  BY <1>1, <1>2, <1>4

LEMMA PairsTell == TypeOK /\ Shape /\ PairsInv => ParsedIsBuilt
<1> SUFFICES ASSUME TypeOK, Shape, PairsInv, pc = "parsed" PROVE ParsedIsBuilt
  BY DEF ParsedIsBuilt
<1>1. Will /\ flags = FlagsOf /\ message_len = 0 /\ RangeOf(parsed) = Pairs(FlagsOf, 6)
  BY DEF Shape, Built, PairsInv
<1>2. \A f \in Names : In(FlagsOf, f) <=> Configured(f)
  BY FlagsMean, OrderIs DEF In, FlagFor, Configured
<1>3. Pairs(FlagsOf, 6) = {<<f, f>> : f \in {g \in Names : Configured(g)}}
  BY <1>2, OrderIs DEF Pairs
<1>4. /\ ("CLEAN_SESSION" \in flags) = clean_session
      /\ ("WILL_RETAIN" \in flags) = will_retain
      /\ ReadQos = IF will_qos <= 2 THEN will_qos ELSE 0
  BY <1>1, FlagsTell DEF TypeOK
<1> QED
  BY <1>1, <1>3, <1>4 DEF ParsedIsBuilt, RangeOf

(* connect_message_parse gives back exactly what connect_message_build was *)
(* given, for every length and every argument (msg_connect.c:86-254        *)
(* against 371-581).                                                       *)
THEOREM ParsesWhatWasBuilt == Spec => []ParsedIsBuilt
<1>1. Init => PairsInv
  BY DEF Init, PairsInv
<1>2. TypeOK /\ Shape /\ PairsInv /\ [Next]_vars => PairsInv'
  BY PairsStep
<1> QED
  BY <1>1, <1>2, TypeCorrect, PairsTell, PTL DEF Spec
=============================================================================
