--------------------------- MODULE ConnectMessage ---------------------------
(***************************************************************************)
(* The CONNECT message in msg_connect.c: connect_message_len_calc, which   *)
(* sizes the buffer, connect_message_build, which fills it, and            *)
(* connect_message_parse with connect_payload_release, given what the      *)
(* build wrote.                                                            *)
(*                                                                         *)
(* A field of the payload is its name and its length; a byte is only       *)
(* counted.  The pointer of a field is NULL or not (given).                *)
(***************************************************************************)
EXTENDS Integers, Sequences

CONSTANTS
    IdLens,    \* values of client_id_len to try
    FieldLens, \* lengths of the other four fields to try
    WillQoses  \* values of will_qos to try, uint8_t

IdMax == 23      \* MQTT_CLIENT_ID_LEN_MAX
HeaderLen == 10  \* sizeof(connect_variable_header_t)

ASSUME MessageAssumption ==
    /\ \A n \in IdLens \cup FieldLens : n \in Nat /\ n < 65536   \* uint16_t
    /\ \A q \in WillQoses : q \in Nat /\ q < 256                \* uint8_t

Order == <<"client_id", "will_topic", "will_msg", "username", "password">>
Names == {Order[i] : i \in 1..5}

Flags == {"CLEAN_SESSION", "WILL_FLAG", "WILL_QOS_LOW", "WILL_QOS_HIGH",
          "WILL_RETAIN", "PASSWD", "USERNAME"}

VARIABLES
    pc,            \* where the build or the parse is
    len,           \* length of each field as configured
    given,         \* the fields whose pointer is not NULL
    clean_session, will_retain, will_qos,  \* arguments of the build
    room,          \* bytes connect_message_len_calc asks for
    payload_room,  \* bytes the build allocates for the payload
    flags,         \* var_header.flags
    payload,       \* the fields built so far, in order
    payload_len,   \* their bytes
    message_len,   \* bytes of the message; when parsed, those that are left
    field,         \* next place in Order
    heap,          \* "payload" and the fields of conn_payload allocated
    parsed         \* ghost: the fields found by the parser, in order

argVars == <<len, given, clean_session, will_retain, will_qos>>
buildVars == <<room, payload_room, flags, payload, payload_len>>
vars == <<pc, argVars, buildVars, message_len, field, heap, parsed>>

Init ==
    /\ pc = "calc"
    /\ len \in {l \in [Names -> IdLens \cup FieldLens] :
                  /\ l["client_id"] \in IdLens
                  /\ \A f \in Names \ {"client_id"} : l[f] \in FieldLens}
    /\ given \in SUBSET Names
    /\ clean_session \in BOOLEAN /\ will_retain \in BOOLEAN
    /\ will_qos \in WillQoses
    /\ room = 0 /\ payload_room = 0 /\ flags = {} /\ payload = <<>>
    /\ payload_len = 0 /\ message_len = 0 /\ field = 1 /\ heap = {}
    /\ parsed = <<>>

-----------------------------------------------------------------------------
(* connect_message_len_calc and connect_message_build                      *)

(* Every field is counted, whether it will be in the message or not.       *)
LenCalc ==
    /\ pc = "calc"
    /\ room' = 1 + 4 + HeaderLen + (len["client_id"] + 2) + (len["will_topic"] + 2)
                 + (len["will_msg"] + 2) + (len["username"] + 2) + (len["password"] + 2)
    /\ pc' = "flags"
    /\ UNCHANGED <<argVars, payload_room, flags, payload, payload_len, message_len,
                   field, heap, parsed>>

RefuseId ==
    /\ pc = "flags" /\ len["client_id"] > IdMax
    /\ pc' = "failed"
    /\ UNCHANGED <<argVars, buildVars, message_len, field, heap, parsed>>

Present(f) == f \in given /\ len[f] > 0

Will == Present("will_topic") /\ Present("will_msg")

(* Mutation: the password flag does not depend on the user name.           *)
PasswordAlone == Present("password")

Password == Present("username") /\ Present("password")

(* An invalid will_qos leaves both bits 0.                                 *)
FlagsOf ==
    (IF clean_session THEN {"CLEAN_SESSION"} ELSE {})
      \cup (IF Will THEN {"WILL_FLAG"} ELSE {})
      \cup (IF Will /\ will_qos = 1 THEN {"WILL_QOS_LOW"} ELSE {})
      \cup (IF Will /\ will_qos = 2 THEN {"WILL_QOS_HIGH"} ELSE {})
      \cup (IF Will /\ will_retain THEN {"WILL_RETAIN"} ELSE {})
      \cup (IF Password THEN {"PASSWD"} ELSE {})
      \cup (IF Present("username") THEN {"USERNAME"} ELSE {})

(* Mutation: the two fields of the will are not counted.                   *)
PayloadRoomNoWill ==
    (len["client_id"] + 2)
      + (IF Password THEN len["password"] + 2 ELSE 0)
      + (IF Present("username") THEN len["username"] + 2 ELSE 0)

PayloadRoom ==
    (len["client_id"] + 2)
      + (IF Will THEN (len["will_topic"] + 2) + (len["will_msg"] + 2) ELSE 0)
      + (IF Password THEN len["password"] + 2 ELSE 0)
      + (IF Present("username") THEN len["username"] + 2 ELSE 0)

(* The flags are collected along with the size, then the memory is got.    *)
SetFlags ==
    /\ pc = "flags" /\ len["client_id"] <= IdMax
    /\ flags' = FlagsOf
    /\ payload_room' = PayloadRoom
    /\ \/ pc' = "fields" /\ heap' = {"payload"}
       \/ pc' = "failed" /\ UNCHANGED heap
    /\ UNCHANGED <<argVars, room, payload, payload_len, message_len, field, parsed>>

(* Mutation: the flags of user name and password are mistaken.             *)
FlagForSwapped(f) ==
    CASE f = "will_topic" -> "WILL_FLAG" [] f = "will_msg" -> "WILL_FLAG"
      [] f = "username" -> "PASSWD" [] OTHER -> "USERNAME"

(* Which fields are in the payload is decided by the flags alone.          *)
FlagFor(f) ==
    CASE f = "will_topic" -> "WILL_FLAG" [] f = "will_msg" -> "WILL_FLAG"
      [] f = "username" -> "USERNAME" [] OTHER -> "PASSWD"
InMessage(f) == f = "client_id" \/ FlagFor(f) \in flags

(* build_string_field refuses NULL with a length; then nothing is built.   *)
BuildField ==
    /\ pc = "fields" /\ field <= 5 /\ InMessage(Order[field])
    /\ \/ /\ Order[field] \in given \/ len[Order[field]] = 0
          /\ payload' = Append(payload, Order[field])
          /\ payload_len' = payload_len + len[Order[field]] + 2
          /\ field' = field + 1
          /\ UNCHANGED <<pc, heap>>
       \/ /\ Order[field] \notin given /\ len[Order[field]] # 0
          /\ pc' = "failed" /\ heap' = heap \ {"payload"}
          /\ UNCHANGED <<payload, payload_len, field>>
    /\ UNCHANGED <<argVars, room, payload_room, flags, message_len, parsed>>

SkipField ==
    /\ pc = "fields" /\ field <= 5 /\ ~InMessage(Order[field])
    /\ field' = field + 1
    /\ UNCHANGED <<pc, argVars, buildVars, message_len, heap, parsed>>

(* Bytes of a remaining length: that it is the shortest is shown in        *)
(* RemainLength, and a CONNECT never needs a fourth byte.                  *)
LengthField(n) == IF n < 128 THEN 1 ELSE IF n < 16384 THEN 2 ELSE 3

Assemble ==
    /\ pc = "fields" /\ field = 6
    /\ message_len' = 1 + LengthField(payload_len + HeaderLen)
                        + HeaderLen + payload_len
    /\ heap' = heap \ {"payload"}
    /\ pc' = "built"
    /\ UNCHANGED <<argVars, buildVars, field, parsed>>

-----------------------------------------------------------------------------
(* connect_message_parse of the message just built                         *)

(* The check that retain and QoS come with a will tests the two pointers,  *)
(* so that a message without a will is refused (BuiltIsAccepted).          *)
HeaderAccepted ==
    /\ "WILL_FLAG" \in flags
    /\ "PASSWD" \in flags => "USERNAME" \in flags
    /\ payload_len >= 2

(* What is left after the variable header is the payload.                  *)
ParseHeader ==
    /\ pc = "built"
    /\ \/ ~HeaderAccepted /\ pc' = "refused" /\ UNCHANGED <<message_len, field>>
       \/ /\ HeaderAccepted
          /\ message_len' = message_len - 1 - LengthField(payload_len + HeaderLen)
                              - HeaderLen
          /\ field' = 1
          /\ pc' = "parse"
    /\ UNCHANGED <<argVars, buildVars, heap, parsed>>

(* will_qos as it is read from its two bits.                               *)
ReadQos ==
    LET bits == 2 * (IF "WILL_QOS_HIGH" \in flags THEN 1 ELSE 0)
                  + (IF "WILL_QOS_LOW" \in flags THEN 1 ELSE 0)
    IN  IF bits > 2 THEN 0 ELSE bits

(* The field that stands where the parser is.                              *)
Found == payload[Len(parsed) + 1]

(* Mutation: a field that ends with the message is taken for too long.     *)
AcceptableInside(f) ==
    /\ f # "password" => len[Found] # 0
    /\ f = "client_id" => len[Found] <= 23
    /\ len[Found] < message_len - 2

(* A password may be empty, a client identifier neither empty nor long.    *)
Acceptable(f) ==
    /\ f # "password" => len[Found] # 0
    /\ f = "client_id" => len[Found] <= 23
    /\ len[Found] <= message_len - 2

(* Mutation: the error exit of a field returns without the release.        *)
ReleaseNothing == heap

(* connect_payload_release: what has a length and a pointer is freed.      *)
Release == heap \ Names

(* A refused client identifier returns at once: nothing is allocated yet.  *)
ParseField ==
    /\ pc = "parse" /\ field <= 5 /\ InMessage(Order[field])
    /\ \/ /\ Acceptable(Order[field])
          /\ heap' = IF len[Found] = 0 THEN heap ELSE heap \cup {Order[field]}
          /\ message_len' = message_len - (len[Found] + 2)
          /\ parsed' = Append(parsed, <<Order[field], Found>>)
          /\ field' = field + 1
          /\ UNCHANGED pc
       \/ /\ ~Acceptable(Order[field])
          /\ heap' = IF Order[field] = "client_id" THEN heap ELSE Release
          /\ pc' = "refused"
          /\ UNCHANGED <<message_len, parsed, field>>
    /\ UNCHANGED <<argVars, buildVars>>

(* malloc fails for a field.                                               *)
NoMemory ==
    /\ pc = "parse" /\ field <= 5 /\ InMessage(Order[field])
    /\ Acceptable(Order[field]) /\ len[Found] # 0
    /\ heap' = Release
    /\ pc' = "nomemory"
    /\ UNCHANGED <<argVars, buildVars, message_len, field, parsed>>

PassField ==
    /\ pc = "parse" /\ field <= 5 /\ ~InMessage(Order[field])
    /\ field' = field + 1
    /\ UNCHANGED <<pc, argVars, buildVars, message_len, heap, parsed>>

ParseEnd ==
    /\ pc = "parse" /\ field = 6
    /\ pc' = IF message_len = 0 THEN "parsed" ELSE "refused"
    /\ heap' = IF message_len = 0 THEN heap ELSE Release
    /\ UNCHANGED <<argVars, buildVars, message_len, field, parsed>>

-----------------------------------------------------------------------------
Next ==
    \/ LenCalc \/ RefuseId \/ SetFlags \/ BuildField \/ SkipField \/ Assemble
    \/ ParseHeader \/ ParseField \/ NoMemory \/ PassField \/ ParseEnd

Spec == Init /\ [][Next]_vars

-----------------------------------------------------------------------------
PCs == {"calc", "flags", "fields", "failed", "built", "parse", "refused",
        "nomemory", "parsed"}

(* Types, and the two combinations of flags the protocol forbids are never *)
(* built: a password without a user name, a QoS or retain without a will   *)
(* (msg_connect.c:116-157).                                                *)
TypeOK ==
    /\ pc \in PCs
    /\ len \in [Names -> Nat] /\ given \subseteq Names
    /\ clean_session \in BOOLEAN /\ will_retain \in BOOLEAN /\ will_qos \in Nat
    /\ room \in Nat /\ payload_room \in Nat /\ payload_len \in Nat
    /\ flags \subseteq Flags
    /\ "PASSWD" \in flags => "USERNAME" \in flags
    /\ flags \cap {"WILL_QOS_LOW", "WILL_QOS_HIGH", "WILL_RETAIN"} # {} =>
          "WILL_FLAG" \in flags
    /\ payload \in Seq(Names)
    /\ message_len \in Int /\ field \in 1..6
    /\ heap \subseteq Names \cup {"payload"}
    /\ parsed \in Seq(Names \X Names)

(* The build never writes past the memory it was given: the payload fits   *)
(* into what was counted beside the flags, and the message into what       *)
(* connect_message_len_calc, which does not know the flags, told the       *)
(* caller to allocate (msg_connect.c:26-43, 100-161 and 169-254).          *)
BufferSuffices ==
    /\ payload_len <= payload_room
    /\ pc = "built" => message_len <= room

(* A parse that succeeds finds exactly the fields that were configured,    *)
(* each where it looks for it, the arguments that went into the flags, and *)
(* no byte more (msg_connect.c:86-254 against 371-581).                    *)
Configured(f) ==
    CASE f = "client_id" -> TRUE
      [] f \in {"will_topic", "will_msg"} -> Will
      [] f = "username" -> Present("username")
      [] OTHER -> Password

ParsedIsBuilt ==
    pc = "parsed" =>
        /\ {parsed[i] : i \in DOMAIN parsed} =
              {<<f, f>> : f \in {g \in Names : Configured(g)}}
        /\ message_len = 0
        /\ ("CLEAN_SESSION" \in flags) = clean_session
        /\ ("WILL_RETAIN" \in flags) = will_retain
        /\ ReadQos = IF will_qos <= 2 THEN will_qos ELSE 0

(* A message with a will is refused only for an empty client identifier,   *)
(* as the comment at msg_connect.c:421-425 says, whatever other fields are *)
(* in it and whatever their lengths: every string is found where it is     *)
(* looked for and fits into what is left (msg_connect.c:340-581).          *)
WillAccepted == Will /\ pc = "refused" => len["client_id"] = 0

(* The same of every message the build writes: any field may be absent,    *)
(* and the flags are only checked for a conflict (msg_connect.h:31-35,     *)
(* msg_connect.c:393).  The code refuses each message without a will: its  *)
(* line 394 tests the pointers will_retain and will_qos, which are set.    *)
BuiltIsAccepted == pc = "refused" => len["client_id"] = 0

(* No way out of the build or of the parse keeps memory: the payload is    *)
(* freed, and what a failed parse had allocated is released; a successful  *)
(* one leaves the caller the fields that are not empty                     *)
(* (msg_connect.c:259-260, 265-292 and 585-588).                           *)
MemoryReturned ==
    /\ pc \in {"failed", "built", "refused", "nomemory"} => heap = {}
    /\ pc = "parsed" =>
          heap = {f \in Names : Configured(f) /\ len[f] > 0}
=============================================================================
