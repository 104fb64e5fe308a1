# simple_mqtt in TLA+

TLA+ models of the MQTT client in `src/src`, the TLC runs that check them on
small instances, and TLAPS proofs that hold for every value of the constants.
The reference is the C code; line numbers below are those of `src/src/...`.

## 1. The system

simple_mqtt is a client library for MQTT 3.1.1, about 3000 lines of C. The
broker's files are empty. The library has an application side (connect,
subscribe, destroy), a thread of its own (the "deamon"), and codecs.

| component | state | operations | what makes it correct |
|---|---|---|---|
| client: connect (`client/client.c`, `network/network.c`) | `state`, `conn.socket_fd`, `keep_alive`, `client_id`, the receive timeout of the socket | `mqtt_client_create`, `mqtt_client_destroy` | success only after a CONNACK that accepts; a bounded number of CONNECTs; the call ends; no descriptor and no timeout left behind |
| client: subscribe (`client/client.c`) | `packet_id_next`, the global `message_send_list` | `mqtt_client_subscribe` | identifiers are not 0 and not used twice at a time; what was sent is kept |
| list of sent messages (`client/message_keep.c`) | nodes, `next`, head | `message_send_add`, `message_send_remove`, (`message_send_find`, which has no caller) | a first-in first-out list, under concurrent calls; no use of freed nodes |
| client deamon (`client/client_deamon.c`) | `keep_alive_timestamp`, `lock`, `buffer`, the epoll set, the timer | `client_deamon_thread`, `process_socket_event`, `process_timer_event`, `client_deamon_create` | every message is answered once and in order; PINGREQs on time and not too often; timeouts on time; neither duty starves the other; the lock is given back |
| message handlers (`client/client_message_process.c`) | none of their own | one per message type, and the senders of PUBACK, PUBREC, PUBREL, PINGREQ | the answer asked for, with the identifier asked for |
| remaining length (`message/message.c`) | none (loops) | `remain_length_encode`, `remain_length_decode`, `message_fixed_header_decode` | shortest field; what is encoded is read back; a field cut short never makes a message longer |
| CONNECT message (`message/msg_connect.c`) | the buffers of a build, the fields of a parse | `connect_message_len_calc`, `connect_message_build`, `connect_message_parse`, `connect_payload_release` | three separate countings of the same fields agree; parse after build gives the fields back; no way out keeps memory |
| SUBSCRIBE, UNSUBSCRIBE, SUBACK, PUBLISH (`message/msg_*.c`) | the buffer of a build, the parser's place, the list of filters, the growing array of SUBACK | build and parse of each message, `subscribe_message_len_calc`, `topic_filter_release`, `suback_data_init`, `suback_data_append` | the lengths counted in three places agree; no write behind a buffer or an array; parse after build gives the fields back; every node of the list comes back |
| the other codecs (PUBACK ... DISCONNECT) | none | build and parse of two or four bytes | one comparison each |
| callbacks, log, tests | two function pointers | | |

How they interact. `mqtt_client_create` runs before anything else and leaves a
connected client. The deamon thread then waits in `epoll_wait` for the socket
and a timer that fires every second, and calls the handlers and the timer
function, which send on the socket and edit `message_send_list`. Application
threads call `mqtt_client_subscribe` meanwhile: it sends on the same socket,
appends to the same list and advances `packet_id_next`. The timer function
holds `lock`; nothing else takes it.

What is hard: the unlocked list (`message_keep.c:32-42` against 66-84), the
scan that reads a node it has freed (`client_deamon.c:218`), one thread for two
duties over a loop that only a failing `recv` ends (line 178), the clock read
before the lock and again after the send, failing sends on every path,
identifiers that wrap, CONNACKs that come late, twice, in pieces or not at all,
the end of stream, a stream of bytes that is cut anywhere under a reader that
asks twice, the exits of `client_deamon_create` in reverse order with a thread
that may still run, and the many exits of a parse that has allocated some of
its fields. `PROJECT.json` lists each hazard at its line with the properties
that look after it.

## 2. The modules

| module | models |
|---|---|
| `ClientDeamon` | the deamon thread, its handlers, one subscribing application thread, the broker and the clock |
| `FrameReader` | `process_socket_event` over the bytes of the TCP stream |
| `MessageStream` | what that reader promises: every message once, complete, in order |
| `ClientConnect` | `mqtt_client_create` and `mqtt_client_destroy` over a TCP connection |
| `ClientLife` | `ClientConnect` composed with `client_deamon_create`: the calls of an application one after the other |
| `MessageKeep` | the list pointer by pointer, several threads, memory that is reused |
| `SendList` | what the list promises: append at the end, take one, keep the order |
| `RemainLength` | the two loops over the length field and the way between them |
| `Messages` | SUBSCRIBE, UNSUBSCRIBE, SUBACK and PUBLISH, on top of `RemainLength` |
| `ConnectMessage` | size, build, parse and release of a CONNECT |
| `MC*` | values of the constants for TLC |
| `ClientDeamonProofs`, `ClientConnectProofs`, `ClientLifeProofs`, `ConnectMessageProofs`, `RemainLengthProofs`, `MessagesProofs`, `FrameReaderProofs`, `MessageKeepProofs` | theorems about the module of that name |

A definition whose comment begins with *Mutation* is not part of the model: it
is a variant of the definition after it, with a mistake a programmer could
make, and every checked property is known to fail when such a variant takes
the place of the real one.

### ClientDeamon

Variables are named as in the code (`message_send_list`, `packet_id_next`,
`keep_alive_timestamp`, `lock`); `pc` says where the deamon thread is, `app`
where the application is in `mqtt_client_subscribe`, `rx` what the broker has
sent and `recv` has not returned. `timer_now` and `cursor` are the locals `now`
and `curr` of `process_timer_event`. Ghosts: `laps`, `lastPing`, `unsettled`,
`reported`, `dropped`. `unsettled` is what the broker sent and has not been
dealt with. It is settled by what MQTT has each acknowledgement acknowledge
(`Acknowledges`, `Settles`), which is written the other way round from the
handlers' `Reply`, and a message whose reply could not be sent is given up
(`GiveUp`), that one and no other: so `RepliesInOrder` goes on after a send that
failed, and after a PUBLISH with QoS 3, which its handler cannot parse.

| actions | code |
|---|---|
| `EpollWait`, `HandleEvent` | the loop of `client_deamon_thread`; the events of one `epoll_wait` are handled in any order |
| `Receive`, `ReceiveNothing` | `process_socket_event`: recv, decode, dispatch, and the ways out of its loop (nothing to read, error, end of stream decoded as type 0, unknown type) |
| `SendReply`, `RemoveAfterPuback` | `puback_msg_sent`, `pubrec_msg_sent`, `pubrel_msg_sent`; the first goes on to `message_send_remove` |
| `ReadTimer`, `ReadClock`, `LockAndCheck`, `SendPing`, `StampPing` | `process_timer_event` up to the scan, with `goto error` |
| `ScanHead`, `ScanNode`, `RemoveExpired`, `LoadNext`, `ScanDone`, `Unlock` | the scan and the end of the function |
| `SubscribeSend`, `SubscribeAdd`, `SubscribeNoMemory`, `SubscribeBump` | `mqtt_client_subscribe` |
| `BrokerSend`, `ConnectionEnds`, `Tick` | the broker, the network, the clock and timer |

A step is the code between two accesses to something shared. One list
operation (`message_send_add`, `message_send_remove`, one node of the scan) is
one step here, although they take no common lock, and what happens when two of
them overlap is the subject of `MessageKeep`. So `Accounted` is a property of
the code only as far as list operations do not overlap and freed memory goes to
nodes only, as its comment says: it is about the timeout scan between its nodes
against adds and PUBACKs, and `keep_loses` shows what is lost when operations
overlap. A node that the scan has freed keeps its successor until its memory is
given out again: `SubscribeAdd` then may, or may not, end the scan.

`send` on a reset connection either fails or raises SIGPIPE, whose default
action ends the process (`proc = "sigpipe"`). A full send buffer, which blocks
or cuts a send short, is not modelled.

Messages arrive whole and one behind the other only after one of five bytes or
more (`Spaced`), because `recv` asks for five bytes; what the byte stream does
under this is the subject of `FrameReader`. The deamon is assumed to start with
an open connection, as its own comments say (line 135), although
`mqtt_client_create` closes it (`connect_closes`). The constant `Blocking` says
which mode the socket is in. The code never calls `network_unblock`, so by
itself it runs with TRUE. FALSE has every behaviour of TRUE and those where
`recv` finds nothing and returns (an application can call `network_unblock`
before it creates the deamon): the safety properties are checked and proved for
both in this way. Of the liveness properties, `deamon` says what the loop
achieves with FALSE and `deamon_blocks` that it does not with TRUE.

The timer's expiry interrupts nothing: it makes the descriptor readable.
`Tick` also advances the clock; `now` stays at `MaxTime` once it is there, the
timer goes on ticking.

### FrameReader and MessageStream

| actions | code |
|---|---|
| `EpollWait`, `ReceiveHeader`, `ReceiveRest`, `ReceiveFails`, `Dispatch` | `process_socket_event`: recv of five bytes, `message_fixed_header_decode` (`MessageLen`), recv of what is missing, the switch and the way out of the loop |
| `BrokerSend`, `Arrive`, `PeerCloses`, `PeerResets` | the broker and TCP |

`sent` is the sequence of messages, `begins` where each starts in the stream;
`taken` and `arrived` count bytes. Messages are sequences of bytes, the only
place where they must be: a PUBACK followed by anything is read into its
successor, and the bytes of a payload may then be taken for a message. The
variable `whole`, chosen once, separates two questions. With FALSE the stream is
cut anywhere and `StaysInside` says what the reader does all the same: a turn
that begins at the first byte of a message of five bytes or more never reads
past its end, and if the message was there when the turn began its handler gets
exactly it. (A message of fewer bytes takes what follows with it, and one that
came in part is handed over with zeros in place of the rest: the result of the
second `recv` is not compared with what was asked for. That is what the code
does, so nothing is claimed of these.) With TRUE it arrives as `ClientDeamon`
assumes, and the reader implements `MessageStream`: `unread` and `handed` are
computed from the stream and the buffer. Byte values go through the real
decoding, with `Base` in the place of 128. What the broker sends is well-formed
(`AnnounceAssumption`): of a known type, with a length field that is right.

The second `recv` is given `buffer + ret` and as many bytes as the message
announces, and nothing looks at the 1024 bytes of the buffer. `ReceiveRest`
does the same: what does not fit is written behind the buffer (`memory` is then
`"overwritten"`), the message is dispatched and the loop goes on. From then on
the process may go down at any time (`Crash`). Until it does, the reader's own
variables are taken to be intact, which is one of the outcomes the undefined
behaviour may have. `ret` of the second `recv` lives on in a turn whose type has
no handler, and the loop then ends if it is more than `BUFFER_SIZE` (line 178,
`GoesOn`). `StaysInside` says when the buffer is overrun: a turn in step with
the messages does so with a message longer than the buffer, and with no other.
`TypeOK` bounds what a turn reads by what the header announces, not by the size
of the buffer.

### ClientConnect

One action per piece of `network_connect`, `message_send_and_wait_ack`,
`connect_message_send`, `connack_message_parse` (its decision), and the label
`disconnect`. Data is counted in bytes (`queued` in the network, `arrived` in
the receive buffer); a CONNACK is four of them and `recv` takes up to five. The
broker answers each CONNECT at most once, may accept or refuse, may put the
first byte of another message behind an acceptance, may close, and the
connection may be reset. Descriptors are numbers and the kernel hands out the
smallest free one, so descriptor 0 is taken at the start and may be closed by a
`mqtt_client_destroy` of a client that has none. The uninitialised `field_len`
of `connack_message_parse` is a choice between 0 and another value; that every
other value gives the same result is what `RemainLength` shows.

### ClientLife

| actions | code |
|---|---|
| `ConnectStep` | every step of `ClientConnect`, while no other call is under way |
| `DeamonCreate`, `InitTimer`, `CreateEpoll`, `AddDescriptors`, `Spawn`, `Join` | `client_deamon_create` from the top, each with its error exit |
| `CloseEpoll`, `CloseTimer`, `FreeContext` | the labels `close2`, `close1`, `free` |
| `ThreadEnds` | `client_deamon_thread` when its descriptor or its context is gone |

The two modules share the descriptors (`open`), so a leak of one call is seen
by the next, and descriptor 0 or the client's own may be among the numbers an
error exit closes. `pthread_join` gets a return code for a thread: it either
returns at once or ends the process. The thread that is then left may find its
epoll descriptor closed, or its context freed. One thread at a time: the next
call is made when the one before has ended.

Three ghosts say whose a descriptor is that no call under way has opened: `std`,
descriptor 0 of the start, `unmet`, the socket of a create whose `connect()`
failed, which its client still names (`client.c:156`), and `stray`, such sockets
that a later create has forgotten, the leak of the code. `DescriptorsAccounted`
says that at any moment the open descriptors are these and those of the call in
progress, and no more: so only a failing `connect()` leaves a socket behind, and
no exit closes another's descriptor. Where one of those descriptors *is* closed
by another call (`mqtt_client_destroy` of a client whose descriptor is 0), the
ghost is cleared, as the code does close it.

### MessageKeep and SendList

Every read and write of the head or of a `next` field that another thread may
change is a step: `message_send_remove` reads the head three times
(`RemoveBegin`, `RemoveHead`, `LoadVictim`), and the successor of `curr` in the
test of its loop (`RemoveWalk`), to compare (`RemoveCompare`), to remember
(`LoadVictim`) and to go on (`RemoveMovesOn`). Memory is `NumCells` cells.
`Free` leaves the contents of a cell; `Allocate` clears the one it picks, any
free one. A free cell may also be given to others: the buffer of a message
(`message_keep.c:22`, `client.c:94` and 204), or anything else. What is then
read as its `next` (`NextAt`) is the old content, NULL, or `WILD`, an address at
which no node begins, and another value may be read each time; its `packet_id`
(`IdAt`) may be any. A process that reads through `WILD` has gone astray
(`proc`), and nothing is said of it from there on. `TypeOK` says who can: the
walk of an adder, and the scan in its step to the next node
(`client_deamon.c:218`), but never `message_send_remove`. When the second malloc
of `message_send_add` fails, the node is freed before anyone has seen it, and
the call is no step of the model.

The deamon calls `message_send_remove` for an identifier of the broker's choice,
or scans. `overlap`, chosen once from `Overlaps`, is TRUE for the code; FALSE
lets a call start only when no other is under way, and then nothing is lost
(`AddedIsKeptAlone`) and the list implements `SendList` (`RefinesSendList`, an
INSTANCE with the identifiers along the list as `kept`; with `overlap` that list
is given as empty, so the property speaks of the other case only). Two threads
add in the run `keep`. When their calls overlap they may see the same tail, and
a message is lost without the deamon's help. With four adds a message may even
be reported twice: one thread links it behind a freed cell that the other was
given meanwhile, the scan that freed the cell goes on through it, reports the
message and does not find it on the list; later the other thread links the cell.
So `ReportedOnce` speaks of the time in which one thread is all that has ever
added (`Sole`), and in which the process has not gone astray: a scan that goes
on in the buffer of a message hands over what is no message at all.

### RemainLength

One action per turn of each loop. `Deliver` stands for everything between: the
bytes the sender wrote, of which `recv` returned the first `n`, the zeros of
`memset` behind them, arbitrary bytes behind a short field, and `*encode_len` as
`process_socket_event` passes it (the bytes received, the type byte included),
or unset, as `connack_message_parse` does for a length of 2.

### Messages

| actions | code |
|---|---|
| `ArrayInit`, `ArrayFill`, `ArrayGrow`, `ArrayDone` | `suback_data_init`, `suback_data_append`, called by whoever builds a SUBACK and by its parser |
| `CountFilter`, `CountDone` | `subscribe_message_len_calc` and the first loop of the two builds over filters |
| `LengthStep` | the loops of `RemainLength`, inside each build and each parse |
| `CheckRoom`, `BuildFilter`, `FiltersDone`, `BuildValues`, `BuildPublish` | `*_message_build` |
| `ParseLength`, `ParseHeader`, `ParseFilter`, `FilterNoMemory`, `FiltersParsed`, `ParsePublish` | `*_message_parse` |
| `ExitNode` | one turn of the loop behind `_exit` in the two parsers of filters |
| `ReleaseFilters` | `topic_filter_release` |

A job is what is built and by whom: `own` is FALSE for a message another program
sends, which may be empty or hold a QoS value that is none. `items` is what
stands in the message, each string with the place it was written to; the parser,
at `place`, finds the string that begins there (`Standing`) and nothing else, so
a parser that lost count would find none. Room, bytes written and the announced
length are three variables of three pieces of code (`room`, `written`, `input`).
PUBLISH counts in 16 bits (`msg_publish.c:48`); one that wraps is built past its
buffer or is not followed any further. A SUBACK may have any number of values:
its parser counts them in 32 bits and passes the number to `suback_data_init`,
which takes 16 (`msg_suback.c:156` and 193), so that one of 65536 values begins
with an array of ten and grows from there until the capacity goes round
(`"out of array"`); `InCapacity` says that it takes that many. In the parsers of
filters an error leaves the loop for `_exit`, where the list is walked and freed
node by node (`ExitNode`, at node `cur`, with `ret` to be returned). The first
node has an unset `next` until a filter is linked: `wild` is the list that
begins, or the walk that goes, there. The build of a SUBSCRIBE cuts the QoS of a
filter to its two low bits (`msg_subscribe.c:91`) and the parser refuses a 3
(line 175): this is the one message of the library's own that its parser takes
for malformed, and `ParsedIsBuilt` says that there is no other.

### ConnectMessage

| actions | code |
|---|---|
| `LenCalc` | `connect_message_len_calc`, whose result the caller allocates |
| `RefuseId`, `SetFlags`, `BuildField`, `SkipField`, `Assemble` | `connect_message_build`: the flags and the size of the payload in one pass, the fields in a second one, which looks at the flags only, then header and payload in the caller's buffer |
| `ParseHeader`, `ParseField`, `PassField`, `NoMemory`, `ParseEnd` | `connect_message_parse`, with `connect_payload_release` (`Release`) at its error exits |

A field is a name and a length; `payload` is the order of the fields as they
were written, so what the parser finds (`Found`) is what stands where it has
got to, not what it expects there. The parser is given only what the build
wrote. The check of line 394 tests the pointers `will_retain` and `will_qos`
instead of their values, so that it refuses each message without a will, which
`msg_connect.h:31-35` has as a normal one: `HeaderAccepted` does as the code
does, and the run `connect_refused` shows that `BuiltIsAccepted` fails of it.
`WillAccepted` says that a message with a will is refused for an empty client
identifier only.

## 3. The runs

| run | instance | shows |
|---|---|---|
| `deamon` | 1.1 million states, about 65 s | `TypeOK`, `IdOrder`, `RepliesInOrder`, `Accounted`, `PingSpacing`; `KeepAliveServed`, `TimeoutServed`, `RxServed`, `LockReleased` |
| `connect` | 1.7 million states, about 80 s | `TypeOK`, `SuccessMeansAccepted`, `RetriesBounded`, `DescriptorsAccounted`, `CallReturns`, `DeamonLeavesNothing`, on `ClientLife` |
| `keep` | 2.0 million states, about 80 s, two adding threads | `TypeOK`, `ListSound`, `FreedOnce`, `AddReturns` with and without overlapping calls; `ReportedOnce` while one thread has added; `AddedIsKeptAlone`, `RefinesSendList` without |
| `connect_message` | 0.2 million states | `TypeOK`, `BufferSuffices`, `ParsedIsBuilt`, `WillAccepted`, `MemoryReturned` |
| `messages` | 0.3 million states | `TypeOK`, `ShortestField`, `RoundTrip`, `Truncated` of the length field; `MessageTypeOK`, `BufferFits`, `ParsedIsBuilt`, `FiltersReturned`, `InCapacity` of the messages |
| `frames` | 1.8 million states, about 2 min | `TypeOK`, `StaysInside`, `ReaderReturns` however the stream is cut; `RefinesMessageStream` when it comes message by message |

Six more runs each end in a counterexample: a statement of a comment, a name or
a caller that the code does not keep.

| run | the code |
|---|---|
| `deamon_blocks` | a blocking socket keeps the thread in `recv`, the keep-alive is not sent |
| `deamon_removes` | `message_send_remove` on an empty list reads through NULL |
| `connect_closes` | a successful create has closed its socket |
| `deamon_create_returns` | `client_deamon_create` does not wait for its thread and frees what the thread uses |
| `keep_loses` | a removal beside `message_send_add` loses the new message |
| `connect_refused` | a CONNECT without a will, built by the library, is refused by its own parser (`msg_connect.c:394`) |

Two more things the models follow without a run of their own: `timestamp` of a
kept message is never set (`message_keep.c:8-43`), so with a clock far from 1970
every message has timed out at the first scan; and an end of stream during the
handshake is answered with one more CONNECT that is not counted
(`client.c:28-58`), so `RetriesBounded` speaks of calls that saw none.

Bounds, and why they are enough:

- `MaxTime = 4` with `KeepAlive = 2`, `TimeoutSec = 1`: a PINGREQ becomes due,
  is stamped, and a second one is sent after another interval, so that
  `PingSpacing` compares two of them, with every delay between the reading of the
  clock, the send and the stamp of the first; a message expires during and
  between scans. The clock counts no further, the timer goes on. `StartTime = 0` makes a timestamp of 0 young, so that both outcomes of
  the comparison at line 212 occur; `StartTime = 2` in `deamon_removes` is the
  ordinary case of a clock far from 1970.
- `MaxId = 2`, `MaxIssued = 3`: the third identifier given out comes after the
  wrap, while an old message with the same number may still be on the list.
- `MaxRx = 1`: with the message being answered there are two of the broker's that
  are not settled, enough for one to be skipped or answered in the place of the
  other. The proofs take any number.
- `MCBrokerMessages`: one message for each branch of `Reply` and of the
  dispatch, a PUBLISH with QoS 3 that its handler refuses, and identifiers that
  collide with the client's.
- `MaxConnects = 4` is one more than the three allowed; `MaxAnswers = 2` gives a
  late CONNACK and a second one behind it; descriptors 0, 3, 4 and 5 are enough
  for socket, timer, epoll and one that is in use or leaked, and for running
  out; keep-alives 0 and 5 are the two branches.
- `NumCells = 3`, and in `keep` two threads and `MaxAdds = 3`: both threads at
  the same tail, and one that adds again. In `keep_loses` one thread and
  `MaxAdds = 4`: the head, a middle and the tail, and a cell that is used again.
- `MCIdLens = {0, 23, 24}`: both sides of the longest client identifier, and
  none; `MCFieldLens = {0, 50}`: an absent field, and one that makes messages
  cross 128 bytes, where the length field grows; `MCWillQoses`: every value of
  the two bits, the invalid one too. Every combination of fields, of null
  pointers and of failing allocations is tried.
- `MCJobs`: lists of no, one and two filters with strings at both ends of their
  16 bits, with a QoS that is good, one the parser refuses and one the build
  cuts; SUBACK arrays around each step of growth (0, 3, 40) and up to 65535
  values, where the capacity goes round, and SUBACKs of 65546 values and more,
  twice round the 16 bits too; PUBLISHes on both sides of each length
  field and of 16 bits; buffers one byte short, exact and with room to spare.
- `MCMessage` of `frames`: messages of 2, 4, 5, 7 and 13 bytes, whose payload
  reads as other messages when the reader gets out of step; with
  `BufferSize = 7` one just fits and one overruns the buffer, its second `recv`
  returning more than the buffer holds; `Base = 4` takes the length field to its
  second byte.
  Three messages: one that is read into, one that is broken into, one after
  both.
- `MCLengths`: both sides of each boundary between field sizes, the first
  refused length, and the largest number TLC can hold (2^31 - 1; the proofs take
  any length).

`CHECK_DEADLOCK FALSE` everywhere: a process that a signal ended stops, and so
do one that went astray, a heap without cells after the last call, a parsed
message and a decoded length.

Fairness. In `ClientDeamon` the thread is weakly fair (the kernel schedules it;
the lock is only ever held by that thread) and the periodic timer fires again
and again; the broker and the application owe nothing. `KeepAliveServed` and
`TimeoutServed` hold unless the process or the connection is gone or messages
arrive without end, since the loop over `recv` has no other exit. In
`ClientConnect` a call in progress runs on (`recv` has a timeout,
`SO_RCVTIMEO`), and a peer that has closed answers data with a reset, as TCP
does: without that, the uncounted retry at end of stream would go on for ever.
`ClientLife` keeps that assumption and adds none for `client_deamon_create`, of
which no liveness is claimed. In `FrameReader` the thread is weakly fair, and
what was sent before the peer closed arrives (or the connection is reset). In
`MessageKeep` a call that has begun runs on.

## 4. The proofs

`tlapm` checks them for all values of the constants allowed by the assumptions
`ConstantsAssumption`, `ConnectAssumption`, `MessageAssumption`,
`LengthAssumption`, `JobAssumption`, `ReaderAssumption`, `AnnounceAssumption`
and `KeepAssumption`: any keep-alive interval, any size of the identifier, any
number of unread messages, any set of (well-formed) broker messages, any retry
limit, any set of descriptors, any size of the reader's buffer, any length, any
list of filters, any number of cells for the nodes of a list.

- `ClientDeamonProofs`: `TypeCorrect` (`TypeOK` is inductive; the delicate part
  is `cursor`, which the removal of the node it points at leaves on the list or
  at 0). `IdOrderInvariant`: `IdOrder` with `TypeOK` is inductive; removing a
  node keeps the order of the others, appending needs that the next identifier
  is past all of them, and the wrap needs `laps`. `PingsAreSpaced`: the
  invariant says that `timer_now` is not after `now`, that `lastPing` is not
  after the stamp (before it only between send and stamp), so a PINGREQ that is
  due by the old reading of the clock is due by the clock.
  `RepliesInOrderInvariant`: `RepliesInOrder` is inductive with the types, and
  each step that ends the work on a message needs that what `Reply` answers, or
  leaves unanswered, is what the acknowledgements are for (`AnswerSettles`,
  `SilenceSettles`). `AccountedInvariant`: the
  identifiers on the list are different because of `IdOrder`, so taking one off
  leaves the others; and since every timestamp is 0 and `timer_now` does not
  change during a scan, a scan that times one message out has timed out all
  before it, so its `cursor` is at the head (`ScanInv`).
- `ClientConnectProofs`: `TypeCorrect`; `RetriesAreBounded` from an invariant
  that ties `connects` to `retry` at each point of the loop as long as no end of
  stream was seen; `SuccessIsAccepted` from one that says what is known of the
  answer, the configuration and the client at each point of the call.
- `ClientLifeProofs`: `CreateLeavesNothing`: the invariant says, for each point
  of `client_deamon_create`, which descriptors are open beside those at the
  start; that each exit closes exactly those is then a step. `LifeTypeCorrect`
  and `LifeHandshake` carry the results on `ClientConnect` over to the
  composition, whose other steps leave the handshake alone. `NoOtherDescriptor`
  is the bookkeeping of all calls together: with one call under way at a time
  (`OneCall`) and what `FdInv` says of `client_deamon_create`,
  `DescriptorsAccounted` is inductive, a new descriptor being one that was not
  open and so none of those left by earlier calls.
- `ConnectMessageProofs`: `TypeCorrect`, `MessageFits`, `WillIsAccepted`,
  `MemoryIsReturned`, all from one invariant, `Shape`. `Count` and `Upto` give
  the place and the bytes of the fields before the k-th, from the flags and the
  lengths alone; the build has written, and the parser has read, exactly that
  much (`payload_len`, `Placed`, `message_len`, `Got`). So the second pass of
  the build ends where the first one counted, the parser finds the field it
  expects (`FoundIsExpected`), and what is left is always enough for it. The
  fields are five, so both are written out as sums and no induction is needed.
  `ParsesWhatWasBuilt` adds the set of pairs of what was expected and what was
  found (`PairsInv`).
- `RemainLengthProofs`: `TypeCorrect`, `FieldIsShortest`, `LengthIsReadBack`,
  `PartIsShorter`. The invariant says that the bytes written and what is left to
  encode make up the input (so the input is the sum of the digits times 128 to
  the power of their place), and that the decoder has the sum of the first
  `index` digits. The field has at most four bytes, so its sums are written out
  and no induction over the length of the field is needed.
- `MessagesProofs`: all nine invariants of the run `messages`, for any set of
  jobs. `MessageInv` is the inductive invariant; its parts are the field
  (`FieldInv` of `RemainLengthProofs`, whose lemmas are used again), the
  counting loop (`CountsInv`), what was written (`ItemsInv`), the parse
  (`ParseInv`), the array (`ArrayInv`) and the walk behind `_exit` (`ExitInv`:
  the nodes not freed yet are those from `cur` on, so the walk ends with none).
  `ArrayHolds` is for any number of values, also past 16 bits: an array that
  has gone round had at least 65526 values, and a parse of fewer than 65536
  begins with one that is large enough and never grows it. Lists may have any
  length, and yet no induction is needed: `counts` keeps the running sum after
  each turn of the counting loop, each string that is written begins at the
  corresponding sum (`Item`), and the parser is at the sum of what it has
  found. That these sums increase strictly is what makes the string at a place
  the only one there, so that the parser cannot take another for it.
- `FrameReaderProofs`: `ReaderTypeCorrect`, `ReaderStaysInside` and the
  refinement, `ReaderImplementsStream`. None of them stops at the end of the
  buffer: the first bounds a turn by what the header announces, the second says
  with which messages the buffer is overrun. `ReaderInv` says that the messages
  lie one behind the other with each byte in exactly one, and that the buffer
  of a turn is the stream from where the turn began. What a cut header
  announces is never more than what the whole one does (`PartAnnouncesLess`: a
  digit that was not received counts as 0), so a turn cannot ask past the
  message it began with. For the refinement, `WholeInv` adds what `whole`
  gives: a turn begins where a message does, the bytes that have arrived end
  where one does, and only the last unread message may have fewer than five
  bytes. A step into the switch is then `HandOver`, or the end of the stream;
  the way out of it is `HandlerReturns`; `BrokerSend` is `Send`; every other
  step is a stutter.
- `MessageKeepProofs`: all safety properties of `keep`, for any number of
  adding threads, cells and messages, and whatever others write into freed
  memory. `KeepTypeCorrect`, `ListStaysSound` and `NodesAreFreedOnce` hold in
  any interleaving, although messages get lost, and come from one invariant,
  `RankedInv`: the types (`KeepInv`, by which a node has an identifier and what
  a node's `next` holds is NULL or a cell) and an order among cells that no
  pointer goes against (`Ranked`). They are proved together: that
  `message_send_remove` follows the pointers of nodes only (`Firm`), and so
  never comes to `WILD`, follows from the order. The age of a cell is the
  number of the unfinished add whose node it hangs on, more than any such
  number once that node is on the list, and for a cell that has left the list
  no more than the number the next add will get. A walk to the tail never comes
  to a cell of the age of its own node or less; so storing behind its last
  cell, even when that has been freed or given to another thread, closes no
  cycle. Among cells of one age a rank counts down to the end, and a walk from
  the head comes to it. The cells the order speaks of are `held`: nodes, each
  with one pointer to it at most, closed under `next`; a node is not linked by
  anyone else until its thread has done so (`AddInv`), and what the deamon
  frees is not held any more (`RemoveInv`). `NothingIsLostAlone` and
  `ListRefined` are about calls that do not overlap. `SettledInv` says that
  there is a sequence `p` of different cells that the pointers follow
  (`Chain`), what the adder and the deamon hold of it (`WriteInv`, `FindInv`,
  `FreeInv`) and, when calls do not overlap, that nothing added is missing
  (`AloneInv`). Each step leaves `p`, appends a cell or takes one out
  (`Moves`), which are the steps of `SendList`. `Path`, the recursive function
  of the model, is shown to be `p` without induction: of the numbers of cells
  from the end for which it would differ there is no least one (`ChainIsPath`).
  `ToldOfOnce` (`ReportedOnce`) takes a single adder in any interleaving with
  the scan, while the process runs (`ToldInv`). What the scan has still to come
  to was not reported (`Fresh`), and what was reported is on the list only
  while it is being removed (`MarkInv`); the search of `message_send_remove`
  does not miss a cell that is on the list (`SeekInv`). The delicate cases are
  a successor read before the adder linked, where the unlink cuts off what
  follows (`ChainCutOff`), and the cell the scan has freed and reads again: it
  may be the adder's new node, which goes to the end of the list (`ReusedInv`),
  or nobody's, where the scan finds the old content, NULL, or `WILD`; the last
  takes it out of what is claimed.

Model-checked only: all liveness (`KeepAliveServed`, `TimeoutServed`, `RxServed`,
`LockReleased`, `CallReturns`, `AddReturns`, `ReaderReturns`), which TLAPS does
not handle (no fairness, no ENABLED). Theorems of induction over data are out of
its reach here as well, so no module uses a RECURSIVE operator.

## 5. Not modelled, and the plan

Left out for good: logging, the callbacks' registration, `mqtt_client_publish`
(it returns), `message_send_find` (no effect), the broker (no code), the tests,
and the codecs of fixed size (PUBACK, PUBREC, PUBREL, PUBCOMP, UNSUBACK,
PINGREQ, PINGRESP, DISCONNECT; what CONNACK's parser decides is in
`ClientConnect`): each is one comparison and no state.

Simplifications that a reader should know: the parsers of `Messages` and
`ConnectMessage` are given well-formed layouts, so what they do with strings
that point past the end of a message is not covered; a PUBLISH whose length
wrapped is not parsed; `ClientLife` has one deamon thread at a time; a full send
buffer, which blocks or cuts a send short, is nowhere modelled. Of undefined
behaviour two things are narrower than what may happen. In `FrameReader`, memory
behind the buffer that was overwritten may end the process, but does not change
the reader's own variables, and what a handler reads behind the received bytes
is zeros. In `MessageKeep`, memory that was freed and given to others does not
spell the address of another node, and what an adder stores behind a freed node
(line 41) does its harm only if the memory is a node again or was left alone.

Planned, in this order:

1. Two subscribing threads in `ClientDeamon`, for identifiers used twice, and a
   second connection over the list the first has left.
2. A client as its application sees it (connected, kept messages, their fate),
   which `ClientDeamon` should implement.
