------------------------ MODULE ClientConnectProofs ------------------------
(***************************************************************************)
(* Proofs about ClientConnect, for every retry limit, default keep-alive,  *)
(* set of descriptors and number of answers.                               *)
(***************************************************************************)
EXTENDS ClientConnect, TLAPS

USE DEF AckLen, ConnackLen, NoDescriptor, Handshake, Smaller, clientVars,
        callVars, fdVars, ownerVars, netVars

LEMMA ZeroConnects == 0 \in 0..MaxConnects /\ 0 \in 0..RetryMax
BY ConnectAssumption

LEMMA TypeInit == Init => TypeOK
<1> SUFFICES ASSUME Init PROVE TypeOK
  OBVIOUS
<1>1. socket_fd \in Descriptors /\ open \subseteq Descriptors
  BY ConnectAssumption DEF Init
<1>2. retry \in 0..RetryMax /\ connects \in 0..MaxConnects /\ got \in 0..AckLen
  BY ZeroConnects DEF Init
<1>3. pc = "idle" /\ rcvtimeo = FALSE /\ eof = FALSE
  BY DEF Init
<1> QED
  BY <1>1, <1>2, <1>3 DEF Init, TypeOK

(* TypeOK needs two facts it does not state: the loop of the handshake is  *)
(* entered with retries left, and connect() is given a socket.             *)
RetryInv ==
    /\ pc \in {"send", "recv"} => retry < RetryMax
    /\ pc = "connect" => socket_fd \in Descriptors

LEMMA RetryInvStep ==
    ASSUME TypeOK, RetryInv, [Next]_vars
    PROVE  RetryInv'
<1> USE ConnectAssumption DEF TypeOK, RetryInv
<1>1. CASE UNCHANGED vars
  BY <1>1 DEF vars
<1>2. CASE Call
  BY <1>2 DEF Call, OpenSocket, ConnectFails, Connect, BuildFails, Build, Send,
     Receive, ReceiveTimeout, ReceiveEof, ReceiveError, ClearTimeout,
     ParseConnack, Accept, Disconnect, RetriesLeft, Free
<1>3. CASE Application \/ Broker
  BY <1>3 DEF Application, Broker, Create, Destroy, Answer, Arrive, PeerCloses,
     PeerResets
<1> QED
  BY <1>1, <1>2, <1>3 DEF Next

LEMMA TypeCall == TypeOK /\ RetryInv /\ Call => TypeOK'
<1> SUFFICES ASSUME TypeOK, RetryInv, Call PROVE TypeOK'
  OBVIOUS
<1> USE ConnectAssumption DEF TypeOK
<1>1. CASE OpenSocket
  <2>1. /\ socket_fd' \in Descriptors \cup {NoDescriptor}
        /\ open' \subseteq Descriptors
    BY <1>1 DEF OpenSocket, Free
  <2>2. std' \subseteq {0} /\ unmet' \subseteq Descriptors /\ stray' \subseteq Descriptors
    BY <1>1 DEF OpenSocket
  <2>3. /\ pc = "socket" /\ pc' \in {"idle", "connect"} /\ ret' \in {"ok", "error"}
        /\ UNCHANGED <<clientVars, config, rcvtimeo, retry, got, proc, netVars, connects,
                       eof>>
    BY <1>1 DEF OpenSocket
  <2> QED
    BY <2>1, <2>2, <2>3
<1>2. CASE ConnectFails
  BY <1>2 DEF ConnectFails, RetryInv
<1>3. CASE Connect
  BY <1>3, ZeroConnects DEF Connect
<1>4. CASE BuildFails
  BY <1>4 DEF BuildFails
<1>5. CASE Build
  BY <1>5 DEF Build
<1>6. CASE Send
  BY <1>6 DEF Send
<1>7. CASE Receive
  BY <1>7 DEF Receive
<1>8. CASE ReceiveTimeout
  BY <1>8 DEF ReceiveTimeout, RetriesLeft, RetryInv
<1>9. CASE ReceiveEof
  BY <1>9 DEF ReceiveEof
<1>10. CASE ReceiveError
  BY <1>10 DEF ReceiveError
<1>11. CASE ClearTimeout
  BY <1>11 DEF ClearTimeout
<1>12. CASE ParseConnack
  BY <1>12 DEF ParseConnack
<1>13. CASE Accept
  BY <1>13 DEF Accept
<1>14. CASE Disconnect
  <2>1. socket_fd' \in Descriptors /\ open' \subseteq Descriptors
    BY <1>14 DEF Disconnect
  <2>2. connects' \in 0..MaxConnects /\ retry' \in 0..RetryMax /\ got' \in 0..AckLen
    BY <1>14, ZeroConnects DEF Disconnect, NoConnection
  <2>3. /\ config' \in Nat /\ answers' \in Nat /\ queued' \in Nat /\ arrived' \in Nat
        /\ peer' = "none" /\ code' = "none" /\ eof' = FALSE /\ pc' = "idle"
    BY <1>14 DEF Disconnect, NoConnection
  <2> QED
    BY <1>14, <2>1, <2>2, <2>3 DEF Disconnect
<1> QED
  BY <1>1, <1>2, <1>3, <1>4, <1>5, <1>6, <1>7, <1>8, <1>9, <1>10, <1>11,
     <1>12, <1>13, <1>14 DEF Call

LEMMA TypeOthers == TypeOK /\ (Application \/ Broker) => TypeOK'
<1> SUFFICES ASSUME TypeOK, Application \/ Broker PROVE TypeOK'
  OBVIOUS
<1> USE ConnectAssumption DEF TypeOK
<1>1. CASE Create
  BY <1>1 DEF Create
<1>2. CASE Destroy
  BY <1>2 DEF Destroy
<1>3. CASE Answer
  BY <1>3 DEF Answer
<1>4. CASE Arrive
  BY <1>4 DEF Arrive
<1>5. CASE PeerCloses
  BY <1>5 DEF PeerCloses
<1>6. CASE PeerResets
  BY <1>6 DEF PeerResets
<1> QED
  BY <1>1, <1>2, <1>3, <1>4, <1>5, <1>6 DEF Application, Broker

(* Types, with the receive timeout set exactly during the handshake.       *)
THEOREM TypeCorrect == Spec => []TypeOK
<1>1. Init => TypeOK /\ RetryInv
  BY TypeInit DEF Init, RetryInv
<1>2. TypeOK /\ RetryInv /\ [Next]_vars => (TypeOK /\ RetryInv)'
  <2>1. TypeOK /\ UNCHANGED vars => TypeOK'
    BY DEF TypeOK, vars
  <2> QED
    BY <2>1, RetryInvStep, TypeCall, TypeOthers DEF Next
<1> QED
  BY <1>1, <1>2, PTL DEF Spec

-----------------------------------------------------------------------------
(* As long as recv has not returned 0, the CONNECTs sent are the timeouts  *)
(* counted in retry, and one more while its answer is awaited.             *)
CountInv ==
    ~eof =>
        /\ connects <= RetryMax
        /\ pc = "build" => connects = 0
        /\ pc = "send" => connects = retry /\ retry < RetryMax
        /\ pc = "recv" => connects = retry + 1 /\ retry < RetryMax

LEMMA CountStep ==
    ASSUME TypeOK, CountInv, [Next]_vars
    PROVE  CountInv'
<1> USE ConnectAssumption DEF TypeOK, CountInv
<1>1. CASE UNCHANGED vars
  BY <1>1 DEF vars
<1>2. CASE Connect \/ Build
  BY <1>2 DEF Connect, Build
<1>3. CASE Send
  BY <1>3 DEF Send
<1>4. CASE ReceiveTimeout
  BY <1>4 DEF ReceiveTimeout, RetriesLeft
<1>5. CASE ReceiveEof
  BY <1>5 DEF ReceiveEof
<1>6. CASE OpenSocket \/ ConnectFails \/ BuildFails \/ Receive \/ ReceiveError
           \/ ClearTimeout \/ ParseConnack \/ Accept \/ Disconnect
  BY <1>6 DEF OpenSocket, ConnectFails, BuildFails, Receive, ReceiveError,
     ClearTimeout, ParseConnack, Accept, Disconnect, NoConnection
<1>7. CASE Application \/ Broker
  BY <1>7 DEF Application, Broker, Create, Destroy, Answer, Arrive, PeerCloses,
     PeerResets
<1> QED
  BY <1>1, <1>2, <1>3, <1>4, <1>5, <1>6, <1>7 DEF Next, Call

(* At most RetryMax CONNECTs, unless the broker has closed its side.       *)
THEOREM RetriesAreBounded == Spec => []RetriesBounded
<1>1. Init => CountInv
  BY ConnectAssumption DEF Init, CountInv
<1>2. TypeOK /\ CountInv /\ [Next]_vars => CountInv'
  BY CountStep
<1>3. CountInv => RetriesBounded
  BY DEF CountInv, RetriesBounded
<1> QED
  BY <1>1, <1>2, <1>3, TypeCorrect, PTL DEF Spec

-----------------------------------------------------------------------------
(* Why success means accepted: the broker answers CONNECTs only, code is   *)
(* that of its first answer and never changes on a connection, and the     *)
(* keep-alive of the call has been replaced before the handshake.          *)
AcceptInv ==
    /\ answers > 0 => connects > 0
    /\ code # "none" => answers > 0
    /\ pc \in Handshake \cup {"parse", "accepted"} => config # 0
    /\ pc = "accepted" => code = "accepted"
    /\ SuccessMeansAccepted

LEMMA AcceptStep ==
    ASSUME TypeOK, AcceptInv, [Next]_vars
    PROVE  AcceptInv'
<1> USE ConnectAssumption DEF TypeOK, AcceptInv, SuccessMeansAccepted
<1>1. CASE UNCHANGED vars
  BY <1>1 DEF vars
<1>2. CASE OpenSocket \/ ConnectFails \/ Connect \/ BuildFails \/ Build
  BY <1>2 DEF OpenSocket, ConnectFails, Connect, BuildFails, Build
<1>3. CASE Send \/ Receive \/ ReceiveTimeout \/ ReceiveEof \/ ReceiveError
  BY <1>3 DEF Send, Receive, ReceiveTimeout, ReceiveEof, ReceiveError
<1>4. CASE ClearTimeout \/ ParseConnack
  BY <1>4 DEF ClearTimeout, ParseConnack, Accepted
<1>5. CASE Accept
  BY <1>5 DEF Accept
<1>6. CASE Disconnect
  BY <1>6 DEF Disconnect, NoConnection
<1>7. CASE Application
  BY <1>7 DEF Application, Create, Destroy
<1>8. CASE Answer
  BY <1>8 DEF Answer
<1>9. CASE Arrive \/ PeerCloses \/ PeerResets
  BY <1>9 DEF Arrive, PeerCloses, PeerResets
<1> QED
  BY <1>1, <1>2, <1>3, <1>4, <1>5, <1>6, <1>7, <1>8, <1>9 DEF Next, Call, Broker

(* mqtt_client_create succeeds only on an accepting CONNACK.               *)
THEOREM SuccessIsAccepted == Spec => []SuccessMeansAccepted
<1>1. Init => AcceptInv
  BY DEF Init, AcceptInv, SuccessMeansAccepted
<1>2. TypeOK /\ AcceptInv /\ [Next]_vars => AcceptInv'
  BY AcceptStep
<1>3. AcceptInv => SuccessMeansAccepted
  BY DEF AcceptInv
<1> QED
  BY <1>1, <1>2, <1>3, TypeCorrect, PTL DEF Spec
=============================================================================
