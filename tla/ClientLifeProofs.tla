-------------------------- MODULE ClientLifeProofs --------------------------
(***************************************************************************)
(* Proofs about ClientLife: the invariants of ClientConnect hold between   *)
(* and during calls of client_deamon_create too, and that call leaves the  *)
(* descriptors of the process as it found them.                            *)
(***************************************************************************)
EXTENDS ClientLife, ClientConnectProofs

USE DEF clientVars, netVars, ownerVars, Handshake, AckLen

(* What the steps of client_deamon_create and its thread leave alone.      *)
DeamonStep ==
    /\ UNCHANGED connectVars
    /\ open' \subseteq Descriptors
    /\ proc' \in {"running", "sigpipe", "segv"}

LEMMA DeamonSteps ==
    ASSUME TypeOK, DeamonCall \/ ThreadEnds
    PROVE  DeamonStep
<1> USE DEF TypeOK, DeamonStep, Calm
<1>1. CASE DeamonCreate
  BY <1>1 DEF DeamonCreate
<1>2. CASE InitTimer
  BY <1>2 DEF InitTimer, Free
<1>3. CASE CreateEpoll
  BY <1>3 DEF CreateEpoll, Free
<1>4. CASE AddDescriptors \/ Spawn \/ Join
  BY <1>4 DEF AddDescriptors, Spawn, Join
<1>5. CASE CloseEpoll \/ CloseTimer \/ FreeContext
  BY <1>5 DEF CloseEpoll, CloseTimer, FreeContext
<1>6. CASE ThreadEnds
  BY <1>6 DEF ThreadEnds
<1> QED
  BY <1>1, <1>2, <1>3, <1>4, <1>5, <1>6 DEF DeamonCall

LEMMA LifeSteps ==
    ASSUME TypeOK, [LifeNext]_lifeVars
    PROVE  [Next]_vars \/ DeamonStep
<1>1. CASE UNCHANGED lifeVars
  BY <1>1 DEF lifeVars
<1>2. CASE ConnectStep
  BY <1>2 DEF ConnectStep
<1>3. CASE DeamonCall \/ ThreadEnds
  BY <1>3, DeamonSteps
<1> QED
  BY <1>1, <1>2, <1>3 DEF LifeNext

-----------------------------------------------------------------------------
(* What ClientConnectProofs needs to prove its invariants.                 *)
ConnectInv == TypeOK /\ RetryInv /\ CountInv /\ AcceptInv

LEMMA ConnectInvInit == LifeInit => ConnectInv
<1> SUFFICES ASSUME Init PROVE ConnectInv
  BY DEF LifeInit
<1>1. TypeOK /\ RetryInv
  BY TypeInit DEF Init, RetryInv
<1>2. CountInv
  BY ConnectAssumption DEF Init, CountInv
<1>3. AcceptInv
  BY DEF Init, AcceptInv, SuccessMeansAccepted
<1> QED
  BY <1>1, <1>2, <1>3 DEF ConnectInv

LEMMA ConnectInvStep ==
    ASSUME ConnectInv, [LifeNext]_lifeVars
    PROVE  ConnectInv'
<1> USE DEF ConnectInv
<1>1. CASE [Next]_vars
  <2>1. TypeOK'
    <3>1. CASE UNCHANGED vars
      BY <3>1 DEF TypeOK, vars
    <3>2. CASE Next
      BY <3>2, TypeCall, TypeOthers DEF Next
    <3> QED
      BY <1>1, <3>1, <3>2
  <2> QED
    BY <1>1, <2>1, RetryInvStep, CountStep, AcceptStep
<1>2. CASE DeamonStep
  <2>1. TypeOK'
    BY <1>2 DEF DeamonStep, connectVars, TypeOK
  <2>2. RetryInv' /\ CountInv'
    BY <1>2 DEF DeamonStep, connectVars, RetryInv, CountInv
  <2>3. AcceptInv'
    BY <1>2 DEF DeamonStep, connectVars, AcceptInv, SuccessMeansAccepted
  <2> QED
    BY <2>1, <2>2, <2>3
<1> QED
  BY <1>1, <1>2, LifeSteps

(* Types and the receive timeout, whatever calls come one after the other. *)
THEOREM LifeTypeCorrect == LifeSpec => []TypeOK
<1>1. LifeInit => ConnectInv
  BY ConnectInvInit
<1>2. ConnectInv /\ [LifeNext]_lifeVars => ConnectInv'
  BY ConnectInvStep
<1>3. ConnectInv => TypeOK
  BY DEF ConnectInv
<1> QED
  BY <1>1, <1>2, <1>3, PTL DEF LifeSpec

(* Success still means accepted, and the CONNECTs are still bounded.       *)
THEOREM LifeHandshake == LifeSpec => [](SuccessMeansAccepted /\ RetriesBounded)
<1>1. LifeInit => ConnectInv
  BY ConnectInvInit
<1>2. ConnectInv /\ [LifeNext]_lifeVars => ConnectInv'
  BY ConnectInvStep
<1>3. ConnectInv => SuccessMeansAccepted /\ RetriesBounded
  BY DEF ConnectInv, AcceptInv, CountInv, RetriesBounded
<1> QED
  BY <1>1, <1>2, <1>3, PTL DEF LifeSpec

-----------------------------------------------------------------------------
(* Which descriptors of the call are open, place by place.                 *)
FdInv ==
    /\ dpc \in {"timer", "free"} => open = before
    /\ dpc \in {"epoll", "close1"} =>
          timer_fd \notin before /\ open = before \cup {timer_fd}
    /\ dpc \in {"add", "spawn", "join", "close2"} =>
          /\ timer_fd \notin before
          /\ epoll_fd \notin before \cup {timer_fd}
          /\ open = before \cup {timer_fd, epoll_fd}

LEMMA FdInvStep ==
    ASSUME FdInv, [LifeNext]_lifeVars
    PROVE  FdInv'
<1> USE DEF FdInv, Calm, ctxVars
<1>1. CASE UNCHANGED lifeVars
  BY <1>1 DEF lifeVars, vars, deamonVars
<1>2. CASE ConnectStep
  BY <1>2 DEF ConnectStep, deamonVars
<1>3. CASE DeamonCreate
  BY <1>3 DEF DeamonCreate
<1>4. CASE InitTimer
  BY <1>4 DEF InitTimer, Free
<1>5. CASE CreateEpoll
  BY <1>5 DEF CreateEpoll, Free
<1>6. CASE AddDescriptors \/ Spawn
  BY <1>6 DEF AddDescriptors, Spawn
<1>7. CASE Join
  BY <1>7 DEF Join
<1>8. CASE CloseEpoll
  BY <1>8 DEF CloseEpoll
<1>9. CASE CloseTimer
  BY <1>9 DEF CloseTimer
<1>10. CASE FreeContext
  BY <1>10 DEF FreeContext
<1>11. CASE ThreadEnds
  BY <1>11 DEF ThreadEnds
<1> QED
  BY <1>1, <1>2, <1>3, <1>4, <1>5, <1>6, <1>7, <1>8, <1>9, <1>10, <1>11
     DEF LifeNext, DeamonCall

(* client_deamon_create closes what it has opened, and nothing else.       *)
THEOREM CreateLeavesNothing == LifeSpec => DeamonLeavesNothing
<1> DEFINE Returns == dpc # "idle" /\ dpc' = "idle" => open' = before
<1>1. LifeInit => FdInv
  BY DEF LifeInit, FdInv
<1>2. FdInv /\ [LifeNext]_lifeVars => FdInv'
  BY FdInvStep
<1>3. FdInv /\ [LifeNext]_lifeVars => [Returns]_lifeVars
  <2> SUFFICES ASSUME FdInv, LifeNext, dpc # "idle", dpc' = "idle"
               PROVE  open' = before
    BY DEF lifeVars, deamonVars
  <2>1. dpc = "free" /\ FreeContext
    BY DEF LifeNext, ConnectStep, DeamonCall, DeamonCreate, InitTimer, CreateEpoll,
       AddDescriptors, Spawn, Join, CloseEpoll, CloseTimer, FreeContext, ThreadEnds
  <2> QED
    BY <2>1 DEF FdInv, FreeContext
<1> QED
  BY <1>1, <1>2, <1>3, PTL DEF LifeSpec, DeamonLeavesNothing

-----------------------------------------------------------------------------
(* Who has which descriptor.  One call is under way at a time.             *)
OneCall == dpc # "idle" => pc = "idle"

LEMMA OneCallStep ==
    ASSUME OneCall, [LifeNext]_lifeVars
    PROVE  OneCall'
<1> USE DEF OneCall
<1>1. CASE UNCHANGED lifeVars
  BY <1>1 DEF lifeVars, vars, deamonVars
<1>2. CASE ConnectStep
  BY <1>2 DEF ConnectStep, deamonVars
<1>3. CASE ThreadEnds
  BY <1>3 DEF ThreadEnds, connectVars
<1>4. CASE DeamonCall
  BY <1>4 DEF DeamonCall, DeamonCreate, InitTimer, CreateEpoll, AddDescriptors, Spawn,
     Join, CloseEpoll, CloseTimer, FreeContext, Calm, connectVars
<1> QED
  BY <1>1, <1>2, <1>3, <1>4 DEF LifeNext

(* The descriptors that no call in progress holds.                         *)
Left == UNION {std, unmet, stray}

LEMMA AccountedBy ==
    DescriptorsAccounted <=>
        /\ open = Left \cup Connecting \cup Attached
        /\ Connecting \cap Left = {} /\ Attached \cap Left = {}
        /\ unmet \subseteq {socket_fd}
BY DEF DescriptorsAccounted, Left

LEMMA AccountedConnect ==
    ASSUME DescriptorsAccounted, OneCall, ConnectStep
    PROVE  DescriptorsAccounted'
<1>1. /\ open = Left \cup Connecting /\ Connecting \cap Left = {}
      /\ unmet \subseteq {socket_fd} /\ Attached = {}
      /\ dpc = "idle" /\ dpc' = "idle"
  BY AccountedBy DEF ConnectStep, deamonVars, Attached
<1>2. Attached' = {}
  BY <1>1 DEF Attached
<1> SUFFICES /\ open' = Left' \cup Connecting' /\ Connecting' \cap Left' = {}
             /\ unmet' \subseteq {socket_fd'}
  BY <1>2 DEF DescriptorsAccounted, Left
<1> USE DEF Connecting, Left, fdVars, ownerVars
<1>3. CASE OpenSocket
  BY <1>1, <1>3 DEF OpenSocket, Free
<1>4. CASE ConnectFails
  BY <1>1, <1>4 DEF ConnectFails
<1>5. CASE Disconnect
  BY <1>1, <1>5 DEF Disconnect
<1>6. CASE Destroy
  BY <1>1, <1>6 DEF Destroy
<1>7. CASE Create
  BY <1>1, <1>7 DEF Create
<1>8. CASE Connect \/ BuildFails \/ Build \/ Send \/ Receive \/ ReceiveTimeout \/ ReceiveEof
           \/ ReceiveError \/ ClearTimeout \/ ParseConnack \/ Accept
  <2>1. /\ UNCHANGED fdVars /\ pc \notin {"idle", "socket"} /\ pc' \notin {"idle", "socket"}
    BY <1>8 DEF Connect, BuildFails, Build, Send, Receive, ReceiveTimeout, ReceiveEof,
       ReceiveError, ClearTimeout, ParseConnack, Accept
  <2> QED
    BY <1>1, <2>1
<1>9. CASE Broker
  <2>1. UNCHANGED <<fdVars, pc>>
    BY <1>9 DEF Broker, Answer, Arrive, PeerCloses, PeerResets
  <2> QED
    BY <1>1, <2>1
<1> QED
  BY <1>3, <1>4, <1>5, <1>6, <1>7, <1>8, <1>9 DEF ConnectStep, Next, Call, Application

LEMMA AccountedDeamonCall ==
    ASSUME DescriptorsAccounted, OneCall, FdInv, DeamonCall \/ ThreadEnds
    PROVE  DescriptorsAccounted'
<1>1. /\ open = Left \cup Connecting \cup Attached
      /\ Connecting \cap Left = {} /\ Attached \cap Left = {}
      /\ unmet \subseteq {socket_fd}
  BY AccountedBy
<1>2. /\ Left' = Left /\ Connecting' = Connecting
      /\ unmet' = unmet /\ socket_fd' = socket_fd
  BY DEF Left, Connecting, DeamonCall, DeamonCreate, InitTimer, CreateEpoll,
     AddDescriptors, Spawn, Join, CloseEpoll, CloseTimer, FreeContext, ThreadEnds, Calm,
     connectVars, ownerVars
<1> SUFFICES /\ open' = Left \cup Connecting \cup Attached' /\ Attached' \cap Left = {}
  BY <1>1, <1>2 DEF DescriptorsAccounted, Left
<1>3. dpc # "idle" => Connecting = {}
  BY DEF OneCall, Connecting
<1> USE DEF Attached, Calm, ctxVars
<1>4. CASE DeamonCreate
  BY <1>1, <1>4 DEF DeamonCreate
<1>5. CASE InitTimer
  BY <1>1, <1>3, <1>5 DEF InitTimer, Free
<1>6. CASE CreateEpoll
  BY <1>1, <1>3, <1>6 DEF CreateEpoll, Free
<1>7. CASE AddDescriptors \/ Spawn \/ Join
  BY <1>1, <1>7 DEF AddDescriptors, Spawn, Join
<1>8. CASE CloseEpoll
  <2>1. timer_fd # epoll_fd
    BY <1>8 DEF CloseEpoll, FdInv
  <2> QED
    BY <1>1, <1>3, <1>8, <2>1 DEF CloseEpoll
<1>9. CASE CloseTimer
  BY <1>1, <1>3, <1>9 DEF CloseTimer
<1>10. CASE FreeContext
  BY <1>1, <1>10 DEF FreeContext
<1>11. CASE ThreadEnds
  BY <1>1, <1>11 DEF ThreadEnds
<1> QED
  BY <1>4, <1>5, <1>6, <1>7, <1>8, <1>9, <1>10, <1>11 DEF DeamonCall

(* At any moment each open descriptor is the one of the start, belongs to  *)
(* the call in progress, or is the socket of a create whose connect()      *)
(* failed, still named by its client or forgotten by a later create; in    *)
(* any order of calls (client.c:155-171, client_deamon.c:272-330).         *)
THEOREM NoOtherDescriptor == LifeSpec => []DescriptorsAccounted
<1>1. LifeInit => DescriptorsAccounted /\ FdInv /\ OneCall
  BY DEF LifeInit, Init, DescriptorsAccounted, Connecting, Attached, FdInv, OneCall
<1>2. DescriptorsAccounted /\ FdInv /\ OneCall /\ [LifeNext]_lifeVars
          => DescriptorsAccounted' /\ FdInv' /\ OneCall'
  <2> SUFFICES ASSUME DescriptorsAccounted, FdInv, OneCall, [LifeNext]_lifeVars
               PROVE  DescriptorsAccounted'
    BY FdInvStep, OneCallStep
  <2>1. CASE UNCHANGED lifeVars
    BY <2>1 DEF lifeVars, vars, deamonVars, ctxVars, DescriptorsAccounted, Connecting,
       Attached
  <2> QED
    BY <2>1, AccountedConnect, AccountedDeamonCall DEF LifeNext
<1> QED
  BY <1>1, <1>2, PTL DEF LifeSpec
=============================================================================
