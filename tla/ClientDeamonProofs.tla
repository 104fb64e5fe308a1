------------------------- MODULE ClientDeamonProofs -------------------------
(***************************************************************************)
(* Proofs about ClientDeamon, for every keep-alive interval, timeout,      *)
(* number of identifiers, mode of the socket and set of broker messages.   *)
(***************************************************************************)
EXTENDS ClientDeamon, SequenceTheorems, TLAPS

-----------------------------------------------------------------------------
(* What taking one element out of a sequence gives: the elements before it *)
(* stay, those behind it move up by one.                                   *)
LEMMA RemoveAtFacts ==
    ASSUME NEW S, NEW s \in Seq(S), NEW i \in DOMAIN s
    PROVE  /\ RemoveAt(s, i) \in Seq(S)
           /\ Len(RemoveAt(s, i)) = Len(s) - 1
           /\ \A j \in 1..(Len(s) - 1) :
                 RemoveAt(s, i)[j] = IF j < i THEN s[j] ELSE s[j + 1]
<1> DEFINE a == SubSeq(s, 1, i - 1)
           b == SubSeq(s, i + 1, Len(s))
<1>1. i \in 1..Len(s) /\ Len(s) \in Nat
  BY LenProperties
<1>2. /\ a \in Seq(S) /\ Len(a) = i - 1
      /\ \A j \in 1..(i - 1) : a[j] = s[j]
  BY <1>1, SubSeqProperties
<1>3. /\ b \in Seq(S) /\ Len(b) = Len(s) - i
      /\ \A j \in 1..(Len(s) - i) : b[j] = s[i + j]
  BY <1>1, SubSeqProperties
<1>4. /\ a \o b \in Seq(S)
      /\ Len(a \o b) = Len(a) + Len(b)
      /\ \A j \in 1..(Len(a) + Len(b)) :
            (a \o b)[j] = IF j <= Len(a) THEN a[j] ELSE b[j - Len(a)]
  BY <1>2, <1>3, ConcatProperties
<1>5. RemoveAt(s, i) = a \o b
  BY DEF RemoveAt
<1> HIDE DEF a, b
<1>6. ASSUME NEW j \in 1..(Len(s) - 1)
      PROVE  RemoveAt(s, i)[j] = IF j < i THEN s[j] ELSE s[j + 1]
  <2>1. CASE j < i
    BY SMTT(30), <2>1, <1>1, <1>2, <1>3, <1>4, <1>5
  <2>2. CASE j >= i
    <3>1. j - (i - 1) \in 1..(Len(s) - i)
      BY <2>2, <1>1
    <3>2. b[j - (i - 1)] = s[i + (j - (i - 1))]
      BY <3>1, <1>3
    <3>3. i + (j - (i - 1)) = j + 1
      BY <1>1
    <3>4. j \in 1..(Len(a) + Len(b)) /\ ~(j <= Len(a)) /\ j - Len(a) = j - (i - 1)
      BY <2>2, <1>1, <1>2, <1>3
    <3>5. (a \o b)[j] = b[j - (i - 1)]
      BY <3>4, <1>4
    <3>6. (a \o b)[j] = s[j + 1]
      BY <3>2, <3>3, <3>5
    <3>7. ~(j < i)
      BY <2>2, <1>1
    <3> QED
      BY <3>6, <3>7, <1>5
  <2> QED
    BY <2>1, <2>2, <1>1
<1>7. Len(a) + Len(b) = Len(s) - 1
  BY <1>1, <1>2, <1>3
<1> QED
  BY <1>4, <1>5, <1>6, <1>7

-----------------------------------------------------------------------------
(* Type correctness                                                        *)

LEMMA NextIdFacts ==
    ASSUME NEW id \in 1..MaxId
    PROVE  /\ NextId(id) \in 1..MaxId
           /\ Incremented(id) = 0 => id = MaxId /\ NextId(id) = 1
           /\ Incremented(id) # 0 => NextId(id) = id + 1
BY ConstantsAssumption DEF NextId, Incremented

LEMMA TypeInit == Init => TypeOK
<1> SUFFICES ASSUME Init PROVE TypeOK
  OBVIOUS
<1> USE ConstantsAssumption DEF Init
<1>1. message_send_list \in Seq(Nodes) /\ rx \in Seq(Messages)
      /\ unsettled \in Seq(Messages) /\ Len(message_send_list) = 0
  BY EmptySeq
<1>2. msg \in Messages
  BY DEF NoMessage, Messages, Types
<1>3. cursor \in 0..Len(message_send_list)
  BY <1>1
<1>4. packet_id_next \in 1..MaxId
  OBVIOUS
<1> QED
  BY <1>1, <1>2, <1>3, <1>4 DEF TypeOK, PCs

(* The deamon's steps keep the types: only Receive, SendReply, the two     *)
(* removals and the scan touch a variable whose type says something.       *)
LEMMA TypeDeamon == TypeOK /\ Deamon => TypeOK'
<1> SUFFICES ASSUME TypeOK, Deamon PROVE TypeOK'
  OBVIOUS
<1> USE DEF clockVars, netVars, pingVars, listVars, scanVars, appVars
<1>1. ASSUME EpollWait PROVE TypeOK'
  BY <1>1 DEF TypeOK, EpollWait, Ready, PCs
<1>2. ASSUME HandleEvent PROVE TypeOK'
  BY <1>2 DEF TypeOK, HandleEvent, PCs
<1>3. ASSUME Receive PROVE TypeOK'
  <2>1. Head(rx) \in Messages /\ Tail(rx) \in Seq(Messages)
    BY <1>3, HeadTailProperties DEF TypeOK, Receive
  <2>2. unsettled' \in Seq(Messages)
    BY <1>3, HeadTailProperties DEF TypeOK, Receive, Settle
  <2>3. msg' \in Messages
    BY <1>3, <2>1 DEF TypeOK, Receive, NoMessage, Messages, Types
  <2>4. pc' \in {"reply", "loop", "recv"} /\ rx' = Tail(rx) /\ pc = "recv"
    BY <1>3 DEF Receive
  <2> QED
    BY <1>3, <2>1, <2>2, <2>3, <2>4 DEF TypeOK, Receive, PCs
<1>4. ASSUME ReceiveNothing PROVE TypeOK'
  BY <1>4 DEF TypeOK, ReceiveNothing, PCs
<1>5. ASSUME SendReply PROVE TypeOK'
  <2>1. unsettled' \in Seq(Messages)
    BY <1>5, HeadTailProperties DEF TypeOK, SendReply, Settle, GiveUp
  <2>2. msg' \in Messages
    BY <1>5 DEF TypeOK, SendReply, NoMessage, Messages, Types
  <2>3. pc' \in {"reply", "remove", "recv"} /\ pc = "reply"
        /\ proc' \in {proc, "sigpipe"}
    BY <1>5 DEF SendReply, SendFails, SendKills
  <2> QED
    BY <1>5, <2>1, <2>2, <2>3 DEF TypeOK, SendReply, PCs
<1>6. ASSUME RemoveAfterPuback PROVE TypeOK'
  <2>1. /\ message_send_list' \in Seq(Nodes)
        /\ dropped' \subseteq Nat \X (1..MaxId)
    <3>1. CASE message_send_list' = message_send_list /\ dropped' = dropped
      BY <3>1 DEF TypeOK
    <3>2. ASSUME NEW i \in DOMAIN message_send_list,
                 message_send_list' = RemoveAt(message_send_list, i),
                 dropped' = dropped \cup {Key(message_send_list[i])}
          PROVE  /\ message_send_list' \in Seq(Nodes)
                 /\ dropped' \subseteq Nat \X (1..MaxId)
      <4>1. message_send_list[i] \in Nodes
        BY <3>2, LenProperties DEF TypeOK
      <4>2. Key(message_send_list[i]) \in Nat \X (1..MaxId)
        BY <4>1 DEF Key, Nodes
      <4>3. RemoveAt(message_send_list, i) \in Seq(Nodes)
        BY RemoveAtFacts DEF TypeOK
      <4> QED
        BY <3>2, <4>2, <4>3 DEF TypeOK
    <3> QED
      BY <1>6, <3>1, <3>2 DEF RemoveAfterPuback
  <2>2. msg' \in Messages
    BY <1>6 DEF TypeOK, RemoveAfterPuback, NoMessage, Messages, Types
  <2>3. pc' \in {"remove", "recv"} /\ pc = "remove" /\ proc' \in {proc, "segv"}
        /\ Len(message_send_list') \in Nat
    BY <1>6, <2>1, LenProperties DEF RemoveAfterPuback
  <2> QED
    BY <1>6, <2>1, <2>2, <2>3 DEF TypeOK, RemoveAfterPuback, PCs
<1>7. ASSUME ReadTimer PROVE TypeOK'
  BY <1>7 DEF TypeOK, ReadTimer, PCs
<1>8. ASSUME ReadClock PROVE TypeOK'
  BY <1>8 DEF TypeOK, ReadClock, PCs
<1>9. ASSUME LockAndCheck PROVE TypeOK'
  BY <1>9 DEF TypeOK, LockAndCheck, PCs
<1>10. ASSUME SendPing PROVE TypeOK'
  BY <1>10 DEF TypeOK, SendPing, SendFails, SendKills, PCs
<1>11. ASSUME StampPing PROVE TypeOK'
  BY <1>11 DEF TypeOK, StampPing, PCs
<1>12. ASSUME ScanHead PROVE TypeOK'
  <2>1. message_send_list # <<>> => Len(message_send_list) >= 1
    BY EmptySeq DEF TypeOK
  <2>2. cursor' \in 0..Len(message_send_list)
    BY <1>12, <2>1, LenProperties DEF TypeOK, ScanHead
  <2> QED
    BY <1>12, <2>2 DEF TypeOK, ScanHead, PCs
<1>13. ASSUME ScanNode PROVE TypeOK'
  <2>1. /\ cursor \in 1..Len(message_send_list)
        /\ Len(message_send_list) \in Nat
        /\ message_send_list[cursor] \in Nodes
    BY <1>13, LenProperties, ElementOfSeq DEF TypeOK, ScanNode
  <2>2. cursor' \in 0..Len(message_send_list) /\ pc' \in {"scan", "expire"}
        /\ (pc' = "expire" => cursor' # 0)
    BY <1>13, <2>1 DEF ScanNode
  <2>3. reported' \subseteq Nat \X (1..MaxId)
    BY <1>13, <2>1 DEF TypeOK, ScanNode, Key, Nodes
  <2> QED
    BY <1>13, <2>2, <2>3 DEF TypeOK, ScanNode, PCs
<1>14. ASSUME RemoveExpired PROVE TypeOK'
  <2>1. PICK i \in DOMAIN message_send_list :
            message_send_list' = RemoveAt(message_send_list, i)
    BY <1>14 DEF RemoveExpired
  <2>2. /\ message_send_list' \in Seq(Nodes)
        /\ Len(message_send_list') = Len(message_send_list) - 1
        /\ Len(message_send_list) \in Nat
        /\ Len(message_send_list') \in Nat
    BY <2>1, RemoveAtFacts, LenProperties DEF TypeOK
  <2>3. cursor' \in 0..Len(message_send_list')
    BY <1>14, <2>2 DEF TypeOK, RemoveExpired
  <2> QED
    BY <1>14, <2>2, <2>3 DEF TypeOK, RemoveExpired, PCs
<1>15. ASSUME LoadNext PROVE TypeOK'
  BY <1>15 DEF TypeOK, LoadNext, PCs
<1>16. ASSUME ScanDone PROVE TypeOK'
  BY <1>16 DEF TypeOK, ScanDone, PCs
<1>17. ASSUME Unlock PROVE TypeOK'
  BY <1>17 DEF TypeOK, Unlock, PCs
<1> QED
  BY <1>1, <1>2, <1>3, <1>4, <1>5, <1>6, <1>7, <1>8, <1>9, <1>10, <1>11,
     <1>12, <1>13, <1>14, <1>15, <1>16, <1>17 DEF Deamon

LEMMA TypeApplication == TypeOK /\ Application => TypeOK'
<1> SUFFICES ASSUME TypeOK, Application PROVE TypeOK'
  OBVIOUS
<1> USE DEF clockVars, netVars, pingVars, listVars, scanVars
<1>1. ASSUME SubscribeSend PROVE TypeOK'
  BY <1>1 DEF TypeOK, SubscribeSend, SendKills
<1>2. ASSUME SubscribeAdd PROVE TypeOK'
  <2> DEFINE node == [id |-> packet_id_next, timestamp |-> 0,
                      lap |-> laps]
  <2>1. node \in Nodes
    BY DEF TypeOK, Nodes
  <2>2. /\ message_send_list' \in Seq(Nodes)
        /\ Len(message_send_list') = Len(message_send_list) + 1
        /\ Len(message_send_list) \in Nat
    BY <1>2, <2>1, AppendProperties, LenProperties DEF TypeOK, SubscribeAdd
  <2>3. cursor' \in {0, cursor} /\ cursor' \in 0..Len(message_send_list')
        /\ (pc # "next" => cursor' = cursor)
    BY <1>2, <2>2 DEF TypeOK, SubscribeAdd
  <2> QED
    BY <1>2, <2>2, <2>3 DEF TypeOK, SubscribeAdd
<1>3. ASSUME SubscribeNoMemory PROVE TypeOK'
  BY <1>3 DEF TypeOK, SubscribeNoMemory
<1>4. ASSUME SubscribeBump PROVE TypeOK'
  BY <1>4, NextIdFacts DEF TypeOK, SubscribeBump
<1> QED
  BY <1>1, <1>2, <1>3, <1>4 DEF Application

LEMMA TypeEnvironment == TypeOK /\ Environment => TypeOK'
<1> SUFFICES ASSUME TypeOK, Environment PROVE TypeOK'
  OBVIOUS
<1> USE DEF clockVars, netVars, pingVars, listVars, scanVars, appVars
<1>1. ASSUME BrokerSend PROVE TypeOK'
  <2>1. rx' \in Seq(Messages) /\ unsettled' \in Seq(Messages)
    BY <1>1, ConstantsAssumption, AppendProperties DEF TypeOK, BrokerSend
  <2> QED
    BY <1>1, <2>1 DEF TypeOK, BrokerSend
<1>2. ASSUME ConnectionEnds PROVE TypeOK'
  BY <1>2 DEF TypeOK, ConnectionEnds
<1>3. ASSUME Tick PROVE TypeOK'
  BY <1>3 DEF TypeOK, Tick
<1> QED
  BY <1>1, <1>2, <1>3 DEF Environment

(* TypeOK is an invariant: in particular the scan never holds a position   *)
(* that is not in the list, whatever the application appends meanwhile.    *)
THEOREM TypeCorrect == Spec => []TypeOK
<1>1. TypeOK /\ UNCHANGED vars => TypeOK'
  BY DEF TypeOK, vars
<1>2. TypeOK /\ [Next]_vars => TypeOK'
  BY <1>1, TypeDeamon, TypeApplication, TypeEnvironment DEF Next
<1> QED
  BY TypeInit, <1>2, PTL DEF Spec

-----------------------------------------------------------------------------
(* Packet identifiers.  IdOrder is inductive together with TypeOK: a       *)
(* removal keeps the order of what is left, an append puts NextKey behind  *)
(* keys that are all before it, and the increment moves NextKey past it.   *)

LEMMA IdOrderRemove ==
    ASSUME TypeOK, TypeOK', IdOrder,
           UNCHANGED <<packet_id_next, laps, app>>,
           NEW i \in DOMAIN message_send_list,
           message_send_list' = RemoveAt(message_send_list, i)
    PROVE  IdOrder'
<1> DEFINE old == message_send_list
           new == message_send_list'
           from(j) == IF j < i THEN j ELSE j + 1
<1>1. /\ Len(old) \in Nat /\ DOMAIN old = 1..Len(old)
      /\ Len(new) = Len(old) - 1
      /\ DOMAIN new = 1..(Len(old) - 1)
      /\ \A j \in 1..(Len(old) - 1) :
            new[j] = IF j < i THEN old[j] ELSE old[j + 1]
  BY RemoveAtFacts, LenProperties DEF TypeOK
<1> HIDE DEF new
<1>2. ASSUME NEW j \in DOMAIN new
      PROVE  /\ from(j) \in DOMAIN old /\ new[j] = old[from(j)]
             /\ from(j) = Len(old) => j = Len(new)
  BY <1>1
<1>3. ASSUME NEW j \in DOMAIN new, NEW k \in DOMAIN new, j < k
      PROVE  Before(Key(new[j]), Key(new[k]))
  <2>1. from(j) < from(k)
    BY <1>1, <1>3
  <2> QED
    BY <1>2, <2>1 DEF IdOrder
<1>4. ASSUME NEW j \in DOMAIN new
      PROVE  \/ Before(Key(new[j]), NextKey)
             \/ app = "bump" /\ j = Len(new) /\ Key(new[j]) = NextKey
  BY <1>2 DEF IdOrder
<1>5. NextKey' = NextKey /\ app' = app
  BY DEF NextKey
<1> QED
  BY <1>3, <1>4, <1>5 DEF IdOrder, new, Key

LEMMA IdOrderUnchanged ==
    IdOrder /\ UNCHANGED <<message_send_list, packet_id_next, laps, app>>
        => IdOrder'
BY DEF IdOrder, NextKey, Key

LEMMA IdOrderDeamon ==
    ASSUME TypeOK, TypeOK', IdOrder, Deamon
    PROVE  IdOrder'
<1> USE DEF appVars, listVars
<1>1. CASE RemoveAfterPuback
  <2>1. CASE UNCHANGED message_send_list
    BY <1>1, <2>1, IdOrderUnchanged DEF RemoveAfterPuback
  <2>2. ASSUME NEW i \in DOMAIN message_send_list,
               message_send_list' = RemoveAt(message_send_list, i)
        PROVE  IdOrder'
    BY <1>1, <2>2, IdOrderRemove DEF RemoveAfterPuback
  <2> QED
    BY <1>1, <2>1, <2>2 DEF RemoveAfterPuback
<1>2. CASE RemoveExpired
  <2>1. PICK i \in DOMAIN message_send_list :
            message_send_list' = RemoveAt(message_send_list, i)
    BY <1>2 DEF RemoveExpired
  <2> QED
    BY <1>2, <2>1, IdOrderRemove DEF RemoveExpired
<1>3. CASE ~RemoveAfterPuback /\ ~RemoveExpired
  <2>1. UNCHANGED <<message_send_list, packet_id_next, laps, app>>
    BY <1>3 DEF Deamon, EpollWait, HandleEvent, Receive, ReceiveNothing,
       SendReply, ReadTimer, ReadClock, LockAndCheck, SendPing, StampPing,
       ScanHead, ScanNode, LoadNext, ScanDone, Unlock
  <2> QED
    BY <2>1, IdOrderUnchanged
<1> QED
  BY <1>1, <1>2, <1>3

LEMMA IdOrderApplication ==
    ASSUME TypeOK, TypeOK', IdOrder, Application
    PROVE  IdOrder'
<1> DEFINE old == message_send_list
           new == message_send_list'
<1> USE DEF listVars
<1>1. CASE SubscribeAdd
  <2> DEFINE node == [id |-> packet_id_next, timestamp |-> 0,
                      lap |-> laps]
  <2>1. /\ Len(old) \in Nat /\ DOMAIN old = 1..Len(old)
        /\ Len(new) = Len(old) + 1 /\ DOMAIN new = 1..(Len(old) + 1)
        /\ \A j \in 1..Len(old) : new[j] = old[j]
        /\ new[Len(old) + 1] = node
    <3>1. node \in Nodes
      BY DEF TypeOK, Nodes
    <3>2. new = Append(old, node) /\ old \in Seq(Nodes) /\ new \in Seq(Nodes)
      BY <1>1 DEF SubscribeAdd, TypeOK
    <3> QED
      BY <3>1, <3>2, AppendProperties, LenProperties
  <2>2. Key(node) = NextKey
    BY DEF Key, NextKey
  <2>3. \A j \in 1..Len(old) : Before(Key(new[j]), NextKey)
    BY <1>1, <2>1 DEF SubscribeAdd, IdOrder
  <2>4. NextKey' = NextKey /\ app' = "bump"
    BY <1>1 DEF SubscribeAdd, NextKey
  <2> HIDE DEF new, node
  <2>5. \A j, k \in 1..Len(old) : j < k => Before(Key(new[j]), Key(new[k]))
    BY <2>1 DEF IdOrder
  <2>6. \A j, k \in DOMAIN new : j < k => Before(Key(new[j]), Key(new[k]))
    BY <2>1, <2>2, <2>3, <2>5
  <2>7. \A j \in DOMAIN new :
          Before(Key(new[j]), NextKey) \/ (j = Len(new) /\ Key(new[j]) = NextKey)
    BY <2>1, <2>2, <2>3
  <2> QED
    BY <2>4, <2>6, <2>7 DEF IdOrder, new, Key
<1>2. CASE SubscribeBump
  <2>1. new = old /\ app' = "idle"
    BY <1>2 DEF SubscribeBump
  <2>2. Before(NextKey, NextKey')
    BY <1>2, NextIdFacts DEF SubscribeBump, NextKey, Before, TypeOK
  <2>3. \A j \in DOMAIN old : old[j] \in Nodes
    BY LenProperties, ElementOfSeq DEF TypeOK
  <2>4. ASSUME NEW node \in Nodes, Before(Key(node), NextKey)
        PROVE  Before(Key(node), NextKey')
    <3>1. MaxId \in Nat
      BY ConstantsAssumption
    <3>2. node.lap \in Nat /\ node.id \in Nat
      BY <2>4, <3>1 DEF Nodes
    <3>3. /\ laps \in Nat /\ packet_id_next \in Nat
          /\ laps' \in Nat /\ packet_id_next' \in Nat
      BY <3>1 DEF TypeOK
    <3> QED
      BY <2>2, <2>4, <3>2, <3>3 DEF Before, Key, NextKey
  <2>5. \A j \in DOMAIN old : Before(Key(old[j]), NextKey')
    BY <2>2, <2>3, <2>4 DEF IdOrder
  <2> QED
    BY <2>1, <2>5 DEF IdOrder, Key
<1>3. CASE SubscribeSend \/ SubscribeNoMemory
  <2>1. new = old /\ NextKey' = NextKey /\ app # "bump"
    BY <1>3 DEF SubscribeSend, SubscribeNoMemory, NextKey
  <2> QED
    BY <2>1 DEF IdOrder, Key
<1> QED
  BY <1>1, <1>2, <1>3 DEF Application

(* The order of the packet identifiers on the list, for every width of the *)
(* identifier: no two kept messages share one within a wrap (IdOrder).     *)
THEOREM IdOrderInvariant == Spec => []IdOrder
<1>1. Init => IdOrder
  BY DEF Init, IdOrder
<1>2. TypeOK /\ TypeOK' /\ IdOrder /\ [Next]_vars => IdOrder'
  <2>1. IdOrder /\ UNCHANGED vars => IdOrder'
    BY IdOrderUnchanged DEF vars
  <2>2. IdOrder /\ Environment => IdOrder'
    BY IdOrderUnchanged DEF Environment, BrokerSend, ConnectionEnds, Tick,
       appVars, listVars
  <2> QED
    BY <2>1, <2>2, IdOrderDeamon, IdOrderApplication DEF Next
<1> QED
  BY <1>1, <1>2, TypeCorrect, PTL DEF Spec

-----------------------------------------------------------------------------
(* Keep-alive.  A PINGREQ is sent on a clock reading that was at least     *)
(* KeepAlive after the stamp, and no stamp is older than the ping before   *)
(* it, except in the one step between the send and the stamp.              *)
PingInv ==
    /\ timer_now <= now /\ lastPing <= now
    /\ pc # "stamp" => lastPing <= keep_alive_timestamp
    /\ pc = "ping" => timer_now - keep_alive_timestamp >= KeepAlive

LEMMA PingInvInit == Init => PingInv
BY ConstantsAssumption DEF Init, PingInv

LEMMA PingInvStep ==
    ASSUME TypeOK, PingInv, [Next]_vars
    PROVE  PingInv'
<1> USE DEF clockVars, pingVars, scanVars, TypeOK, PingInv
<1>1. CASE UNCHANGED vars
  BY <1>1 DEF vars
<1>2. CASE Environment
  <2>1. CASE Tick
    BY <2>1 DEF Tick
  <2>2. CASE BrokerSend \/ ConnectionEnds
    BY <2>2 DEF BrokerSend, ConnectionEnds
  <2> QED
    BY <1>2, <2>1, <2>2 DEF Environment
<1>3. CASE Application
  BY <1>3 DEF Application, SubscribeSend, SubscribeAdd, SubscribeNoMemory,
     SubscribeBump
<1>4. CASE Deamon
  <2>1. CASE ReadClock
    BY <2>1 DEF ReadClock
  <2>2. CASE LockAndCheck
    BY <2>2 DEF LockAndCheck, PingDue
  <2>3. CASE SendPing
    BY <2>3 DEF SendPing
  <2>4. CASE StampPing
    BY <2>4 DEF StampPing
  <2>5. CASE ~(ReadClock \/ LockAndCheck \/ SendPing \/ StampPing)
    <3>1. /\ UNCHANGED <<now, timer_now, lastPing, keep_alive_timestamp>>
          /\ pc' # "ping" /\ pc' # "stamp" /\ (pc = "stamp" => pc' = "stamp")
      BY <1>4, <2>5 DEF Deamon, EpollWait, HandleEvent, Receive,
         ReceiveNothing, SendReply, RemoveAfterPuback, ReadTimer, ScanHead,
         ScanNode, RemoveExpired, LoadNext, ScanDone, Unlock
    <3> QED
      BY <3>1
  <2> QED
    BY <2>1, <2>2, <2>3, <2>4, <2>5
<1> QED
  BY <1>1, <1>2, <1>3, <1>4 DEF Next

(* At no time is a PINGREQ sent when the last one, or the CONNECT, is less *)
(* than the keep-alive interval ago (PingSpacing; client_deamon.c:197-208).*)
THEOREM PingsAreSpaced == Spec => PingSpacing
<1>1. ASSUME TypeOK, PingInv
      PROVE  [pc = "ping" /\ pc' = "stamp" => now - lastPing >= KeepAlive]_vars
  <2> SUFFICES ASSUME pc = "ping"
               PROVE  now - lastPing >= KeepAlive
    OBVIOUS
  <2>1. /\ timer_now <= now /\ lastPing <= keep_alive_timestamp
        /\ timer_now - keep_alive_timestamp >= KeepAlive
    BY <1>1 DEF PingInv
  <2> QED
    BY <1>1, <2>1, ConstantsAssumption DEF TypeOK
<1> QED
  BY <1>1, PingInvInit, PingInvStep, TypeCorrect, PTL DEF Spec, PingSpacing

-----------------------------------------------------------------------------
(* Replies                                                                 *)

LEMMA ConsFacts ==
    ASSUME NEW S, NEW x \in S, NEW s \in Seq(S)
    PROVE  /\ <<x>> \o s \in Seq(S) /\ <<x>> \o s # <<>>
           /\ Head(<<x>> \o s) = x /\ Tail(<<x>> \o s) = s
<1>1. /\ <<x>> \in Seq(S) /\ Len(<<x>>) = 1 /\ <<x>>[1] = x
      /\ Len(s) \in Nat
  BY LenProperties
<1>2. /\ <<x>> \o s \in Seq(S) /\ Len(<<x>> \o s) = 1 + Len(s)
      /\ \A i \in 1..(1 + Len(s)) :
            (<<x>> \o s)[i] = IF i <= 1 THEN <<x>>[i] ELSE s[i - 1]
  BY <1>1, ConcatProperties
<1>3. <<x>> \o s # <<>>
  BY <1>1, <1>2, EmptySeq
<1>4. Head(<<x>> \o s) = x
  BY <1>1, <1>2
<1>5. Tail(<<x>> \o s) = s
  <2> DEFINE t == Tail(<<x>> \o s)
  <2>1. /\ t \in Seq(S) /\ Len(t) = Len(s)
        /\ \A i \in 1..Len(s) : t[i] = (<<x>> \o s)[i + 1]
    BY <1>1, <1>2, <1>3, HeadTailProperties
  <2>2. ASSUME NEW i \in 1..Len(s) PROVE t[i] = s[i]
    <3>1. i + 1 \in 1..(1 + Len(s)) /\ ~(i + 1 <= 1) /\ (i + 1) - 1 = i
      BY <1>1
    <3> QED
      BY <1>2, <2>1, <3>1
  <2> HIDE DEF t
  <2>3. t = s
    BY <2>1, <2>2, SeqEqual
  <2> QED
    BY <2>3 DEF t
<1> QED
  BY <1>2, <1>3, <1>4, <1>5

LEMMA HeadThenTail ==
    ASSUME NEW S, NEW s \in Seq(S), s # <<>>
    PROVE  s = <<Head(s)>> \o Tail(s)
<1> DEFINE t == <<Head(s)>> \o Tail(s)
<1>1. /\ Head(s) \in S /\ Tail(s) \in Seq(S)
      /\ Len(s) \in Nat \ {0} /\ Len(Tail(s)) = Len(s) - 1
      /\ \A i \in 1..(Len(s) - 1) : Tail(s)[i] = s[i + 1]
      /\ Head(s) = s[1]
  BY HeadTailProperties, EmptySeq
<1>2. /\ t \in Seq(S) /\ Len(t) = 1 + Len(Tail(s))
      /\ \A i \in 1..(1 + Len(Tail(s))) :
            t[i] = IF i <= 1 THEN <<Head(s)>>[i] ELSE Tail(s)[i - 1]
  BY <1>1, ConcatProperties
<1> HIDE DEF t
<1>3. ASSUME NEW i \in 1..Len(s) PROVE t[i] = s[i]
  <2>1. CASE i = 1
    BY <1>1, <1>2, <2>1
  <2>2. CASE i # 1
    BY <1>1, <1>2, <2>2
  <2> QED
    BY <2>1, <2>2
<1>4. Len(t) = Len(s)
  BY <1>1, <1>2
<1>5. t = s
  BY <1>2, <1>3, <1>4, SeqEqual
<1> QED
  BY <1>5 DEF t

LEMMA AppendBehind ==
    ASSUME NEW S, NEW x \in S, NEW s \in Seq(S), NEW e \in S
    PROVE  Append(<<x>> \o s, e) = <<x>> \o Append(s, e)
<1>1. <<x>> \in Seq(S) /\ <<e>> \in Seq(S) /\ <<x>> \o s \in Seq(S)
  BY ConsFacts
<1>2. Append(<<x>> \o s, e) = (<<x>> \o s) \o <<e>> /\ Append(s, e) = s \o <<e>>
  BY <1>1, AppendIsConcat
<1> QED
  BY <1>1, <1>2, ConcatAssociative

(* The handlers keep silent only about messages that ask for nothing, and  *)
(* what they send is the acknowledgement of the message they were given.   *)
LEMMA SilenceSettles ==
    ASSUME NEW m \in Messages, Reply(m) = NoReply
    PROVE  Settles(NoReply, m)
BY DEF Messages, Types, Reply, NoReply, Settles, Acknowledges

LEMMA AnswerSettles ==
    ASSUME NEW m \in Messages
    PROVE  Settles(Reply(m), m)
<1>1. CASE m.type = "PUBLISH" /\ m.qos = 1
  BY <1>1 DEF Reply, NoReply, Settles, Acknowledges
<1>2. CASE m.type = "PUBLISH" /\ m.qos = 2
  BY <1>2 DEF Reply, NoReply, Settles, Acknowledges
<1>3. CASE m.type = "PUBREC"
  BY <1>3 DEF Messages, Reply, NoReply, Settles, Acknowledges
<1>4. CASE ~(m.type = "PUBLISH" /\ m.qos \in {1, 2}) /\ m.type # "PUBREC"
  <2>1. Reply(m) = NoReply
    BY <1>4 DEF Reply, NoReply
  <2> QED
    BY <2>1, SilenceSettles
<1> QED
  BY <1>1, <1>2, <1>3, <1>4

LEMMA RepliesUnchanged ==
    RepliesInOrder /\ UNCHANGED <<unsettled, rx, msg, pc>> => RepliesInOrder'
BY DEF RepliesInOrder

LEMMA RepliesStep ==
    ASSUME TypeOK, RepliesInOrder, [Next]_vars
    PROVE  RepliesInOrder'
<1> SUFFICES unsettled' = (IF pc' = "reply" THEN <<msg'>> ELSE <<>>) \o rx'
  BY DEF RepliesInOrder
<1> USE DEF netVars, TypeOK
<1>1. CASE UNCHANGED vars
  BY <1>1 DEF vars, RepliesInOrder
<1>2. CASE Environment
  <2>1. CASE BrokerSend
    <3>1. PICK m \in BrokerMessages :
              rx' = Append(rx, m) /\ unsettled' = Append(unsettled, m)
      BY <2>1 DEF BrokerSend
    <3>2. m \in Messages /\ rx' \in Seq(Messages)
          /\ UNCHANGED <<pc, msg>>
      BY <2>1, <3>1, ConstantsAssumption, AppendProperties DEF BrokerSend
    <3>3. CASE pc = "reply"
      BY <3>1, <3>2, <3>3, AppendBehind DEF RepliesInOrder
    <3>4. CASE pc # "reply"
      BY <3>1, <3>2, <3>4, ConcatEmptySeq DEF RepliesInOrder
    <3> QED
      BY <3>3, <3>4
  <2>2. CASE ConnectionEnds
    BY <2>2 DEF ConnectionEnds, RepliesInOrder
  <2>3. CASE Tick
    BY <2>3 DEF Tick, RepliesInOrder
  <2> QED
    BY <1>2, <2>1, <2>2, <2>3 DEF Environment
<1>3. CASE Application
  BY <1>3 DEF Application, SubscribeSend, SubscribeAdd, SubscribeNoMemory,
     SubscribeBump, RepliesInOrder
<1>4. CASE Deamon
  <2>1. CASE Receive
    <3>1. /\ rx # <<>> /\ rx' = Tail(rx) /\ pc = "recv"
          /\ unsettled = rx
      BY <2>1, ConcatEmptySeq DEF Receive, RepliesInOrder
    <3>2. Tail(rx) \in Seq(Messages) /\ Head(rx) \in Messages
      BY <3>1, HeadTailProperties
    <3>3. CASE Reply(Head(rx)) # NoReply
      BY <2>1, <3>1, <3>3, HeadThenTail DEF Receive
    <3>4. CASE Reply(Head(rx)) = NoReply
      <4>1. Settles(NoReply, Head(rx))
        BY <3>2, <3>4, SilenceSettles
      <4>2. unsettled' = Tail(rx) /\ pc' # "reply"
        BY <2>1, <3>1, <3>4, <4>1 DEF Receive, Settle
      <4> QED
        BY <3>1, <3>2, <4>2, ConcatEmptySeq
    <3> QED
      BY <3>3, <3>4
  <2>2. CASE SendReply
    <3>1. unsettled = <<msg>> \o rx /\ rx' = rx /\ msg \in Messages
      BY <2>2 DEF SendReply, RepliesInOrder
    <3>2. Head(unsettled) = msg /\ Tail(unsettled) = rx /\ unsettled # <<>>
      BY <3>1, ConsFacts
    <3>3. CASE SendKills /\ UNCHANGED <<pc, msg, unsettled>>
      BY <2>2, <3>1, <3>3 DEF SendReply
    <3>4. CASE GiveUp(msg) /\ pc' = "recv"
      BY <3>1, <3>2, <3>4, ConcatEmptySeq DEF GiveUp
    <3>5. CASE Settle(Reply(msg)) /\ pc' \in {"remove", "recv"}
      <4>1. Settles(Reply(msg), msg)
        BY <3>1, AnswerSettles
      <4> QED
        BY <3>1, <3>2, <3>5, <4>1, ConcatEmptySeq DEF Settle
    <3> QED
      BY <2>2, <3>3, <3>4, <3>5 DEF SendReply
  <2>3. CASE ~Receive /\ ~SendReply
    <3>1. UNCHANGED <<unsettled, rx>> /\ pc # "reply" /\ pc' # "reply"
      BY <1>4, <2>3 DEF Deamon, EpollWait, HandleEvent, ReceiveNothing,
         RemoveAfterPuback, ReadTimer, ReadClock, LockAndCheck, SendPing,
         StampPing, ScanHead, ScanNode, RemoveExpired, LoadNext, ScanDone,
         Unlock
    <3> QED
      BY <3>1 DEF RepliesInOrder
  <2> QED
    BY <2>1, <2>2, <2>3
<1> QED
  BY <1>1, <1>2, <1>3, <1>4 DEF Next

(* Every message of the broker is unread, in hand, settled as it asks, or  *)
(* given up with a reply that could not be sent, in the order of arrival,  *)
(* on a connection that was reset too (RepliesInOrder;                     *)
(* client_message_process.c:106-191).                                      *)
THEOREM RepliesInOrderInvariant == Spec => []RepliesInOrder
<1>1. Init => RepliesInOrder
  BY ConcatEmptySeq, EmptySeq DEF Init, RepliesInOrder
<1>2. TypeOK /\ RepliesInOrder /\ [Next]_vars => RepliesInOrder'
  BY RepliesStep
<1> QED
  BY <1>1, <1>2, TypeCorrect, PTL DEF Spec

-----------------------------------------------------------------------------
(* Where sent messages are.  The scan is only ever at the head when it     *)
(* times a message out: all timestamps are 0 and timer_now stays the same  *)
(* during a scan, so it either removes every message it meets or none.     *)
ScanInv ==
    /\ pc = "scan" /\ cursor > 1 => ~(TimeoutSec < timer_now)
    /\ pc = "expire" => cursor = 1
    /\ pc = "next" => cursor <= 1

LEMMA NodeFacts ==
    ASSUME TypeOK, NEW i \in DOMAIN message_send_list
    PROVE  /\ message_send_list[i] \in Nodes
           /\ message_send_list[i].timestamp = 0
           /\ message_send_list[i].lap \in Nat /\ message_send_list[i].id \in 1..MaxId
           /\ Key(message_send_list[i]) \in Nat \X (1..MaxId)
           /\ i \in 1..Len(message_send_list) /\ Len(message_send_list) \in Nat
<1>1. message_send_list[i] \in Nodes
  BY LenProperties, ElementOfSeq DEF TypeOK
<1> QED
  BY <1>1, LenProperties DEF Nodes, Key, TypeOK

LEMMA ScanInvStep ==
    ASSUME TypeOK, ScanInv, [Next]_vars
    PROVE  ScanInv'
<1> USE DEF ScanInv, scanVars
<1>1. CASE UNCHANGED vars \/ Environment
  BY <1>1 DEF vars, Environment, BrokerSend, ConnectionEnds, Tick
<1>2. CASE Application
  BY <1>2 DEF Application, SubscribeSend, SubscribeAdd, SubscribeNoMemory,
     SubscribeBump, TypeOK
<1>3. CASE Deamon
  <2>1. CASE ScanNode
    <3>1. /\ cursor \in DOMAIN message_send_list /\ cursor \in Nat /\ cursor # 0
          /\ pc = "scan" /\ timer_now' = timer_now
          /\ TimeoutSec \in Nat /\ timer_now \in Nat
      BY <2>1, LenProperties, ConstantsAssumption DEF ScanNode, TypeOK
    <3>2. Expired(message_send_list[cursor]) <=> TimeoutSec < timer_now
      BY <3>1, NodeFacts DEF Expired
    <3> QED
      BY <2>1, <3>1, <3>2 DEF ScanNode
  <2>2. CASE RemoveExpired
    BY <2>2 DEF RemoveExpired
  <2>3. CASE ScanHead
    BY <2>3 DEF ScanHead
  <2>4. CASE LoadNext
    BY <2>4 DEF LoadNext, TypeOK
  <2>5. CASE ~(ScanNode \/ RemoveExpired \/ ScanHead \/ LoadNext)
    <3>1. pc' \notin {"scan", "expire", "next"}
      BY <1>3, <2>5 DEF Deamon, EpollWait, HandleEvent, Receive, ReceiveNothing,
         SendReply, SendFails, SendKills, RemoveAfterPuback, ReadTimer, ReadClock,
         LockAndCheck, SendPing, StampPing, ScanDone, Unlock
    <3> QED
      BY <3>1
  <2> QED
    BY <2>1, <2>2, <2>3, <2>4, <2>5
<1> QED
  BY <1>1, <1>2, <1>3 DEF Next

(* The keys on the list are all different, so a removal takes one away.    *)
LEMMA KeysRemoved ==
    ASSUME TypeOK, IdOrder, NEW i \in DOMAIN message_send_list,
           message_send_list' = RemoveAt(message_send_list, i)
    PROVE  KeysOf(message_send_list')
               = KeysOf(message_send_list) \ {Key(message_send_list[i])}
<1> DEFINE old == message_send_list
           new == message_send_list'
<1>1. /\ Len(old) \in Nat /\ DOMAIN old = 1..Len(old)
      /\ DOMAIN new = 1..(Len(old) - 1)
      /\ \A j \in 1..(Len(old) - 1) :
            new[j] = IF j < i THEN old[j] ELSE old[j + 1]
  BY RemoveAtFacts, LenProperties DEF TypeOK
<1>2. ASSUME NEW j \in DOMAIN old, NEW k \in DOMAIN old, j < k
      PROVE  Key(old[j]) # Key(old[k])
  <2>1. Before(Key(old[j]), Key(old[k]))
    BY <1>2 DEF IdOrder
  <2>2. /\ old[j].lap \in Nat /\ old[j].id \in 1..MaxId
        /\ old[k].lap \in Nat /\ old[k].id \in 1..MaxId
    BY NodeFacts
  <2> QED
    BY <2>1, <2>2, ConstantsAssumption DEF Before, Key
<1> HIDE DEF old, new
<1>3. i \in 1..Len(old)
  BY <1>1 DEF old
<1>4. ASSUME NEW j \in DOMAIN new
      PROVE  \E k \in DOMAIN old : k # i /\ new[j] = old[k]
  <2>1. CASE j < i
    BY <2>1, <1>1, <1>3, <1>4
  <2>2. CASE ~(j < i)
    <3>1. j + 1 \in DOMAIN old /\ j + 1 # i /\ new[j] = old[j + 1]
      BY <2>2, <1>1, <1>3, <1>4
    <3> QED
      BY <3>1
  <2> QED
    BY <2>1, <2>2
<1>5. ASSUME NEW k \in DOMAIN old, k # i
      PROVE  \E j \in DOMAIN new : new[j] = old[k]
  <2>1. CASE k < i
    <3>1. k \in DOMAIN new /\ new[k] = old[k]
      BY <2>1, <1>1, <1>3, <1>5
    <3> QED
      BY <3>1
  <2>2. CASE k > i
    <3>1. k - 1 \in DOMAIN new /\ ~(k - 1 < i) /\ (k - 1) + 1 = k
      BY <2>2, <1>1, <1>3, <1>5
    <3>2. new[k - 1] = old[k]
      BY <3>1, <1>1
    <3> QED
      BY <3>1, <3>2
  <2> QED
    BY <2>1, <2>2, <1>1, <1>3, <1>5
<1>6. ASSUME NEW k \in DOMAIN old, k # i
      PROVE  Key(old[k]) # Key(old[i])
  BY <1>1, <1>2, <1>3, <1>6
<1>7. ASSUME NEW x
      PROVE  x \in KeysOf(new) <=> x \in KeysOf(old) /\ x # Key(old[i])
  BY <1>1, <1>3, <1>4, <1>5, <1>6 DEF KeysOf
<1> QED
  BY <1>7 DEF old, new

(* What has been kept when message_send_add or the increment is done.      *)
LEMMA KeptUnchanged ==
    UNCHANGED <<laps, packet_id_next, app>> => KeptIds' = KeptIds
BY DEF KeptIds, NextKey

LEMMA KeptFacts ==
    ASSUME TypeOK
    PROVE  /\ app # "bump" => NextKey \notin KeptIds
           /\ SubscribeAdd => KeptIds' = KeptIds \cup {NextKey}
           /\ SubscribeBump => KeptIds' = KeptIds
<1>1. /\ laps \in Nat /\ packet_id_next \in 1..MaxId /\ MaxId \in Nat \ {0}
      /\ packet_id_next \in Nat
  BY ConstantsAssumption DEF TypeOK
<1>2. app # "bump" => NextKey \notin KeptIds
  BY <1>1 DEF KeptIds, NextKey, Before
<1>3. ASSUME SubscribeAdd PROVE KeptIds' = KeptIds \cup {NextKey}
  <2>1. /\ laps' = laps /\ NextKey' = NextKey /\ app' = "bump" /\ app = "add"
    BY <1>3 DEF SubscribeAdd, NextKey
  <2>2. NextKey \in (0..laps) \X (1..MaxId)
    BY <1>1 DEF NextKey
  <2> QED
    BY <2>1, <2>2 DEF KeptIds
<1>4. ASSUME SubscribeBump PROVE KeptIds' = KeptIds
  <2>1. app = "bump" /\ app' = "idle" /\ packet_id_next' = NextId(packet_id_next)
        /\ laps' = IF Incremented(packet_id_next) = 0 THEN laps + 1 ELSE laps
    BY <1>4 DEF SubscribeBump
  <2>2. ASSUME NEW l \in Nat, NEW d \in 1..MaxId
        PROVE  (l <= laps' /\ Before(<<l, d>>, NextKey'))
                  <=> (l <= laps /\ (Before(<<l, d>>, NextKey) \/ <<l, d>> = NextKey))
    <3>1. CASE Incremented(packet_id_next) = 0
      <4>1. packet_id_next = MaxId /\ packet_id_next' = 1 /\ laps' = laps + 1
        BY <3>1, <2>1, <1>1, NextIdFacts
      <4> QED
        BY <4>1, <1>1, <2>2 DEF Before, NextKey
    <3>2. CASE Incremented(packet_id_next) # 0
      <4>1. packet_id_next' = packet_id_next + 1 /\ laps' = laps
        BY <3>2, <2>1, <1>1, NextIdFacts
      <4> QED
        BY <4>1, <1>1, <2>2 DEF Before, NextKey
    <3> QED
      BY <3>1, <3>2
  <2>3. laps' \in Nat
    BY <2>1, <1>1
  <2>4. ASSUME NEW k
        PROVE  k \in KeptIds' <=> k \in KeptIds
    <3>1. k \in KeptIds' <=> k \in (0..laps') \X (1..MaxId) /\ Before(k, NextKey')
      BY <2>1 DEF KeptIds
    <3>2. k \in KeptIds <=> /\ k \in (0..laps) \X (1..MaxId)
                            /\ Before(k, NextKey) \/ k = NextKey
      BY <2>1 DEF KeptIds
    <3>3. ASSUME NEW l \in Nat, NEW d \in 1..MaxId, k = <<l, d>>
          PROVE  k \in KeptIds' <=> k \in KeptIds
      <4>1. /\ k \in (0..laps') \X (1..MaxId) <=> l <= laps'
            /\ k \in (0..laps) \X (1..MaxId) <=> l <= laps
        BY <1>1, <2>3, <3>3
      <4> QED
        BY <3>1, <3>2, <3>3, <4>1, <2>2
    <3>4. k \in KeptIds' \/ k \in KeptIds
            => \E l \in Nat, d \in 1..MaxId : k = <<l, d>>
      BY <1>1, <2>3, <3>1, <3>2
    <3> QED
      BY <3>3, <3>4
  <2> QED
    BY <2>4
<1> QED
  BY <1>2, <1>3, <1>4

LEMMA AccountedUnchanged ==
    ASSUME Accounted, pc # "expire", pc' # "expire",
           UNCHANGED <<message_send_list, reported, dropped, laps, packet_id_next, app>>
    PROVE  Accounted'
BY KeptUnchanged DEF Accounted, KeysOf, Key

LEMMA AccountedDeamon ==
    ASSUME TypeOK, IdOrder, ScanInv, Accounted, Deamon
    PROVE  Accounted'
<1> DEFINE list == message_send_list
<1> USE DEF appVars, listVars
<1>1. CASE RemoveAfterPuback
  <2>1. pc = "remove" /\ pc' # "expire" /\ reported' = reported
        /\ UNCHANGED <<laps, packet_id_next, app>>
    BY <1>1 DEF RemoveAfterPuback
  <2>2. CASE UNCHANGED <<list, dropped>>
    BY <2>1, <2>2, AccountedUnchanged
  <2>3. ASSUME NEW i \in DOMAIN list, list' = RemoveAt(list, i),
               dropped' = dropped \cup {Key(list[i])}
        PROVE  Accounted'
    <3>1. KeysOf(list') = KeysOf(list) \ {Key(list[i])}
      BY <2>3, KeysRemoved
    <3>2. Key(list[i]) \in KeysOf(list)
      BY DEF KeysOf
    <3>3. /\ KeptIds = KeysOf(list) \cup reported \cup dropped
          /\ reported \cap dropped = {} /\ dropped \cap KeysOf(list) = {}
          /\ reported \cap KeysOf(list) = {}
      BY <2>1 DEF Accounted
    <3>4. KeptIds' = KeptIds
      BY <2>1, KeptUnchanged
    <3> HIDE DEF list
    <3>5. /\ KeptIds' = KeysOf(list') \cup reported' \cup dropped'
          /\ reported' \cap dropped' = {} /\ dropped' \cap KeysOf(list') = {}
          /\ reported' \cap KeysOf(list') = {}
      BY <2>1, <2>3, <3>1, <3>2, <3>3, <3>4
    <3>6. KeysOf(list)' = KeysOf(message_send_list)'
      BY DEF list
    <3> QED
      BY <2>1, <3>5 DEF Accounted, KeysOf, Key, list
  <2> QED
    BY <1>1, <2>2, <2>3 DEF RemoveAfterPuback
<1>2. CASE ScanNode
  <2>1. UNCHANGED <<message_send_list, dropped, laps, packet_id_next, app>> /\ pc = "scan"
        /\ cursor # 0
    BY <1>2 DEF ScanNode
  <2>2. CASE UNCHANGED <<reported, pc>>
    BY <2>1, <2>2, AccountedUnchanged
  <2>3. CASE /\ reported' = reported \cup {Key(list[cursor])}
             /\ pc' = "expire" /\ cursor' = cursor
    <3>1. cursor \in DOMAIN list
      BY <2>1, LenProperties DEF TypeOK
    <3>2. Key(list[cursor]) \in KeysOf(list)
      BY <3>1 DEF KeysOf
    <3>3. /\ KeptIds = KeysOf(list) \cup reported \cup dropped
          /\ reported \cap dropped = {} /\ dropped \cap KeysOf(list) = {}
          /\ reported \cap KeysOf(list) = {}
      BY <2>1 DEF Accounted
    <3>4. KeptIds' = KeptIds
      BY <2>1, KeptUnchanged
    <3>5. KeysOf(message_send_list)' = KeysOf(message_send_list)
      BY <2>1 DEF KeysOf, Key
    <3>6. Key(message_send_list[cursor])' = Key(list[cursor])
      BY <2>1, <2>3 DEF Key
    <3> HIDE DEF list
    <3> DEFINE K == KeysOf(list)
               c == Key(list[cursor])
    <3> HIDE DEF K, c
    <3>7. /\ KeptIds = K \cup (reported \cup {c}) \cup dropped
          /\ (reported \cup {c}) \cap dropped = {}
          /\ (reported \cup {c}) \cap K = {c}
      BY <3>2, <3>3 DEF K, c
    <3> QED
      BY <2>1, <2>3, <3>3, <3>4, <3>5, <3>6, <3>7 DEF Accounted, K, c, list
  <2> QED
    BY <1>2, <2>2, <2>3 DEF ScanNode
<1>3. CASE RemoveExpired
  <2>1. /\ pc = "expire" /\ pc' = "next" /\ UNCHANGED <<reported, dropped>>
        /\ UNCHANGED <<laps, packet_id_next, app>>
    BY <1>3 DEF RemoveExpired
  <2>2. PICK i \in DOMAIN list :
            IsFirst(i, list[cursor].id) /\ list' = RemoveAt(list, i)
    BY <1>3 DEF RemoveExpired
  <2>3. cursor = 1 /\ 1 \in DOMAIN list
    BY <2>1, LenProperties DEF TypeOK, ScanInv
  <2>4. i = 1
    <3>1. i \in Nat /\ i >= 1 /\ \A j \in 1..(i - 1) : list[j].id # list[1].id
      BY <2>2, <2>3, LenProperties DEF IsFirst, TypeOK
    <3>2. CASE i > 1
      <4>1. 1 \in 1..(i - 1)
        BY <3>1, <3>2
      <4> QED
        BY <3>1, <4>1
    <3> QED
      BY <3>1, <3>2
  <2>5. KeysOf(list') = KeysOf(list) \ {Key(list[cursor])}
    BY <2>2, <2>3, <2>4, KeysRemoved
  <2>6. /\ KeptIds = KeysOf(list) \cup reported \cup dropped
        /\ reported \cap dropped = {} /\ dropped \cap KeysOf(list) = {}
        /\ reported \cap KeysOf(list) = {Key(list[cursor])}
    BY <2>1 DEF Accounted
  <2>7. KeptIds' = KeptIds
    BY <2>1, KeptUnchanged
  <2> HIDE DEF list
  <2>8. /\ KeptIds' = KeysOf(list') \cup reported' \cup dropped'
        /\ reported' \cap dropped' = {} /\ dropped' \cap KeysOf(list') = {}
        /\ reported' \cap KeysOf(list') = {}
    BY <2>1, <2>5, <2>6, <2>7
  <2> QED
    BY <2>1, <2>8 DEF Accounted, KeysOf, Key, list
<1>4. CASE ~(RemoveAfterPuback \/ ScanNode \/ RemoveExpired)
  <2>1. /\ UNCHANGED <<message_send_list, reported, dropped, laps, packet_id_next, app>>
        /\ pc # "expire" /\ pc' # "expire"
    BY <1>4 DEF Deamon, EpollWait, HandleEvent, Receive, ReceiveNothing,
       SendReply, SendFails, SendKills, ReadTimer, ReadClock, LockAndCheck,
       SendPing, StampPing, ScanHead, LoadNext, ScanDone, Unlock
  <2> QED
    BY <2>1, AccountedUnchanged
<1> QED
  BY <1>1, <1>2, <1>3, <1>4

LEMMA AccountedApplication ==
    ASSUME TypeOK, Accounted, Application
    PROVE  Accounted'
<1> DEFINE list == message_send_list
<1> USE DEF listVars, scanVars
<1>1. CASE SubscribeAdd
  <2> DEFINE node == [id |-> packet_id_next, timestamp |-> 0, lap |-> laps]
  <2>1. /\ list' = Append(list, node) /\ UNCHANGED <<reported, dropped, pc>>
        /\ app = "add" /\ (pc = "expire" => cursor' = cursor)
    BY <1>1 DEF SubscribeAdd
  <2>2. /\ Len(list) \in Nat /\ DOMAIN list = 1..Len(list)
        /\ DOMAIN (list') = 1..(Len(list) + 1)
        /\ \A j \in 1..Len(list) : list'[j] = list[j]
        /\ list'[Len(list) + 1] = node
    <3>1. node \in Nodes /\ list \in Seq(Nodes)
      BY DEF TypeOK, Nodes
    <3> QED
      BY <2>1, <3>1, AppendProperties, LenProperties
  <2>3. Key(node) = NextKey
    BY DEF Key, NextKey
  <2> HIDE DEF node
  <2>4. ASSUME NEW x
        PROVE  x \in KeysOf(list') <=> x \in KeysOf(list) \/ x = NextKey
    <3>1. Len(list) + 1 \in DOMAIN (list')
      BY <2>2
    <3>2. \A j \in DOMAIN (list') : j \in DOMAIN list \/ j = Len(list) + 1
      BY <2>2
    <3>3. \A j \in DOMAIN list : j \in DOMAIN (list') /\ list'[j] = list[j]
      BY <2>2
    <3> HIDE DEF list
    <3> QED
      BY <3>1, <3>2, <3>3, <2>2, <2>3 DEF KeysOf
  <2>5. KeptIds' = KeptIds \cup {NextKey} /\ NextKey \notin KeptIds
    BY <1>1, <2>1, KeptFacts
  <2>6. pc = "expire" => Key(message_send_list[cursor])' = Key(message_send_list[cursor])
    <3>1. SUFFICES ASSUME pc = "expire" PROVE list'[cursor'] = list[cursor]
      BY DEF Key
    <3>2. cursor \in 1..Len(list) /\ cursor' = cursor
      BY <2>1, <2>2, <3>1 DEF TypeOK
    <3> QED
      BY <3>2, <2>2
  <2> DEFINE K == KeysOf(list)
             K1 == KeysOf(list')
             C == IF pc = "expire" THEN {Key(list[cursor])} ELSE {}
  <2>7. /\ KeptIds = K \cup reported \cup dropped
        /\ reported \cap dropped = {} /\ dropped \cap K = {}
        /\ reported \cap K = C
    BY DEF Accounted
  <2>8. \A x : x \in K1 <=> x \in K \/ x = NextKey
    BY <2>4
  <2>9. K1 = KeysOf(message_send_list)'
    BY DEF KeysOf, Key
  <2>10. (IF pc = "expire" THEN {Key(message_send_list[cursor])} ELSE {})' = C
    BY <2>1, <2>6
  <2> HIDE DEF K, K1, C
  <2>11. /\ KeptIds' = K1 \cup reported \cup dropped
         /\ dropped \cap K1 = {} /\ reported \cap K1 = C
    BY <2>5, <2>7, <2>8
  <2> QED
    BY <2>1, <2>7, <2>9, <2>10, <2>11 DEF Accounted
<1>2. CASE ~SubscribeAdd
  <2>1. UNCHANGED <<message_send_list, reported, dropped, cursor, pc>>
    BY <1>2 DEF Application, SubscribeSend, SubscribeNoMemory, SubscribeBump
  <2>2. KeptIds' = KeptIds
    <3>1. CASE SubscribeBump
      BY <3>1, KeptFacts
    <3>2. CASE SubscribeSend \/ SubscribeNoMemory
      BY <3>2 DEF SubscribeSend, SubscribeNoMemory, KeptIds, NextKey
    <3> QED
      BY <1>2, <3>1, <3>2 DEF Application
  <2> QED
    BY <2>1, <2>2 DEF Accounted, KeysOf, Key
<1> QED
  BY <1>1, <1>2

(* With adds and removals one after the other, the scan in between: each   *)
(* message that was kept is on the list, was handed to timeout_cb, or was  *)
(* taken off by a PUBACK, and only one of these (Accounted;                *)
(* client_deamon.c:210-219, client_message_process.c:60-63).               *)
THEOREM AccountedInvariant == Spec => []Accounted
<1>1. Init => ScanInv /\ Accounted
  <2> SUFFICES ASSUME Init PROVE ScanInv /\ Accounted
    OBVIOUS
  <2>1. ScanInv
    BY DEF Init, ScanInv
  <2>2. KeysOf(message_send_list) = {}
    BY EmptySeq DEF Init, KeysOf
  <2>3. KeptIds = {}
    BY DEF Init, KeptIds, NextKey, Before
  <2> QED
    BY <2>1, <2>2, <2>3 DEF Init, Accounted
<1>2. TypeOK /\ ScanInv /\ [Next]_vars => ScanInv'
  BY ScanInvStep
<1>3. TypeOK /\ IdOrder /\ ScanInv /\ Accounted /\ [Next]_vars => Accounted'
  <2>1. Accounted /\ (UNCHANGED vars \/ Environment) => Accounted'
    BY DEF vars, Environment, BrokerSend, ConnectionEnds, Tick, appVars, listVars,
       scanVars, Accounted, KeptIds, KeysOf, Key, NextKey
  <2> QED
    BY <2>1, AccountedDeamon, AccountedApplication DEF Next
<1> QED
  BY <1>1, <1>2, <1>3, TypeCorrect, IdOrderInvariant, PTL DEF Spec
=============================================================================
