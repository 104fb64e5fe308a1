------------------------- MODULE FrameReaderProofs -------------------------
(***************************************************************************)
(* Proofs about FrameReader, for every set of messages, every size of the  *)
(* buffer, every weight of the bytes of a length field and any number of   *)
(* messages on the connection.                                             *)
(***************************************************************************)
EXTENDS FrameReader, TLAPS

(* The stream as a matter of two sequences: messages, and where they begin.*)
TotalOf(s, b) == IF s = <<>> THEN 0 ELSE b[Len(s)] + Len(s[Len(s)])
ByteAt(s, b, n) ==
    LET i == CHOOSE j \in DOMAIN s : b[j] < n /\ n <= b[j] + Len(s[j])
    IN  s[i][n - b[i]]

(* The messages lie one behind the other, and each byte is in one.         *)
Laid(s, b) ==
    /\ s \in Seq(Message) /\ b \in Seq(Nat) /\ Len(b) = Len(s)
    /\ TotalOf(s, b) \in Nat
    /\ \A i \in 1..Len(s) : b[i] + Len(s[i]) <= TotalOf(s, b)
    /\ \A i, j \in 1..Len(s) : i < j => b[i] + Len(s[i]) <= b[j]
    /\ \A n \in 1..TotalOf(s, b) :
          \E i \in 1..Len(s) : b[i] < n /\ n <= b[i] + Len(s[i])

StreamInv == Laid(sent, begins)

Counters ==
    /\ arrived \in Nat /\ taken \in Nat /\ taken + arrived <= TotalOf(sent, begins)
    /\ whole \in BOOLEAN /\ conn \in {"open", "closed", "reset"}
    /\ pc \in {"wait", "recv", "rest", "dispatch"}
    /\ memory \in {"sound", "overwritten", "crashed"} /\ ret \in Nat
    /\ start \in Nat /\ ready \in Nat /\ message_len \in Nat

Header(s, b, from, n) == [k \in 1..Smaller(n, HeaderLen) |-> ByteAt(s, b, from + k)]

(* What a turn has in its buffer is the stream from where it began; the    *)
(* length comes from the bytes that were there then.                       *)
TurnInv ==
    /\ buffer \in Seq(Byte)
    /\ Len(buffer) <= Larger(HeaderLen, message_len)
    /\ Len(buffer) > BufferSize => memory # "sound"
    /\ pc \in {"wait", "recv"} => buffer = <<>>
    /\ pc = "rest" => Len(buffer) < message_len /\ taken + arrived >= start + ready
    /\ pc = "dispatch" => Len(buffer) >= message_len \/ taken >= start + ready
    /\ pc \in {"rest", "dispatch"} =>
          /\ taken = start + Len(buffer)
          /\ start + ready <= TotalOf(sent, begins)
          /\ \A k \in 1..Len(buffer) : buffer[k] = ByteAt(sent, begins, start + k)
          /\ ready > 0 => message_len = MessageLen(Header(sent, begins, start, ready))

ReaderInv == StreamInv /\ Counters /\ TurnInv

-----------------------------------------------------------------------------
(* The stream                                                              *)

LEMMA MessageFacts ==
    ASSUME NEW m \in Message
    PROVE  m \in Seq(Byte) /\ Len(m) \in Nat /\ Len(m) >= 2
  BY ReaderAssumption

LEMMA InStream ==
    ASSUME NEW s, NEW b, Laid(s, b), NEW i \in 1..Len(s)
    PROVE  s[i] \in Message /\ b[i] \in Nat /\ Len(s[i]) \in Nat /\ Len(s) \in Nat
  BY MessageFacts DEF Laid

(* A byte belongs to the message it lies in, and to no other.              *)
LEMMA ByteOfMessage ==
    ASSUME NEW s, NEW b, Laid(s, b), NEW i \in 1..Len(s), NEW n \in Nat,
           b[i] < n, n <= b[i] + Len(s[i])
    PROVE  ByteAt(s, b, n) = s[i][n - b[i]] /\ s[i][n - b[i]] \in Byte
  <1>1. ASSUME NEW j \in DOMAIN s, b[j] < n, n <= b[j] + Len(s[j])
        PROVE  j = i
    <2>1. j \in 1..Len(s) /\ Len(s) \in Nat
      BY <1>1 DEF Laid
    <2>2. /\ b[i] \in Nat /\ b[j] \in Nat /\ Len(s[i]) \in Nat /\ Len(s[j]) \in Nat
      BY <2>1, InStream
    <2>3. /\ i < j => b[i] + Len(s[i]) <= b[j]
          /\ j < i => b[j] + Len(s[j]) <= b[i]
      BY <2>1 DEF Laid
    <2>. QED
      BY <1>1, <2>1, <2>2, <2>3
  <1>2. i \in DOMAIN s
    BY DEF Laid
  <1>3. (CHOOSE j \in DOMAIN s : b[j] < n /\ n <= b[j] + Len(s[j])) = i
    BY <1>1, <1>2
  <1>4. s[i] \in Seq(Byte) /\ b[i] \in Nat /\ Len(s[i]) \in Nat
    BY InStream, MessageFacts
  <1>5. n - b[i] \in 1..Len(s[i])
    BY <1>4
  <1>6. s[i][n - b[i]] \in Byte
    BY <1>4, <1>5
  <1>7. ByteAt(s, b, n) = s[i][n - b[i]]
    BY <1>3, Zenon DEF ByteAt
  <1>. QED
    BY <1>6, <1>7

LEMMA ByteIsByte ==
    ASSUME NEW s, NEW b, Laid(s, b), NEW n \in 1..TotalOf(s, b)
    PROVE  ByteAt(s, b, n) \in Byte
  <1>1. PICK i \in 1..Len(s) : b[i] < n /\ n <= b[i] + Len(s[i])
    BY DEF Laid
  <1>2. n \in Nat
    BY DEF Laid
  <1>. QED
    BY <1>1, <1>2, ByteOfMessage

(* One more message leaves the bytes before it where they are.             *)
LEMMA MessageAdded ==
    ASSUME NEW s, NEW b, Laid(s, b), NEW m \in Message
    PROVE  LET t == Append(s, m)
               c == Append(b, TotalOf(s, b))
           IN  /\ Laid(t, c)
               /\ TotalOf(t, c) >= TotalOf(s, b)
               /\ \A n \in 1..TotalOf(s, b) : ByteAt(t, c, n) = ByteAt(s, b, n)
  <1> DEFINE t == Append(s, m)
             c == Append(b, TotalOf(s, b))
             L == Len(s) + 1
             old == TotalOf(s, b)
  <1>1. /\ s \in Seq(Message) /\ b \in Seq(Nat) /\ Len(b) = Len(s) /\ Len(s) \in Nat
        /\ old \in Nat
    BY DEF Laid
  <1>2. m \in Seq(Byte) /\ Len(m) \in Nat /\ Len(m) >= 2
    BY MessageFacts
  <1>3. /\ t \in Seq(Message) /\ c \in Seq(Nat) /\ Len(t) = L /\ Len(c) = L
        /\ t[L] = m /\ c[L] = old
        /\ \A i \in 1..Len(s) : t[i] = s[i] /\ c[i] = b[i]
    BY <1>1
  <1> HIDE DEF t, c, old
  <1>4. t # <<>> /\ TotalOf(t, c) = old + Len(m) /\ TotalOf(t, c) \in Nat
    <2>1. t # <<>>
      BY <1>1, <1>3
    <2>2. TotalOf(t, c) = c[Len(t)] + Len(t[Len(t)])
      BY <2>1, Zenon DEF TotalOf
    <2>. QED
      BY SMTT(30), <1>1, <1>2, <1>3, <2>1, <2>2
  <1>5. \A i \in 1..L : i = L \/ i \in 1..Len(s)
    BY <1>1
  <1>6. \A i \in 1..Len(s) : b[i] + Len(s[i]) <= old /\ b[i] \in Nat /\ Len(s[i]) \in Nat
    BY InStream DEF Laid, old
  <1>7. ASSUME NEW i \in 1..L PROVE c[i] + Len(t[i]) <= TotalOf(t, c)
    <2>1. CASE i = L
      BY <2>1, <1>1, <1>2, <1>3, <1>4
    <2>2. CASE i \in 1..Len(s)
      <3>1. c[i] + Len(t[i]) = b[i] + Len(s[i])
        BY <2>2, <1>3
      <3>. QED
        BY <2>2, <3>1, <1>1, <1>2, <1>4, <1>6
    <2>. QED
      BY <1>5, <2>1, <2>2
  <1>8. ASSUME NEW i \in 1..L, NEW j \in 1..L, i < j
        PROVE  c[i] + Len(t[i]) <= c[j]
    <2>1. i \in 1..Len(s)
      BY <1>8, <1>1
    <2>2. CASE j = L
      BY <2>1, <2>2, <1>3, <1>6
    <2>3. CASE j \in 1..Len(s)
      <3>1. b[i] + Len(s[i]) <= b[j]
        BY <1>8, <2>1, <2>3 DEF Laid
      <3>. QED
        BY <3>1, <2>1, <2>3, <1>3
    <2>. QED
      BY <1>5, <2>2, <2>3
  <1>9. ASSUME NEW n \in 1..TotalOf(t, c)
        PROVE  \E i \in 1..L : c[i] < n /\ n <= c[i] + Len(t[i])
    <2>1. CASE n <= old
      <3>1. n \in 1..old
        BY <2>1, <1>1, <1>4
      <3>2. PICK i \in 1..Len(s) : b[i] < n /\ n <= b[i] + Len(s[i])
        BY <3>1 DEF Laid, old
      <3>3. i \in 1..L
        BY <1>1
      <3>. QED
        BY <3>2, <3>3, <1>3
    <2>2. CASE n > old
      <3>1. L \in 1..L
        BY <1>1
      <3>2. c[L] < n /\ n <= c[L] + Len(t[L])
        BY <2>2, <1>1, <1>2, <1>3, <1>4
      <3>. QED
        BY <3>1, <3>2
    <2>. QED
      BY <2>1, <2>2, <1>1, <1>4
  <1>10. Laid(t, c)
    BY <1>3, <1>4, <1>7, <1>8, <1>9 DEF Laid
  <1>11. ASSUME NEW n \in 1..old PROVE ByteAt(t, c, n) = ByteAt(s, b, n)
    <2>1. PICK i \in 1..Len(s) : b[i] < n /\ n <= b[i] + Len(s[i])
      BY <1>11 DEF Laid, old
    <2>2. i \in 1..Len(t) /\ n \in Nat
      BY <1>1, <1>3
    <2>3. t[i] = s[i] /\ c[i] = b[i]
      BY <1>3
    <2>4. ByteAt(s, b, n) = s[i][n - b[i]]
      BY <2>1, <2>2, ByteOfMessage
    <2>5. ByteAt(t, c, n) = t[i][n - c[i]]
      BY <2>1, <2>2, <2>3, <1>10, ByteOfMessage
    <2>. QED
      BY <2>3, <2>4, <2>5
  <1>12. TotalOf(t, c) >= old
    BY <1>1, <1>2, <1>4
  <1>. QED
    BY <1>10, <1>11, <1>12 DEF t, c, old

-----------------------------------------------------------------------------
(* The length field                                                        *)

LEMMA DivideNat ==
    ASSUME NEW d \in Nat \ {0}
    PROVE  /\ \A f \in Nat : f % d \in Nat
           /\ 0 % d = 0 /\ 0 \div d = 0
  OBVIOUS

LEMMA ZeroEnds == ~More(0)
  <1>1. 0 \div Base = 0
    BY DivideNat, ReaderAssumption
  <1>. QED
    BY <1>1 DEF More

LEMMA FieldNat ==
    ASSUME NEW bytes \in Seq(Byte)
    PROVE  /\ FieldRead(bytes) \in 0..FieldMax
           /\ FieldRead(bytes) = Smaller(Len(bytes), FieldMax)
           /\ \A k \in 1..FieldMax : Field(bytes, k) \in Nat
  <1>1. Len(bytes) \in Nat /\ \A k \in 1..Len(bytes) : bytes[k] \in Nat
    <2>1. Len(bytes) \in Nat /\ \A k \in 1..Len(bytes) : bytes[k] \in Byte
      OBVIOUS
    <2>2. Byte \subseteq Nat
      BY DEF Byte
    <2>. QED
      BY <2>1, <2>2
  <1>2. ASSUME NEW k \in 1..FieldMax PROVE Field(bytes, k) \in Nat
    BY <1>1 DEF Field, FieldMax
  <1>3. FieldRead(bytes) = Smaller(Len(bytes), FieldMax)
    BY DEF FieldRead
  <1>4. Smaller(Len(bytes), FieldMax) \in 0..FieldMax
    <2>1. \A l \in Nat : (IF l < 4 THEN l ELSE 4) \in 0..4
      OBVIOUS
    <2>. QED
      BY <1>1, <2>1 DEF Smaller, FieldMax
  <1>. QED
    BY <1>2, <1>3, <1>4

(* The loop of the decoder stops at exactly one place.                     *)
LEMMA IndexFacts ==
    ASSUME NEW bytes \in Seq(Byte)
    PROVE  /\ Index(bytes) \in 0..FieldRead(bytes)
           /\ \A k \in 1..Index(bytes) : More(Field(bytes, k))
           /\ Index(bytes) = FieldRead(bytes) \/ ~More(Field(bytes, Index(bytes) + 1))
  <1> DEFINE F == FieldRead(bytes)
             p(k) == More(Field(bytes, k))
             Stop(i) == (\A k \in 1..i : p(k)) /\ (i = F \/ ~p(i + 1))
  <1>1. F \in 0..4
    BY FieldNat DEF FieldMax
  <1> HIDE DEF F, p
  <1>2. \E i \in 0..F : Stop(i)
    <2>1. CASE F = 0 \/ ~p(1)
      <3>. 0 \in 0..F /\ Stop(0)
        BY <1>1, <2>1
      <3>. QED
        OBVIOUS
    <2>2. CASE F >= 1 /\ p(1) /\ (F = 1 \/ ~p(2))
      <3>. 1 \in 0..F /\ Stop(1)
        BY <1>1, <2>2
      <3>. QED
        OBVIOUS
    <2>3. CASE F >= 2 /\ p(1) /\ p(2) /\ (F = 2 \/ ~p(3))
      <3>. 2 \in 0..F /\ Stop(2)
        BY <1>1, <2>3
      <3>. QED
        OBVIOUS
    <2>4. CASE F >= 3 /\ p(1) /\ p(2) /\ p(3) /\ (F = 3 \/ ~p(4))
      <3>. 3 \in 0..F /\ Stop(3)
        BY <1>1, <2>4
      <3>. QED
        OBVIOUS
    <2>5. CASE F = 4 /\ p(1) /\ p(2) /\ p(3) /\ p(4)
      <3>. 4 \in 0..F /\ Stop(4)
        BY <1>1, <2>5
      <3>. QED
        OBVIOUS
    <2>. QED
      BY <1>1, <2>1, <2>2, <2>3, <2>4, <2>5
  <1>3. Index(bytes) = CHOOSE i \in 0..F : Stop(i)
    BY DEF Index, F, p
  <1>4. Index(bytes) \in 0..F /\ Stop(Index(bytes))
    BY <1>2, <1>3
  <1>. QED
    BY <1>4 DEF F, p

LEMMA DigitFacts ==
    ASSUME NEW bytes \in Seq(Byte)
    PROVE  /\ \A k \in 1..FieldMax : Digit(bytes, k) \in Nat
           /\ RemainLen(bytes) \in Nat /\ Index(bytes) \in Nat
           /\ MessageLen(bytes) \in Nat /\ MessageLen(bytes) >= 2
  <1>1. \A x, y \in Nat : x * y \in Nat
    OBVIOUS
  <1>2. \A k \in 1..FieldMax : Weight(k) \in Nat
    <2>1. Base \in Nat /\ Base * Base \in Nat
      BY <1>1, ReaderAssumption
    <2>2. Base * Base * Base \in Nat
      BY <1>1, <2>1
    <2>. QED
      BY <2>1, <2>2 DEF Weight
  <1>3. \A k \in 1..FieldMax : Field(bytes, k) % Base \in Nat
    BY FieldNat, DivideNat, ReaderAssumption
  <1>4. \A k \in 1..FieldMax : Digit(bytes, k) \in Nat
    BY <1>1, <1>2, <1>3, Zenon DEF Digit
  <1>5. RemainLen(bytes) \in Nat
    BY <1>4 DEF RemainLen, FieldMax
  <1>6. Index(bytes) \in Nat
    BY IndexFacts, FieldNat DEF FieldMax
  <1>. QED
    BY <1>4, <1>5, <1>6 DEF MessageLen

(* A header of which a part has arrived announces no more than the whole.  *)
LEMMA PartAnnouncesLess ==
    ASSUME NEW g \in Seq(Byte), Len(g) = HeaderLen,
           NEW h \in Seq(Byte), Len(h) \in 1..HeaderLen,
           \A k \in 1..Len(h) : h[k] = g[k]
    PROVE  /\ MessageLen(h) <= MessageLen(g)
           /\ Len(h) = HeaderLen => MessageLen(h) = MessageLen(g)
  <1>1. CASE Len(h) = HeaderLen
    <2>1. h = g
      BY <1>1
    <2>. QED
      BY <1>1, <2>1, DigitFacts
  <1>2. CASE Len(h) # HeaderLen
    <2> DEFINE n == Len(h)
    <2>1. n \in 1..4 /\ FieldRead(h) = n /\ FieldRead(g) = 4
      <3>1. n \in 1..4
        BY <1>2 DEF HeaderLen
      <3>. QED
        BY <3>1 DEF FieldRead, FieldMax, HeaderLen, Smaller
    <2>2. \A k \in 1..4 : k < n => Field(h, k) = Field(g, k)
      BY <2>1 DEF Field, HeaderLen
    <2>3. Field(h, n) = 0
      BY DEF Field
    <2>4. /\ Index(h) \in 0..n /\ Index(g) \in 0..4
          /\ \A k \in 1..Index(h) : More(Field(h, k))
          /\ Index(g) = 4 \/ ~More(Field(g, Index(g) + 1))
      BY <2>1, IndexFacts
    <2>5. Index(h) <= Index(g)
      <3>1. SUFFICES ASSUME Index(h) > Index(g) PROVE FALSE
        BY <2>1, <2>4
      <3>2. Index(g) + 1 \in 1..Index(h) /\ Index(g) + 1 \in 1..n /\ Index(g) # 4
        BY <3>1, <2>1, <2>4
      <3>3. More(Field(h, Index(g) + 1)) /\ ~More(Field(g, Index(g) + 1))
        BY <3>2, <2>4
      <3>4. Index(g) + 1 # n
        BY <3>3, <2>3, ZeroEnds
      <3>. QED
        BY <3>2, <3>3, <3>4, <2>1, <2>2
    <2>6. ASSUME NEW k \in 1..4 PROVE Digit(h, k) <= Digit(g, k)
      <3>1. Digit(g, k) \in Nat /\ Digit(h, k) \in Nat
        BY DigitFacts DEF FieldMax
      <3>2. CASE k < n /\ k <= Index(h) + 1
        <4>1. Digit(h, k) = (Field(h, k) % Base) * Weight(k)
          BY <3>2, <2>1 DEF Digit
        <4>2. Digit(g, k) = (Field(g, k) % Base) * Weight(k)
          BY <3>2, <2>1, <2>4, <2>5 DEF Digit
        <4>. QED
          BY <3>1, <3>2, <4>1, <4>2, <2>2
      <3>3. CASE k = n /\ k <= Index(h) + 1
        <4>1. Digit(h, k) = (0 % Base) * Weight(k)
          BY <3>3, <2>1, <2>3 DEF Digit
        <4>2. 0 % Base = 0
          BY DivideNat, ReaderAssumption
        <4>3. k = 1 \/ k = 2 \/ k = 3 \/ k = 4
          OBVIOUS
        <4>4. Weight(k) \in Int
          BY <4>3, ReaderAssumption DEF Weight
        <4>. QED
          BY <3>1, <4>1, <4>2, <4>4
      <3>4. CASE k > n \/ k > Index(h) + 1
        <4>1. Digit(h, k) = 0
          BY <3>4, <2>1, <2>4 DEF Digit
        <4>. QED
          BY <3>1, <4>1
      <3>. QED
        BY <2>1, <2>4, <3>2, <3>3, <3>4
    <2>7. RemainLen(h) <= RemainLen(g)
      <3>1. \A k \in 1..4 : Digit(h, k) \in Nat /\ Digit(g, k) \in Nat
        BY DigitFacts DEF FieldMax
      <3>. QED
        BY SMTT(30), <2>6, <3>1 DEF RemainLen
    <2>. QED
      BY <1>2, <2>5, <2>7, DigitFacts DEF MessageLen
  <1>. QED
    BY <1>1, <1>2

(* The header of a message of five bytes or more, or what there is of it.  *)
LEMMA HeaderAnnounces ==
    ASSUME NEW m \in Message, Len(m) >= HeaderLen,
           NEW h \in Seq(Byte), Len(h) \in 1..HeaderLen,
           \A k \in 1..Len(h) : h[k] = m[k]
    PROVE  /\ MessageLen(h) <= Len(m)
           /\ Len(h) = HeaderLen => MessageLen(h) = Len(m)
  <1> DEFINE g == SubSeq(m, 1, HeaderLen)
  <1>1. m \in Seq(Byte) /\ Len(m) \in Nat
    BY MessageFacts
  <1>2. /\ g \in Seq(Byte) /\ Len(g) = HeaderLen
        /\ \A k \in 1..HeaderLen : g[k] = m[k]
    BY <1>1 DEF HeaderLen
  <1>3. Smaller(Len(m), HeaderLen) = HeaderLen
    BY <1>1 DEF Smaller, HeaderLen
  <1>4. 1 + (Index(g) + 1) + RemainLen(g) = Len(m)
    BY <1>3, AnnounceAssumption DEF Announces
  <1> HIDE DEF g
  <1>5. MessageLen(g) = Len(m)
    BY <1>2, <1>4, DigitFacts DEF MessageLen
  <1>6. \A k \in 1..Len(h) : h[k] = g[k]
    BY <1>2 DEF HeaderLen
  <1>. QED
    BY <1>2, <1>5, <1>6, PartAnnouncesLess

-----------------------------------------------------------------------------
(* The definitions of the model in terms of those above.                   *)

LEMMA StreamMeaning ==
    /\ Total = TotalOf(sent, begins)
    /\ Total' = TotalOf(sent', begins')
    /\ \A n : StreamByte(n) = ByteAt(sent, begins, n)
    /\ \A i : Ends(i) = begins[i] + Len(sent[i])
  <1>1. Total = TotalOf(sent, begins) /\ Total' = TotalOf(sent', begins')
    BY DEF Total, TotalOf, Ends
  <1>2. \A n : StreamByte(n) = ByteAt(sent, begins, n)
    BY DEF StreamByte, ByteAt, Ends
  <1>3. \A i : Ends(i) = begins[i] + Len(sent[i])
    BY DEF Ends
  <1>. QED
    BY <1>1, <1>2, <1>3

(* What recv returns: bytes of the stream, as many as it takes.            *)
LEMMA PieceFacts ==
    ASSUME ReaderInv, NEW n \in 0..arrived
    PROVE  /\ Piece(n) \in Seq(Byte) /\ Len(Piece(n)) = n
           /\ \A k \in 1..n : Piece(n)[k] = ByteAt(sent, begins, taken + k)
  <1>1. n \in Nat /\ Piece(n) = [k \in 1..n |-> ByteAt(sent, begins, taken + k)]
    BY StreamMeaning DEF Piece, ReaderInv, Counters
  <1>2. ASSUME NEW k \in 1..n PROVE ByteAt(sent, begins, taken + k) \in Byte
    <2>1. taken + k \in 1..TotalOf(sent, begins)
      BY <1>1 DEF ReaderInv, Counters, StreamInv, Laid
    <2>. QED
      BY <2>1, ByteIsByte DEF ReaderInv, StreamInv
  <1>. QED
    BY <1>1, <1>2

LEMMA HeaderFacts ==
    ASSUME ReaderInv, NEW n \in Nat, NEW from \in Nat, n > 0,
           from + n <= TotalOf(sent, begins)
    PROVE  LET h == Header(sent, begins, from, n)
           IN  /\ h \in Seq(Byte) /\ Len(h) = Smaller(n, HeaderLen)
               /\ Len(h) \in 1..HeaderLen
               /\ \A k \in 1..Len(h) : h[k] = ByteAt(sent, begins, from + k)
  <1> DEFINE l == Smaller(n, HeaderLen)
             h == Header(sent, begins, from, n)
  <1>1. l \in 1..HeaderLen /\ l <= n /\ l \in Nat
    BY DEF Smaller, HeaderLen
  <1>2. h = [k \in 1..l |-> ByteAt(sent, begins, from + k)]
    BY DEF Header
  <1> HIDE DEF l, h
  <1>3. ASSUME NEW k \in 1..l PROVE ByteAt(sent, begins, from + k) \in Byte
    <2>1. from + k \in 1..TotalOf(sent, begins)
      BY <1>1 DEF ReaderInv, StreamInv, Laid
    <2>. QED
      BY <2>1, ByteIsByte DEF ReaderInv, StreamInv
  <1>4. h \in Seq(Byte) /\ Len(h) = l
    BY <1>1, <1>2, <1>3
  <1>. QED
    BY <1>1, <1>2, <1>4 DEF l, h

-----------------------------------------------------------------------------
(* The invariant                                                           *)

LEMMA ReaderStart == Init => ReaderInv
  <1>1. SUFFICES ASSUME Init PROVE ReaderInv
    OBVIOUS
  <1>2. sent = <<>> /\ begins = <<>> /\ TotalOf(sent, begins) = 0
    BY <1>1 DEF Init, TotalOf
  <1>3. Laid(sent, begins)
    BY <1>2 DEF Laid
  <1>. QED
    BY <1>1, <1>2, <1>3, ReaderAssumption
      DEF Init, ReaderInv, StreamInv, Counters, TurnInv, Smaller, Larger, HeaderLen

LEMMA BrokerSendStep ==
    ASSUME ReaderInv, BrokerSend
    PROVE  ReaderInv'
  <1>1. PICK m \in Message : sent' = Append(sent, m)
    BY DEF BrokerSend
  <1>2. begins' = Append(begins, TotalOf(sent, begins))
    BY StreamMeaning DEF BrokerSend
  <1>3. Laid(sent, begins)
    BY DEF ReaderInv, StreamInv
  <1>4. /\ Laid(sent', begins')
        /\ TotalOf(sent', begins') >= TotalOf(sent, begins)
        /\ \A n \in 1..TotalOf(sent, begins) :
              ByteAt(sent', begins', n) = ByteAt(sent, begins, n)
    BY <1>1, <1>2, <1>3, MessageAdded
  <1>5. UNCHANGED <<whole, conn, arrived, taken, pc, buffer, message_len, start, ready,
                    ret, memory>>
    BY DEF BrokerSend, turnVars
  <1>6. TotalOf(sent, begins) \in Nat /\ TotalOf(sent', begins') \in Nat
    BY <1>3, <1>4 DEF Laid
  <1>7. Counters'
    BY <1>4, <1>5, <1>6 DEF ReaderInv, Counters
  <1>8. ASSUME pc \in {"rest", "dispatch"}
        PROVE  /\ start + ready <= TotalOf(sent', begins')
               /\ \A k \in 1..Len(buffer) : buffer[k] = ByteAt(sent', begins', start + k)
               /\ ready > 0 => Header(sent', begins', start, ready)
                                 = Header(sent, begins, start, ready)
    <2>1. /\ start + ready <= TotalOf(sent, begins) /\ start \in Nat /\ ready \in Nat
          /\ taken = start + Len(buffer) /\ taken + arrived <= TotalOf(sent, begins)
          /\ arrived \in Nat /\ Len(buffer) \in Nat
      BY <1>8 DEF ReaderInv, Counters, TurnInv
    <2>2. ASSUME NEW k \in 1..Len(buffer)
          PROVE  buffer[k] = ByteAt(sent', begins', start + k)
      <3>1. start + k \in 1..TotalOf(sent, begins)
        BY <2>1, <1>6
      <3>2. buffer[k] = ByteAt(sent, begins, start + k)
        BY <1>8 DEF ReaderInv, TurnInv
      <3>. QED
        BY <3>1, <3>2, <1>4
    <2>3. ASSUME NEW k \in 1..Smaller(ready, HeaderLen)
          PROVE  ByteAt(sent', begins', start + k) = ByteAt(sent, begins, start + k)
      <3>1. start + k \in 1..TotalOf(sent, begins)
        BY <2>1, <1>6 DEF Smaller, HeaderLen
      <3>. QED
        BY <3>1, <1>4
    <2>4. Header(sent', begins', start, ready) = Header(sent, begins, start, ready)
      BY <2>3 DEF Header
    <2>. QED
      BY <2>1, <2>2, <2>4, <1>4, <1>6
  <1>9. TurnInv'
    <2>1. TurnInv
      BY DEF ReaderInv
    <2>. QED
      BY <2>1, <1>5, <1>8 DEF TurnInv
  <1>. QED
    BY <1>4, <1>7, <1>9 DEF ReaderInv, StreamInv

LEMMA PeerStep ==
    ASSUME ReaderInv, Arrive \/ PeerCloses \/ PeerResets \/ Crash \/ UNCHANGED vars
    PROVE  ReaderInv'
  <1>1. UNCHANGED <<whole, sent, begins, taken, pc, buffer, message_len, start, ready, ret>>
    BY DEF Arrive, PeerCloses, PeerResets, Crash, vars, peerVars, turnVars
  <1>2. conn' \in {"open", "closed", "reset"}
    BY DEF Arrive, PeerCloses, PeerResets, Crash, vars, peerVars, ReaderInv, Counters
  <1>0. memory' = memory \/ memory' = "crashed"
    BY DEF Arrive, PeerCloses, PeerResets, Crash, vars
  <1>3. arrived' \in Nat /\ arrived' >= arrived /\ taken + arrived' <= TotalOf(sent, begins)
    <2>1. /\ arrived \in Nat /\ taken \in Nat /\ taken + arrived <= TotalOf(sent, begins)
          /\ TotalOf(sent, begins) \in Nat
      BY DEF ReaderInv, Counters, StreamInv, Laid
    <2>2. CASE Arrive
      <3>1. PICK n \in Portions : arrived' = arrived + n
        BY <2>2 DEF Arrive
      <3>2. n \in Nat /\ n <= TotalOf(sent, begins) - taken - arrived
        <4>1. CASE ~whole
          BY <4>1, <2>1, StreamMeaning DEF Portions, UnderWay
        <4>2. CASE whole
          <5>1. PICK i \in DOMAIN sent : n = Len(sent[i]) /\ begins[i] = taken + arrived
            BY <4>2 DEF Portions
          <5>2. i \in 1..Len(sent)
            BY DEF ReaderInv, StreamInv, Laid
          <5>3. begins[i] + Len(sent[i]) <= TotalOf(sent, begins) /\ Len(sent[i]) \in Nat
            BY <5>2, InStream DEF ReaderInv, StreamInv, Laid
          <5>. QED
            BY <5>1, <5>3, <2>1
        <4>. QED
          BY <4>1, <4>2
      <3>. QED
        BY <3>1, <3>2, <2>1
    <2>3. CASE PeerCloses \/ PeerResets \/ Crash \/ UNCHANGED vars
      BY <2>1, <2>3 DEF PeerCloses, PeerResets, Crash, vars
    <2>. QED
      BY <2>2, <2>3
  <1>4. StreamInv'
    BY <1>1 DEF ReaderInv, StreamInv
  <1>5. Counters'
    BY <1>0, <1>1, <1>2, <1>3 DEF ReaderInv, Counters
  <1>6. TurnInv'
    <2>1. pc = "rest" => taken + arrived' >= start + ready
      BY <1>3 DEF ReaderInv, TurnInv, Counters
    <2>2. TurnInv
      BY DEF ReaderInv
    <2>. QED
      BY <1>0, <1>1, <2>1, <2>2 DEF TurnInv
  <1>. QED
    BY <1>4, <1>5, <1>6 DEF ReaderInv

LEMMA PassStep ==
    ASSUME ReaderInv, EpollWait \/ ReceiveFails \/ Dispatch
    PROVE  ReaderInv'
  <1>1. UNCHANGED <<whole, sent, begins, conn, arrived, taken, memory>>
    BY DEF EpollWait, ReceiveFails, Dispatch, peerVars, turnVars
  <1>2. /\ pc' \in {"wait", "recv"} /\ buffer' = <<>> /\ message_len' \in Nat
        /\ start' \in Nat /\ ready' \in Nat /\ ret' \in Nat
    BY DEF EpollWait, ReceiveFails, Dispatch, turnVars, ReaderInv, TurnInv, Counters
  <1>3. StreamInv' /\ Counters'
    BY <1>1, <1>2 DEF ReaderInv, StreamInv, Counters
  <1>4. TurnInv'
    BY <1>2, ReaderAssumption DEF TurnInv, Larger, HeaderLen
  <1>. QED
    BY <1>3, <1>4 DEF ReaderInv

LEMMA HeaderStep ==
    ASSUME ReaderInv, ReceiveHeader
    PROVE  ReaderInv'
  <1> DEFINE n == Smaller(arrived, HeaderLen)
  <1>1. /\ arrived \in Nat /\ taken \in Nat /\ taken + arrived <= TotalOf(sent, begins)
        /\ TotalOf(sent, begins) \in Nat
    BY DEF ReaderInv, Counters, StreamInv, Laid
  <1>2. n \in 0..arrived /\ n \in Nat /\ n <= HeaderLen
    BY <1>1 DEF Smaller, HeaderLen
  <1>3. /\ taken' = taken + n /\ arrived' = arrived - n
        /\ buffer' = Piece(n) /\ message_len' = MessageLen(buffer')
        /\ pc' = IF message_len' > n THEN "rest" ELSE "dispatch"
        /\ start' = taken /\ ready' = arrived /\ ret' = 0
        /\ UNCHANGED <<whole, sent, begins, conn, memory>>
    BY DEF ReceiveHeader, Take, peerVars
  <1>4. /\ Piece(n) \in Seq(Byte) /\ Len(Piece(n)) = n
        /\ \A k \in 1..n : Piece(n)[k] = ByteAt(sent, begins, taken + k)
    BY <1>2, PieceFacts
  <1>5. Piece(n) = Header(sent, begins, taken, arrived)
    BY StreamMeaning DEF Piece, Header
  <1> HIDE DEF n
  <1>6. message_len' \in Nat
    BY <1>3, <1>4, DigitFacts
  <1>7. StreamInv'
    BY <1>3 DEF ReaderInv, StreamInv
  <1>8. Counters'
    BY <1>1, <1>2, <1>3, <1>6 DEF ReaderInv, Counters
  <1>9. TurnInv'
    <2>1. buffer' \in Seq(Byte) /\ Len(buffer') = n
      BY <1>3, <1>4
    <2>2. n <= Larger(HeaderLen, message_len') /\ ~(n > BufferSize)
      BY <1>2, <1>6, ReaderAssumption DEF Larger, HeaderLen
    <2>3. pc' \in {"rest", "dispatch"}
      BY <1>3
    <2>4. pc' = "rest" => n < message_len' /\ taken' + arrived' >= start' + ready'
      BY <1>1, <1>2, <1>3, <1>6
    <2>5. pc' = "dispatch" => n >= message_len'
      BY <1>2, <1>3, <1>6
    <2>6. taken' = start' + n /\ start' + ready' <= TotalOf(sent', begins')
      BY <1>1, <1>3
    <2>7. \A k \in 1..n : buffer'[k] = ByteAt(sent', begins', start' + k)
      BY <1>3, <1>4
    <2>8. message_len' = MessageLen(Header(sent', begins', start', ready'))
      BY <1>3, <1>5
    <2>. QED
      BY <2>1, <2>2, <2>3, <2>4, <2>5, <2>6, <2>7, <2>8 DEF TurnInv
  <1>. QED
    BY <1>7, <1>8, <1>9 DEF ReaderInv

LEMMA Joined ==
    ASSUME NEW a \in Seq(Byte), NEW b \in Seq(Byte)
    PROVE  /\ a \o b \in Seq(Byte) /\ Len(a \o b) = Len(a) + Len(b)
           /\ \A k \in 1..Len(a) : (a \o b)[k] = a[k]
           /\ \A k \in 1..Len(b) : (a \o b)[Len(a) + k] = b[k]
  OBVIOUS

LEMMA RestStep ==
    ASSUME ReaderInv, ReceiveRest
    PROVE  ReaderInv'
  <1> DEFINE n == Smaller(arrived, Asked)
             l == Len(buffer)
  <1>1. /\ arrived \in Nat /\ taken \in Nat /\ taken + arrived <= TotalOf(sent, begins)
        /\ TotalOf(sent, begins) \in Nat /\ message_len \in Nat
        /\ start \in Nat /\ ready \in Nat
    BY DEF ReaderInv, Counters, StreamInv, Laid
  <1>2. /\ pc = "rest" /\ buffer \in Seq(Byte) /\ l \in Nat /\ l < message_len
        /\ taken + arrived >= start + ready /\ taken = start + l
        /\ start + ready <= TotalOf(sent, begins)
        /\ \A k \in 1..l : buffer[k] = ByteAt(sent, begins, start + k)
        /\ ready > 0 => message_len = MessageLen(Header(sent, begins, start, ready))
    BY DEF ReaderInv, TurnInv, ReceiveRest
  <1>3. Asked = message_len - l
    BY DEF Asked
  <1>4. /\ n \in 0..arrived /\ n \in Nat /\ l + n <= message_len
        /\ n = arrived \/ l + n = message_len
    BY <1>1, <1>2, <1>3 DEF Smaller
  <1>5. /\ taken' = taken + n /\ arrived' = arrived - n
        /\ UNCHANGED <<whole, sent, begins, conn, message_len, start, ready>>
        /\ buffer' = buffer \o Piece(n) /\ pc' = "dispatch" /\ ret' = n
        /\ memory' = IF Len(buffer') > BufferSize THEN "overwritten" ELSE memory
    BY DEF ReceiveRest, Take, peerVars
  <1>6. /\ Piece(n) \in Seq(Byte) /\ Len(Piece(n)) = n
        /\ \A k \in 1..n : Piece(n)[k] = ByteAt(sent, begins, taken + k)
    BY <1>4, PieceFacts
  <1> HIDE DEF n, l
  <1>7. StreamInv' /\ Counters'
    BY <1>1, <1>4, <1>5 DEF ReaderInv, StreamInv, Counters
  <1>8. /\ buffer' \in Seq(Byte) /\ Len(buffer') = l + n
        /\ \A k \in 1..l : buffer'[k] = buffer[k]
        /\ \A k \in 1..n : buffer'[l + k] = Piece(n)[k]
    BY ZenonT(30), <1>2, <1>4, <1>5, <1>6, Joined DEF l
  <1>9. l + n <= Larger(HeaderLen, message_len)
    BY <1>1, <1>2, <1>4 DEF Larger, HeaderLen
  <1>10. Len(buffer') > BufferSize => memory' # "sound"
    BY <1>5
  <1>11. l + n >= message_len \/ taken' >= start + ready
    BY <1>1, <1>2, <1>4, <1>5
  <1>12. taken' = start + (l + n)
    BY <1>1, <1>2, <1>4, <1>5
  <1>13. ASSUME NEW k \in 1..(l + n) PROVE buffer'[k] = ByteAt(sent, begins, start + k)
    <2>1. CASE k <= l
      BY <2>1, <1>2, <1>4, <1>8
    <2>2. CASE k > l
      <3>1. k - l \in 1..n /\ l + (k - l) = k /\ taken + (k - l) = start + k
        BY <2>2, <1>1, <1>2, <1>4
      <3>2. buffer'[l + (k - l)] = Piece(n)[k - l]
        BY <3>1, <1>8
      <3>3. Piece(n)[k - l] = ByteAt(sent, begins, taken + (k - l))
        BY <3>1, <1>6
      <3>. QED
        BY <3>1, <3>2, <3>3
    <2>. QED
      BY <2>1, <2>2, <1>2, <1>4
  <1>14. TurnInv'
    BY <1>2, <1>5, <1>8, <1>9, <1>10, <1>11, <1>12, <1>13 DEF TurnInv
  <1>. QED
    BY <1>7, <1>14 DEF ReaderInv

LEMMA ReaderAlways == Spec => []ReaderInv
  <1>1. ReaderInv /\ [Next]_vars => ReaderInv'
    BY BrokerSendStep, PeerStep, PassStep, HeaderStep, RestStep DEF Next, Reader, Broker
  <1>. QED
    BY ReaderStart, <1>1, PTL DEF Spec

-----------------------------------------------------------------------------
(* Types; and what is read in a turn is never more than the five bytes     *)
(* asked for first or the message they announce, however many turns a      *)
(* message that comes in parts takes (client_deamon.c:107-128).            *)
THEOREM ReaderTypeCorrect == Spec => []TypeOK
  <1>1. ASSUME ReaderInv PROVE TypeOK
    <2>1. sent \in Seq(Seq(Byte)) /\ begins \in Seq(Nat) /\ Len(begins) = Len(sent)
      <3>1. Message \subseteq Seq(Byte)
        BY ReaderAssumption
      <3>. QED
        BY <1>1, <3>1 DEF ReaderInv, StreamInv, Laid
    <2>. QED
      BY <1>1, <2>1 DEF ReaderInv, Counters, TurnInv, TypeOK
  <1>. QED
    BY ReaderAlways, <1>1, PTL

(* However the stream is cut, a turn that begins with a message of five    *)
(* bytes or more reads nothing behind it, hands it over complete when it   *)
(* was there, and writes behind the buffer just when that message is       *)
(* longer than the buffer (client_deamon.c:108-128, message.c:31-51).      *)
THEOREM ReaderStaysInside == Spec => []StaysInside
  <1>1. ASSUME ReaderInv PROVE StaysInside
    <2>1. SUFFICES ASSUME pc \in {"rest", "dispatch"}, NEW i \in DOMAIN sent,
                          begins[i] = start, Len(sent[i]) >= HeaderLen, ready > 0
                   PROVE  /\ start + Larger(Len(buffer), message_len) <= Ends(i)
                          /\ ready >= Len(sent[i]) /\ pc = "dispatch" => Handed = sent[i]
                          /\ Len(buffer) > BufferSize =>
                                Len(sent[i]) > BufferSize /\ memory # "sound"
                          /\ (/\ Len(sent[i]) > BufferSize
                              /\ ready >= Len(sent[i]) /\ pc = "dispatch") =>
                                memory # "sound"
      BY DEF StaysInside
    <2> DEFINE m == sent[i]
               h == Header(sent, begins, start, ready)
    <2>2. /\ i \in 1..Len(sent) /\ m \in Message /\ m \in Seq(Byte) /\ Len(m) \in Nat
          /\ Laid(sent, begins)
      BY <1>1, InStream, MessageFacts DEF ReaderInv, StreamInv, Laid
    <2>3. /\ start \in Nat /\ ready \in Nat /\ message_len \in Nat /\ buffer \in Seq(Byte)
          /\ Len(buffer) \in Nat
          /\ start + ready <= TotalOf(sent, begins) /\ message_len = MessageLen(h)
          /\ taken = start + Len(buffer)
      BY <1>1, <2>1 DEF ReaderInv, Counters, TurnInv
    <2>4. ASSUME NEW k \in 1..Len(m) PROVE ByteAt(sent, begins, start + k) = m[k]
      <3>1. start + k \in Nat /\ begins[i] < start + k /\ start + k <= begins[i] + Len(m)
        BY <2>1, <2>2, <2>3
      <3>2. ByteAt(sent, begins, start + k) = m[(start + k) - begins[i]]
        BY <3>1, <2>2, ByteOfMessage
      <3>3. (start + k) - begins[i] = k
        BY <2>1, <2>2, <2>3
      <3>. QED
        BY <3>2, <3>3
    <2>5. /\ h \in Seq(Byte) /\ Len(h) = Smaller(ready, HeaderLen) /\ Len(h) \in 1..HeaderLen
          /\ \A k \in 1..Len(h) : h[k] = ByteAt(sent, begins, start + k)
      BY <1>1, <2>1, <2>3, HeaderFacts
    <2> HIDE DEF m, h
    <2>6. \A k \in 1..Len(h) : h[k] = m[k]
      BY <2>1, <2>2, <2>4, <2>5 DEF m, HeaderLen
    <2>7. message_len <= Len(m) /\ (Len(h) = HeaderLen => message_len = Len(m))
      BY <2>1, <2>2, <2>3, <2>5, <2>6, HeaderAnnounces DEF m
    <2>8. Len(buffer) <= Larger(HeaderLen, message_len)
      BY <1>1 DEF ReaderInv, TurnInv
    <2>9. Len(buffer) <= Len(m) /\ Larger(Len(buffer), message_len) <= Len(m)
      BY <2>1, <2>2, <2>3, <2>7, <2>8 DEF Larger, HeaderLen, m
    <2>10. start + Larger(Len(buffer), message_len) <= Ends(i)
      BY <2>1, <2>2, <2>3, <2>9 DEF Ends, m, Larger
    <2>11. ASSUME ready >= Len(m), pc = "dispatch"
           PROVE  Handed = m /\ Len(buffer) = Len(m)
      <3>1. message_len = Len(m)
        BY <2>1, <2>2, <2>3, <2>5, <2>7, <2>11 DEF Smaller, HeaderLen, m
      <3>2. Len(buffer) >= message_len \/ taken >= start + ready
        BY <1>1, <2>11 DEF ReaderInv, TurnInv
      <3>3. Len(buffer) = Len(m)
        BY <2>2, <2>3, <2>9, <2>11, <3>1, <3>2
      <3>4. ASSUME NEW k \in 1..Len(m) PROVE buffer[k] = m[k]
        <4>1. buffer[k] = ByteAt(sent, begins, start + k)
          BY <1>1, <2>1, <3>3 DEF ReaderInv, TurnInv
        <4>. QED
          BY <4>1, <2>4 DEF m
      <3>5. Handed = [k \in 1..Len(m) |-> m[k]]
        BY <2>2, <3>1, <3>3, <3>4 DEF Handed
      <3>. QED
        BY <2>2, <3>3, <3>5
    <2>12. Len(buffer) > BufferSize => Len(m) > BufferSize /\ memory # "sound"
      BY <1>1, <2>2, <2>3, <2>9, ReaderAssumption DEF ReaderInv, TurnInv
    <2>. QED
      BY <2>10, <2>11, <2>12 DEF m
  <1>. QED
    BY ReaderAlways, <1>1, PTL

-----------------------------------------------------------------------------
(* The stream message by message                                           *)

(* T is not inside a message.                                              *)
Boundary(s, b, T) ==
    /\ T \in 0..TotalOf(s, b)
    /\ \A i \in 1..Len(s) : b[i] + Len(s[i]) <= T \/ T <= b[i]

BegunOf(s, b, T) ==
    CHOOSE p \in 0..Len(s) : \A i \in DOMAIN s : b[i] < T <=> i <= p

From(s, b, T) == SubSeq(s, BegunOf(s, b, T) + 1, Len(s))

(* When the stream comes as ClientDeamon assumes: what arrives and what is *)
(* taken are whole messages, only the last unread one may be short, and a  *)
(* turn has the message it began with; or it has met the end.              *)
WholeInv ==
    whole =>
        /\ Boundary(sent, begins, taken + arrived)
        /\ Boundary(sent, begins, Turn)
        /\ \A i, j \in 1..Len(sent) :
              (/\ i < j /\ begins[i] + Len(sent[i]) > taken
               /\ begins[j] < taken + arrived) => Len(sent[i]) >= HeaderLen
        /\ (pc \in {"rest", "dispatch"} /\ ready > 0) =>
              \E i \in 1..Len(sent) :
                  /\ begins[i] = start /\ message_len = Len(sent[i])
                  /\ start + message_len <= taken + arrived
                  /\ pc = "dispatch" => Len(buffer) = message_len
        /\ (pc \in {"rest", "dispatch"} /\ ready = 0) =>
              /\ buffer = <<>> /\ arrived = 0 /\ conn # "open"
              /\ taken = TotalOf(sent, begins)

LEMMA BegunAt ==
    ASSUME NEW s, NEW b, NEW T, NEW p \in 0..Len(s), Len(s) \in Nat,
           DOMAIN s = 1..Len(s), \A i \in 1..Len(s) : b[i] < T <=> i <= p
    PROVE  BegunOf(s, b, T) = p
  <1> DEFINE Good(q) == \A i \in DOMAIN s : b[i] < T <=> i <= q
  <1>1. Good(p)
    OBVIOUS
  <1>2. ASSUME NEW q \in 0..Len(s), Good(q) PROVE q = p
    <2>1. CASE q < p
      <3>1. p \in 1..Len(s) /\ ~(p <= q)
        BY <2>1
      <3>. QED
        BY <3>1, <1>2
    <2>2. CASE p < q
      <3>1. q \in 1..Len(s) /\ ~(q <= p)
        BY <2>2
      <3>. QED
        BY <3>1, <1>2
    <2>. QED
      BY <2>1, <2>2
  <1>3. BegunOf(s, b, T) = CHOOSE q \in 0..Len(s) : Good(q)
    BY DEF BegunOf
  <1> HIDE DEF Good
  <1>. QED
    BY <1>1, <1>2, <1>3

(* Where a message begins, where it ends, and the end of the stream.       *)
LEMMA BegunFacts ==
    ASSUME NEW s, NEW b, Laid(s, b)
    PROVE  /\ \A i \in 1..Len(s) : /\ BegunOf(s, b, b[i]) = i - 1
                                   /\ BegunOf(s, b, b[i] + Len(s[i])) = i
                                   /\ Boundary(s, b, b[i])
                                   /\ Boundary(s, b, b[i] + Len(s[i]))
           /\ BegunOf(s, b, TotalOf(s, b)) = Len(s)
  <1>1. Len(s) \in Nat /\ DOMAIN s = 1..Len(s) /\ TotalOf(s, b) \in Nat
    BY DEF Laid
  <1>2. \A i \in 1..Len(s) : b[i] \in Nat /\ Len(s[i]) \in Nat /\ Len(s[i]) >= 2
    BY InStream, MessageFacts
  <1>3. /\ \A i \in 1..Len(s) : b[i] + Len(s[i]) <= TotalOf(s, b)
        /\ \A i, j \in 1..Len(s) : i < j => b[i] + Len(s[i]) <= b[j]
    BY DEF Laid
  <1>4. BegunOf(s, b, TotalOf(s, b)) = Len(s)
    <2>1. ASSUME NEW k \in 1..Len(s) PROVE b[k] < TotalOf(s, b) /\ k <= Len(s)
      BY <1>1, <1>2, <1>3
    <2>2. Len(s) \in 0..Len(s)
      BY <1>1
    <2>. QED
      BY <1>1, <2>1, <2>2, BegunAt
  <1>5. ASSUME NEW i \in 1..Len(s)
        PROVE  /\ BegunOf(s, b, b[i]) = i - 1
               /\ BegunOf(s, b, b[i] + Len(s[i])) = i
               /\ Boundary(s, b, b[i])
               /\ Boundary(s, b, b[i] + Len(s[i]))
    <2>1. /\ i - 1 \in 0..Len(s) /\ i \in 0..Len(s) /\ i \in Int
      BY <1>1
    <2>2. ASSUME NEW k \in 1..Len(s)
          PROVE  /\ b[k] < b[i] <=> k <= i - 1
                 /\ b[k] < b[i] + Len(s[i]) <=> k <= i
                 /\ b[k] + Len(s[k]) <= b[i] \/ b[i] <= b[k]
                 /\ b[k] + Len(s[k]) <= b[i] + Len(s[i]) \/ b[i] + Len(s[i]) <= b[k]
      <3>1. CASE k = i
        BY <3>1, <1>1, <1>2
      <3>2. CASE k < i
        BY <3>2, <1>1, <1>2, <1>3
      <3>3. CASE i < k
        BY <3>3, <1>1, <1>2, <1>3
      <3>. QED
        BY <1>1, <3>1, <3>2, <3>3
    <2>3. BegunOf(s, b, b[i]) = i - 1
      BY <1>1, <2>1, <2>2, BegunAt
    <2>4. BegunOf(s, b, b[i] + Len(s[i])) = i
      BY <1>1, <2>1, <2>2, BegunAt
    <2>5. b[i] \in 0..TotalOf(s, b) /\ b[i] + Len(s[i]) \in 0..TotalOf(s, b)
      BY <1>1, <1>2, <1>3
    <2>. QED
      BY <2>2, <2>3, <2>4, <2>5 DEF Boundary
  <1>. QED
    BY <1>4, <1>5

(* A boundary is the end of the stream or the beginning of a message.      *)
LEMMA BoundaryIs ==
    ASSUME NEW s, NEW b, Laid(s, b), NEW T, Boundary(s, b, T), T # TotalOf(s, b)
    PROVE  \E i \in 1..Len(s) : b[i] = T
  <1>1. T \in Nat /\ TotalOf(s, b) \in Nat /\ T + 1 \in 1..TotalOf(s, b)
    BY DEF Boundary, Laid
  <1>2. PICK i \in 1..Len(s) : b[i] < T + 1 /\ T + 1 <= b[i] + Len(s[i])
    BY <1>1 DEF Laid
  <1>3. b[i] \in Nat /\ Len(s[i]) \in Nat
    BY InStream
  <1>4. b[i] + Len(s[i]) <= T \/ T <= b[i]
    BY DEF Boundary
  <1>. QED
    BY <1>1, <1>2, <1>3, <1>4

LEMMA SameSeq ==
    ASSUME NEW a \in Seq(Message), NEW b \in Seq(Message), Len(a) = Len(b),
           \A k \in 1..Len(a) : a[k] = b[k]
    PROVE  a = b
  OBVIOUS

LEMMA SuffixFacts ==
    ASSUME NEW s \in Seq(Message)
    PROVE  /\ SubSeq(s, Len(s) + 1, Len(s)) = <<>>
           /\ \A i \in 1..Len(s) : /\ SubSeq(s, i, Len(s)) # <<>>
                                   /\ Head(SubSeq(s, i, Len(s))) = s[i]
                                   /\ Tail(SubSeq(s, i, Len(s))) = SubSeq(s, i + 1, Len(s))
           /\ \A m \in Message, p \in 0..Len(s) :
                 SubSeq(Append(s, m), p + 1, Len(s) + 1)
                   = Append(SubSeq(s, p + 1, Len(s)), m)
  <1>1. SubSeq(s, Len(s) + 1, Len(s)) = <<>>
    OBVIOUS
  <1>2. ASSUME NEW i \in 1..Len(s)
        PROVE  /\ SubSeq(s, i, Len(s)) # <<>>
               /\ Head(SubSeq(s, i, Len(s))) = s[i]
               /\ Tail(SubSeq(s, i, Len(s))) = SubSeq(s, i + 1, Len(s))
    BY SMTT(30)
  <1>3. ASSUME NEW m \in Message, NEW p \in 0..Len(s)
        PROVE  SubSeq(Append(s, m), p + 1, Len(s) + 1)
                 = Append(SubSeq(s, p + 1, Len(s)), m)
    <2> DEFINE t == Append(s, m)
               u == SubSeq(s, p + 1, Len(s))
               v == SubSeq(t, p + 1, Len(s) + 1)
               n == Len(s) - p
    <2>1. /\ t \in Seq(Message) /\ Len(t) = Len(s) + 1 /\ t[Len(s) + 1] = m
          /\ \A k \in 1..Len(s) : t[k] = s[k]
      OBVIOUS
    <2>2. n \in Nat /\ u \in Seq(Message) /\ Len(u) = n /\ \A k \in 1..n : u[k] = s[p + k]
      OBVIOUS
    <2> HIDE DEF t
    <2>3. v \in Seq(Message) /\ Len(v) = n + 1 /\ \A k \in 1..(n + 1) : v[k] = t[p + k]
      BY <2>1
    <2> HIDE DEF u, v
    <2>4. /\ Append(u, m) \in Seq(Message) /\ Len(Append(u, m)) = n + 1
          /\ Append(u, m)[n + 1] = m /\ \A k \in 1..n : Append(u, m)[k] = u[k]
      BY <2>2
    <2>5. ASSUME NEW k \in 1..(n + 1) PROVE v[k] = Append(u, m)[k]
      <3>1. CASE k = n + 1
        <4>1. p + k = Len(s) + 1
          BY <3>1
        <4>. QED
          BY <3>1, <4>1, <2>1, <2>3, <2>4
      <3>2. CASE k \in 1..n
        <4>1. p + k \in 1..Len(s)
          BY <3>2
        <4>. QED
          BY <3>2, <4>1, <2>1, <2>2, <2>3, <2>4
      <3>. QED
        BY <2>2, <3>1, <3>2
    <2>6. v = Append(u, m)
      BY <2>2, <2>3, <2>4, <2>5, SameSeq
    <2>. QED
      BY <2>6 DEF t, u, v
  <1>. QED
    BY <1>1, <1>2, <1>3

(* A message that is sent is the last of those from T on.                  *)
LEMMA FromAdded ==
    ASSUME NEW s, NEW b, Laid(s, b), NEW m \in Message, NEW T, Boundary(s, b, T)
    PROVE  LET t == Append(s, m)
               c == Append(b, TotalOf(s, b))
           IN  /\ Boundary(t, c, T)
               /\ From(t, c, T) = Append(From(s, b, T), m)
  <1> DEFINE t == Append(s, m)
             c == Append(b, TotalOf(s, b))
             L == Len(s) + 1
             p == BegunOf(s, b, T)
  <1>1. /\ Laid(t, c) /\ TotalOf(t, c) >= TotalOf(s, b) /\ TotalOf(t, c) \in Nat
        /\ TotalOf(s, b) \in Nat /\ T \in 0..TotalOf(s, b)
    BY MessageAdded DEF Laid, Boundary
  <1>2. /\ s \in Seq(Message) /\ b \in Seq(Nat) /\ Len(b) = Len(s) /\ Len(s) \in Nat
        /\ DOMAIN s = 1..Len(s)
    BY DEF Laid
  <1>3. /\ t \in Seq(Message) /\ Len(t) = L /\ DOMAIN t = 1..L
        /\ t[L] = m /\ c[L] = TotalOf(s, b)
        /\ \A i \in 1..Len(s) : t[i] = s[i] /\ c[i] = b[i]
    BY <1>1, <1>2
  <1>4. p \in 0..Len(s) /\ \A i \in 1..Len(s) : b[i] < T <=> i <= p
    <2>1. CASE T = TotalOf(s, b)
      <3>1. p = Len(s)
        BY <2>1, BegunFacts
      <3>2. \A i \in 1..Len(s) : b[i] < T
        <4>1. ASSUME NEW i \in 1..Len(s) PROVE b[i] < T
          <5>1. b[i] \in Nat /\ Len(s[i]) \in Nat /\ Len(s[i]) >= 2
            BY InStream, MessageFacts
          <5>2. b[i] + Len(s[i]) <= T
            BY <2>1 DEF Laid
          <5>. QED
            BY <5>1, <5>2, <1>1
        <4>. QED
          BY <4>1
      <3>. QED
        BY <3>1, <3>2, <1>2
    <2>2. CASE T # TotalOf(s, b)
      <3>1. PICK i \in 1..Len(s) : b[i] = T
        BY <2>2, BoundaryIs
      <3>2. p = i - 1
        BY <3>1, BegunFacts
      <3>3. ASSUME NEW k \in 1..Len(s) PROVE b[k] < T <=> k <= p
        <4>1. /\ b[k] \in Nat /\ b[i] \in Nat /\ Len(s[k]) \in Nat /\ Len(s[i]) \in Nat
              /\ Len(s[k]) >= 2 /\ Len(s[i]) >= 2
          BY InStream, MessageFacts
        <4>2. /\ k < i => b[k] + Len(s[k]) <= b[i]
              /\ i < k => b[i] + Len(s[i]) <= b[k]
          BY DEF Laid
        <4>3. k < i \/ k = i \/ i < k
          OBVIOUS
        <4>. QED
          BY <3>1, <3>2, <4>1, <4>2, <4>3
      <3>4. p \in 0..Len(s)
        BY <3>2, <1>2
      <3>. QED
        BY <3>3, <3>4
    <2>. QED
      BY <2>1, <2>2
  <1> HIDE DEF t, c, p
  <1>5. \A i \in 1..L : i = L \/ i \in 1..Len(s)
    BY <1>2
  <1>6. BegunOf(t, c, T) = p
    <2>1. ASSUME NEW i \in 1..L PROVE c[i] < T <=> i <= p
      <3>1. CASE i = L
        BY <3>1, <1>1, <1>2, <1>3, <1>4
      <3>2. CASE i \in 1..Len(s)
        BY <3>2, <1>3, <1>4
      <3>. QED
        BY <1>5, <3>1, <3>2
    <2>2. p \in 0..L /\ L \in Nat
      BY <1>2, <1>4
    <2>. QED
      BY <2>1, <2>2, <1>3, BegunAt
  <1>7. From(t, c, T) = Append(From(s, b, T), m)
    BY <1>2, <1>3, <1>4, <1>6, SuffixFacts DEF From, t, p
  <1>8. Boundary(t, c, T)
    <2>1. ASSUME NEW i \in 1..L PROVE c[i] + Len(t[i]) <= T \/ T <= c[i]
      <3>1. CASE i = L
        BY <3>1, <1>1, <1>3
      <3>2. CASE i \in 1..Len(s)
        BY <3>2, <1>3 DEF Boundary
      <3>. QED
        BY <1>5, <3>1, <3>2
    <2>2. T \in 0..TotalOf(t, c)
      BY <1>1
    <2>. QED
      BY <2>1, <2>2, <1>3 DEF Boundary
  <1>. QED
    BY <1>7, <1>8 DEF t, c

LEMMA WholeStart == Init => WholeInv
  <1>1. SUFFICES ASSUME Init PROVE WholeInv
    OBVIOUS
  <1>2. sent = <<>> /\ Len(sent) = 0 /\ TotalOf(sent, begins) = 0
    BY <1>1 DEF Init, TotalOf
  <1>3. Boundary(sent, begins, 0)
    BY <1>2 DEF Boundary
  <1>4. pc = "wait" /\ taken = 0 /\ arrived = 0 /\ taken + arrived = 0 /\ Turn = 0
    BY <1>1 DEF Init, Turn
  <1>. QED
    BY <1>2, <1>3, <1>4 DEF WholeInv

LEMMA WholeBrokerSend ==
    ASSUME ReaderInv, WholeInv, BrokerSend
    PROVE  WholeInv'
  <1>1. SUFFICES ASSUME whole PROVE WholeInv'
    BY DEF BrokerSend, WholeInv
  <1>2. PICK m \in Message : sent' = Append(sent, m)
    BY DEF BrokerSend
  <1>3. begins' = Append(begins, TotalOf(sent, begins))
    BY StreamMeaning DEF BrokerSend
  <1>4. Laid(sent, begins)
    BY DEF ReaderInv, StreamInv
  <1>5. /\ conn = "open"
        /\ UNCHANGED <<whole, conn, arrived, taken, pc, buffer, message_len, start, ready>>
    BY DEF BrokerSend, turnVars
  <1>6. Turn' = Turn
    BY <1>5 DEF Turn
  <1>7. /\ Len(sent) \in Nat /\ Len(sent') = Len(sent) + 1
        /\ TotalOf(sent, begins) \in Nat
        /\ begins'[Len(sent) + 1] = TotalOf(sent, begins)
        /\ \A i \in 1..Len(sent) : sent'[i] = sent[i] /\ begins'[i] = begins[i]
    <2>1. sent \in Seq(Message) /\ begins \in Seq(Nat) /\ Len(begins) = Len(sent)
          /\ TotalOf(sent, begins) \in Nat
      BY <1>4 DEF Laid
    <2>. QED
      BY <2>1, <1>2, <1>3
  <1>8. Boundary(sent, begins, taken + arrived) /\ Boundary(sent, begins, Turn)
    BY <1>1 DEF WholeInv
  <1>9. Boundary(sent', begins', taken + arrived) /\ Boundary(sent', begins', Turn)
    BY <1>2, <1>3, <1>4, <1>8, FromAdded
  <1>10. ASSUME NEW i \in 1..Len(sent'), NEW j \in 1..Len(sent'), i < j,
                begins'[i] + Len(sent'[i]) > taken, begins'[j] < taken + arrived
         PROVE  Len(sent'[i]) >= HeaderLen
    <2>1. i \in 1..Len(sent)
      BY <1>7, <1>10
    <2>2. j # Len(sent) + 1
      <3>1. taken + arrived \in 0..TotalOf(sent, begins)
        BY <1>8 DEF Boundary
      <3>. QED
        BY <3>1, <1>7, <1>10
    <2>3. j \in 1..Len(sent)
      BY <2>2, <1>7
    <2>. QED
      BY <2>1, <2>3, <1>1, <1>7, <1>10 DEF WholeInv
  <1>11. (pc \in {"rest", "dispatch"} /\ ready > 0) =>
              \E i \in 1..Len(sent') :
                  /\ begins'[i] = start /\ message_len = Len(sent'[i])
                  /\ start + message_len <= taken + arrived
                  /\ pc = "dispatch" => Len(buffer) = message_len
    <2>1. SUFFICES ASSUME pc \in {"rest", "dispatch"} /\ ready > 0
                   PROVE \E i \in 1..Len(sent') :
                            /\ begins'[i] = start /\ message_len = Len(sent'[i])
                            /\ start + message_len <= taken + arrived
                            /\ pc = "dispatch" => Len(buffer) = message_len
      OBVIOUS
    <2>2. PICK i \in 1..Len(sent) :
              /\ begins[i] = start /\ message_len = Len(sent[i])
              /\ start + message_len <= taken + arrived
              /\ pc = "dispatch" => Len(buffer) = message_len
      BY <1>1, <2>1 DEF WholeInv
    <2>3. i \in 1..Len(sent')
      BY <1>7
    <2>. QED
      BY <2>2, <2>3, <1>7
  <1>12. ~(pc \in {"rest", "dispatch"} /\ ready = 0)
    BY <1>1, <1>5 DEF WholeInv
  <1>. QED
    BY <1>5, <1>6, <1>9, <1>10, <1>11, <1>12 DEF WholeInv

LEMMA WholeArrive ==
    ASSUME ReaderInv, WholeInv, Arrive
    PROVE  WholeInv'
  <1>1. SUFFICES ASSUME whole PROVE WholeInv'
    BY DEF Arrive, WholeInv, peerVars
  <1>2. UNCHANGED <<whole, sent, begins, conn, taken, pc, buffer, message_len, start, ready>>
    BY DEF Arrive, peerVars, turnVars
  <1>3. Turn' = Turn
    BY <1>2 DEF Turn
  <1>4. PICK k \in DOMAIN sent :
            Spaced /\ begins[k] = taken + arrived /\ arrived' = arrived + Len(sent[k])
    BY <1>1 DEF Arrive, Portions
  <1>5. k \in 1..Len(sent) /\ Laid(sent, begins) /\ DOMAIN sent = 1..Len(sent)
    BY DEF ReaderInv, StreamInv, Laid
  <1>6. /\ arrived \in Nat /\ taken \in Nat
        /\ \A i \in 1..Len(sent) : /\ begins[i] \in Nat /\ Len(sent[i]) \in Nat
                                   /\ Len(sent[i]) >= 2
    BY <1>5, InStream, MessageFacts DEF ReaderInv, Counters
  <1>7. taken + arrived' = begins[k] + Len(sent[k])
    BY <1>4, <1>5, <1>6
  <1>8. Boundary(sent, begins, taken + arrived') /\ Boundary(sent, begins, Turn)
    BY <1>1, <1>5, <1>7, BegunFacts DEF WholeInv
  <1>9. ASSUME NEW i \in 1..Len(sent), NEW j \in 1..Len(sent), i < j,
               begins[i] + Len(sent[i]) > taken, begins[j] < taken + arrived'
        PROVE  Len(sent[i]) >= HeaderLen
    <2>1. begins[i] + Len(sent[i]) <= begins[j]
      BY <1>5, <1>9 DEF Laid
    <2>2. ~(k < j)
      <3>1. k < j => begins[k] + Len(sent[k]) <= begins[j]
        BY <1>5 DEF Laid
      <3>. QED
        BY <3>1, <1>5, <1>6, <1>7, <1>9
    <2>3. j < k => begins[j] + Len(sent[j]) <= begins[k]
      BY <1>5 DEF Laid
    <2>4. begins[i] < taken + arrived
      BY SMTT(30), <2>1, <2>2, <2>3, <1>4, <1>5, <1>6
    <2>5. Ends(i) > taken
      BY <1>9, StreamMeaning
    <2>. QED
      BY <2>4, <2>5, <1>4, <1>5 DEF Spaced
  <1>10. /\ arrived' >= arrived
         /\ (pc \in {"rest", "dispatch"} /\ ready = 0) => FALSE
    <2>1. SUFFICES ASSUME pc \in {"rest", "dispatch"} /\ ready = 0 PROVE FALSE
      BY <1>4, <1>5, <1>6
    <2>2. taken = TotalOf(sent, begins) /\ arrived = 0
      BY <1>1, <2>1 DEF WholeInv
    <2>3. begins[k] + Len(sent[k]) <= TotalOf(sent, begins)
      BY <1>5 DEF Laid
    <2>. QED
      BY <2>2, <2>3, <1>4, <1>5, <1>6
  <1>11. (pc \in {"rest", "dispatch"} /\ ready > 0) =>
              \E i \in 1..Len(sent) :
                  /\ begins[i] = start /\ message_len = Len(sent[i])
                  /\ start + message_len <= taken + arrived'
                  /\ pc = "dispatch" => Len(buffer) = message_len
    <2>1. /\ start \in Nat /\ message_len \in Nat /\ arrived' \in Nat
      BY <1>4, <1>5, <1>6 DEF ReaderInv, Counters
    <2>2. SUFFICES ASSUME pc \in {"rest", "dispatch"} /\ ready > 0
                   PROVE  \E i \in 1..Len(sent) :
                              /\ begins[i] = start /\ message_len = Len(sent[i])
                              /\ start + message_len <= taken + arrived'
                              /\ pc = "dispatch" => Len(buffer) = message_len
      OBVIOUS
    <2>3. PICK i \in 1..Len(sent) :
              /\ begins[i] = start /\ message_len = Len(sent[i])
              /\ start + message_len <= taken + arrived
              /\ pc = "dispatch" => Len(buffer) = message_len
      BY <1>1, <2>2 DEF WholeInv
    <2>4. start + message_len <= taken + arrived'
      BY <2>1, <2>3, <1>6, <1>10
    <2>. QED
      BY <2>3, <2>4
  <1>. QED
    BY <1>2, <1>3, <1>8, <1>9, <1>10, <1>11 DEF WholeInv

LEMMA WholePass ==
    ASSUME ReaderInv, WholeInv,
           PeerCloses \/ PeerResets \/ Crash \/ UNCHANGED vars \/ EpollWait \/ Dispatch
    PROVE  WholeInv'
  <1>1. UNCHANGED <<whole, sent, begins, taken, arrived>>
    BY DEF PeerCloses, PeerResets, Crash, vars, EpollWait, Dispatch, peerVars
  <1>2. CASE PeerCloses \/ PeerResets \/ Crash \/ UNCHANGED vars
    <2>1. /\ UNCHANGED <<pc, start, ready, buffer, message_len>>
          /\ conn' # conn => conn' # "open"
      BY <1>2 DEF PeerCloses, PeerResets, Crash, vars, peerVars, turnVars
    <2>2. Turn' = Turn
      BY <1>1, <2>1 DEF Turn
    <2>. QED
      BY <1>1, <2>1, <2>2 DEF WholeInv
  <1>3. CASE EpollWait \/ Dispatch
    <2>1. pc \in {"wait", "dispatch"} /\ pc' \in {"wait", "recv"}
      BY <1>3 DEF EpollWait, Dispatch
    <2>2. Turn' = Turn
      BY <1>1, <2>1 DEF Turn
    <2>. QED
      BY <1>1, <2>1, <2>2 DEF WholeInv
  <1>. QED
    BY <1>2, <1>3

LEMMA WholeFails ==
    ASSUME ReaderInv, WholeInv, ReceiveFails
    PROVE  WholeInv' /\ (whole => Turn' = Turn)
  <1>1. UNCHANGED <<whole, sent, begins, taken, arrived>>
    BY DEF ReceiveFails, peerVars
  <1>2. pc \in {"recv", "rest"} /\ arrived = 0 /\ pc' = "wait"
    BY DEF ReceiveFails
  <1>3. whole /\ pc = "rest" => taken = start
    <2>1. SUFFICES ASSUME whole, pc = "rest" PROVE taken = start
      OBVIOUS
    <2>2. /\ start \in Nat /\ ready \in Nat /\ taken \in Nat /\ taken = start + Len(buffer)
          /\ Len(buffer) \in Nat /\ Len(buffer) < message_len /\ message_len \in Nat
      BY <2>1 DEF ReaderInv, Counters, TurnInv
    <2>3. CASE ready = 0
      BY <2>1, <2>2, <2>3 DEF WholeInv
    <2>4. CASE ready > 0
      <3>1. start + message_len <= taken + arrived
        BY <2>1, <2>4 DEF WholeInv
      <3>. QED
        BY <3>1, <1>2, <2>2
    <2>. QED
      BY <2>2, <2>3, <2>4
  <1>4. whole => Turn' = Turn
    BY <1>1, <1>2, <1>3 DEF Turn
  <1>. QED
    BY <1>1, <1>2, <1>4 DEF WholeInv

(* The message at a boundary with something unread behind it has arrived,  *)
(* and when it is short nothing else has.                                  *)
LEMMA NextMessage ==
    ASSUME ReaderInv, WholeInv, whole, Turn = taken, arrived > 0
    PROVE  \E i \in 1..Len(sent) :
               /\ begins[i] = taken /\ Len(sent[i]) <= arrived
               /\ Len(sent[i]) < HeaderLen => arrived = Len(sent[i])
  <1>1. /\ Laid(sent, begins) /\ Boundary(sent, begins, taken)
        /\ Boundary(sent, begins, taken + arrived)
        /\ arrived \in Nat /\ taken \in Nat /\ TotalOf(sent, begins) \in Nat
    BY DEF ReaderInv, StreamInv, Counters, WholeInv, Laid
  <1>2. taken + arrived <= TotalOf(sent, begins)
    BY <1>1 DEF Boundary
  <1>3. PICK i \in 1..Len(sent) : begins[i] = taken
    BY <1>1, <1>2, BoundaryIs
  <1>4. \A k \in 1..Len(sent) : /\ begins[k] \in Nat /\ Len(sent[k]) \in Nat
                                /\ Len(sent[k]) >= 2
    BY <1>1, InStream, MessageFacts
  <1>5. Len(sent[i]) <= arrived
    <2>1. begins[i] + Len(sent[i]) <= taken + arrived \/ taken + arrived <= begins[i]
      BY <1>1 DEF Boundary
    <2>. QED
      BY <2>1, <1>1, <1>3, <1>4
  <1>6. ASSUME Len(sent[i]) < HeaderLen PROVE arrived = Len(sent[i])
    <2>1. SUFFICES ASSUME arrived > Len(sent[i]) PROVE FALSE
      BY <1>1, <1>4, <1>5
    <2>2. taken + Len(sent[i]) + 1 \in 1..TotalOf(sent, begins)
      BY <2>1, <1>1, <1>2, <1>4
    <2>3. PICK j \in 1..Len(sent) : /\ begins[j] < taken + Len(sent[i]) + 1
                                    /\ taken + Len(sent[i]) + 1 <= begins[j] + Len(sent[j])
      BY <2>2, <1>1 DEF Laid
    <2>4. j < i => begins[j] + Len(sent[j]) <= begins[i]
      BY <1>1 DEF Laid
    <2>5. i < j
      BY <2>3, <2>4, <1>1, <1>3, <1>4
    <2>6. begins[i] + Len(sent[i]) > taken /\ begins[j] < taken + arrived
      BY <2>1, <2>3, <1>1, <1>3, <1>4
    <2>7. Len(sent[i]) >= HeaderLen
      BY <2>5, <2>6 DEF WholeInv
    <2>. QED
      BY <2>7, <1>6, <1>4 DEF HeaderLen
  <1>. QED
    BY <1>3, <1>5, <1>6

(* The length decoded from a message that is there, short or not.          *)
LEMMA WholeAnnounces ==
    ASSUME NEW m \in Message, NEW h \in Seq(Byte), Len(h) = Smaller(Len(m), HeaderLen),
           \A k \in 1..Len(h) : h[k] = m[k]
    PROVE  MessageLen(h) = Len(m)
  <1>1. m \in Seq(Byte) /\ Len(m) \in Nat /\ Len(m) >= 2
    BY MessageFacts
  <1>2. Len(h) \in Nat /\ Len(h) <= Len(m)
    BY <1>1 DEF Smaller, HeaderLen
  <1> DEFINE g == SubSeq(m, 1, Len(h))
  <1>3. g \in Seq(Byte) /\ Len(g) = Len(h) /\ \A k \in 1..Len(h) : g[k] = m[k]
    BY <1>1, <1>2
  <1>4. g = h
    BY <1>3
  <1>5. 1 + (Index(h) + 1) + RemainLen(h) = Len(m)
    BY <1>4, AnnounceAssumption DEF Announces
  <1>. QED
    BY <1>5, DigitFacts DEF MessageLen

LEMMA WholeHeader ==
    ASSUME ReaderInv, WholeInv, ReceiveHeader
    PROVE  WholeInv'
  <1>1. SUFFICES ASSUME whole PROVE WholeInv'
    BY DEF ReceiveHeader, WholeInv, peerVars
  <1> DEFINE n == Smaller(arrived, HeaderLen)
  <1>2. /\ arrived \in Nat /\ taken \in Nat /\ Laid(sent, begins)
        /\ TotalOf(sent, begins) \in Nat
    BY DEF ReaderInv, Counters, StreamInv, Laid
  <1>3. n \in 0..arrived /\ n \in Nat
    BY <1>2 DEF Smaller, HeaderLen
  <1>4. /\ taken' = taken + n /\ arrived' = arrived - n
        /\ buffer' = Piece(n) /\ message_len' = MessageLen(buffer')
        /\ pc' = IF message_len' > n THEN "rest" ELSE "dispatch"
        /\ start' = taken /\ ready' = arrived
        /\ UNCHANGED <<whole, sent, begins, conn>>
        /\ pc = "recv" /\ (arrived > 0 \/ Eof)
    BY DEF ReceiveHeader, Take, peerVars
  <1>5. /\ Piece(n) \in Seq(Byte) /\ Len(Piece(n)) = n
        /\ \A k \in 1..n : Piece(n)[k] = ByteAt(sent, begins, taken + k)
    BY <1>3, PieceFacts
  <1>6. Turn = taken
    BY <1>4 DEF Turn
  <1>7. pc' = "rest" => Turn' = taken
    BY <1>4 DEF Turn
  <1>8. pc' = "dispatch" => Turn' = taken + n
    BY <1>4 DEF Turn
  <1>9. pc' \in {"rest", "dispatch"} /\ taken' + arrived' = taken + arrived
    BY <1>2, <1>3, <1>4
  <1>10. Boundary(sent, begins, taken + arrived) /\ Boundary(sent, begins, taken)
    BY <1>1, <1>6 DEF WholeInv
  <1> HIDE DEF n
  <1>11. ASSUME NEW i \in 1..Len(sent), NEW j \in 1..Len(sent), i < j,
                begins[i] + Len(sent[i]) > taken', begins[j] < taken' + arrived'
         PROVE  Len(sent[i]) >= HeaderLen
    <2>1. begins[i] \in Nat /\ Len(sent[i]) \in Nat
      BY <1>2, InStream
    <2>2. begins[i] + Len(sent[i]) > taken /\ begins[j] < taken + arrived
      BY <2>1, <1>2, <1>3, <1>4, <1>9, <1>11
    <2>. QED
      BY <2>2, <1>1, <1>11 DEF WholeInv
  <1>12. CASE arrived = 0
    <2>1. n = 0 /\ taken' = taken /\ arrived' = 0 /\ ready' = 0
      <3>1. n = 0
        BY <1>3, <1>12
      <3>2. taken' = taken + n /\ arrived' = arrived - n /\ ready' = arrived
        BY <1>4
      <3>. QED
        BY <3>1, <3>2, <1>2, <1>12
    <2>2. buffer' = <<>>
      BY <2>1, <1>4, <1>5
    <2>3. conn # "open" /\ taken = TotalOf(sent, begins)
      BY <1>2, <1>4, <1>12, StreamMeaning DEF Eof, UnderWay
    <2>4. Turn' = taken
      BY <2>1, <1>2, <1>7, <1>8, <1>9
    <2>. QED
      BY <1>2, <1>4, <1>9, <1>10, <1>11, <1>12, <2>1, <2>2, <2>3, <2>4 DEF WholeInv
  <1>13. CASE arrived > 0
    <2>1. PICK i \in 1..Len(sent) :
              /\ begins[i] = taken /\ Len(sent[i]) <= arrived
              /\ Len(sent[i]) < HeaderLen => arrived = Len(sent[i])
      BY <1>1, <1>6, <1>13, NextMessage
    <2>2. sent[i] \in Message /\ Len(sent[i]) \in Nat /\ begins[i] \in Nat
      BY <1>2, InStream
    <2>3. n = Smaller(Len(sent[i]), HeaderLen) /\ n <= Len(sent[i])
      BY <2>1, <2>2, <1>2 DEF n, Smaller, HeaderLen
    <2>4. ASSUME NEW k \in 1..n PROVE Piece(n)[k] = sent[i][k]
      <3>1. taken + k \in Nat /\ begins[i] < taken + k /\ taken + k <= begins[i] + Len(sent[i])
        BY <2>1, <2>2, <2>3, <1>2, <1>3
      <3>2. ByteAt(sent, begins, taken + k) = sent[i][(taken + k) - begins[i]]
        BY <3>1, <1>2, ByteOfMessage
      <3>3. (taken + k) - begins[i] = k
        BY <2>1, <1>2, <1>3
      <3>. QED
        BY <3>2, <3>3, <1>5
    <2>5. message_len' = Len(sent[i])
      BY <2>2, <2>3, <2>4, <1>4, <1>5, WholeAnnounces
    <2>6. taken + message_len' <= taken + arrived
      BY <2>1, <2>2, <2>5, <1>2
    <2>7. pc' = "dispatch" => n = message_len' /\ Turn' = begins[i] + Len(sent[i])
      <3>1. SUFFICES ASSUME pc' = "dispatch"
                     PROVE  n = message_len' /\ Turn' = begins[i] + Len(sent[i])
        OBVIOUS
      <3>2. ~(message_len' > n)
        BY <3>1, <1>4
      <3>3. n = message_len'
        BY <3>2, <2>2, <2>3, <2>5, <1>3
      <3>4. Turn' = taken + n
        BY <3>1, <1>8
      <3>. QED
        BY <3>3, <3>4, <2>1, <2>5
    <2>8. Boundary(sent, begins, Turn')
      BY <2>7, <1>2, <1>7, <1>9, <1>10, BegunFacts
    <2>9. ready' > 0 /\ ready' # 0 /\ Len(buffer') = n
      BY <1>2, <1>4, <1>5, <1>13
    <2>10. \E k \in 1..Len(sent) :
               /\ begins[k] = start' /\ message_len' = Len(sent[k])
               /\ start' + message_len' <= taken' + arrived'
               /\ pc' = "dispatch" => Len(buffer') = message_len'
      BY <2>1, <2>5, <2>6, <2>7, <2>9, <1>4, <1>9
    <2>. QED
      BY <2>8, <2>9, <2>10, <1>4, <1>9, <1>10, <1>11 DEF WholeInv
  <1>. QED
    BY <1>2, <1>12, <1>13

LEMMA WholeRest ==
    ASSUME ReaderInv, WholeInv, ReceiveRest
    PROVE  WholeInv'
  <1>1. SUFFICES ASSUME whole PROVE WholeInv'
    BY DEF ReceiveRest, WholeInv, peerVars
  <1> DEFINE n == Smaller(arrived, Asked)
             l == Len(buffer)
  <1>2. /\ arrived \in Nat /\ taken \in Nat /\ Laid(sent, begins) /\ message_len \in Nat
        /\ TotalOf(sent, begins) \in Nat /\ start \in Nat /\ ready \in Nat
    BY DEF ReaderInv, Counters, StreamInv, Laid
  <1>3. /\ pc = "rest" /\ buffer \in Seq(Byte) /\ l \in Nat /\ l < message_len
        /\ taken = start + l
    BY DEF ReaderInv, TurnInv, ReceiveRest
  <1>4. /\ n \in 0..arrived /\ n \in Nat /\ n = Smaller(arrived, message_len - l)
    BY <1>2, <1>3 DEF Smaller, Asked
  <1>5. /\ taken' = taken + n /\ arrived' = arrived - n
        /\ UNCHANGED <<whole, sent, begins, conn, message_len, start, ready>>
        /\ buffer' = buffer \o Piece(n) /\ pc' = "dispatch"
    BY DEF ReceiveRest, Take, peerVars
  <1>6. Piece(n) \in Seq(Byte) /\ Len(Piece(n)) = n
    BY <1>4, PieceFacts
  <1>7. Turn = start /\ taken' + arrived' = taken + arrived
    BY <1>2, <1>3, <1>4, <1>5 DEF Turn
  <1>8. Turn' = taken'
    BY <1>5 DEF Turn
  <1>9. Boundary(sent, begins, taken + arrived) /\ Boundary(sent, begins, start)
    BY <1>1, <1>7 DEF WholeInv
  <1>10. buffer' \in Seq(Byte) /\ Len(buffer') = l + n
    BY <1>3, <1>5, <1>6, Joined
  <1> HIDE DEF n, l
  <1>11. ASSUME NEW i \in 1..Len(sent), NEW j \in 1..Len(sent), i < j,
                begins[i] + Len(sent[i]) > taken', begins[j] < taken' + arrived'
         PROVE  Len(sent[i]) >= HeaderLen
    <2>1. begins[i] \in Nat /\ Len(sent[i]) \in Nat
      BY <1>2, InStream
    <2>2. begins[i] + Len(sent[i]) > taken /\ begins[j] < taken + arrived
      <3>1. taken' = taken + n
        BY <1>5
      <3>. QED
        BY <2>1, <3>1, <1>2, <1>4, <1>7, <1>11
    <2>. QED
      BY <2>2, <1>1, <1>11 DEF WholeInv
  <1>12. CASE ready = 0
    <2>1. buffer = <<>> /\ arrived = 0 /\ conn # "open" /\ taken = TotalOf(sent, begins)
      BY <1>1, <1>3, <1>12 DEF WholeInv
    <2>2. l = 0 /\ n = 0 /\ taken' = taken /\ arrived' = 0 /\ taken = start
      BY <2>1, <1>2, <1>3, <1>4, <1>5 DEF l
    <2>3. buffer' = <<>>
      BY <2>2, <1>10
    <2>4. /\ Boundary(sent, begins, taken' + arrived') /\ Boundary(sent, begins, Turn')
          /\ taken' = TotalOf(sent, begins)
      BY <2>1, <2>2, <2>3, <1>7, <1>8, <1>9
    <2>5. /\ UNCHANGED <<sent, begins>> /\ conn' # "open" /\ ~(ready' > 0)
          /\ arrived' = 0 /\ buffer' = <<>>
      BY <2>1, <2>2, <2>3, <1>5, <1>12
    <2>6. \A i, j \in 1..Len(sent') :
              (/\ i < j /\ begins'[i] + Len(sent'[i]) > taken'
               /\ begins'[j] < taken' + arrived') => Len(sent'[i]) >= HeaderLen
      BY <2>5, <1>11
    <2>. QED
      BY <2>4, <2>5, <2>6 DEF WholeInv
  <1>13. CASE ready > 0
    <2>1. PICK i \in 1..Len(sent) : /\ begins[i] = start /\ message_len = Len(sent[i])
                                    /\ start + message_len <= taken + arrived
      BY <1>1, <1>3, <1>13 DEF WholeInv
    <2>2. n = message_len - l /\ l + n = message_len /\ taken' = start + message_len
      <3>1. message_len - l <= arrived
        BY <2>1, <1>2, <1>3
      <3>2. n = message_len - l
        BY <3>1, <1>2, <1>3, <1>4 DEF Smaller
      <3>3. taken' = taken + n
        BY <1>5
      <3>. QED
        BY <3>2, <3>3, <1>2, <1>3
    <2>3. Boundary(sent, begins, taken')
      BY <2>1, <2>2, <1>2, BegunFacts
    <2>4. Boundary(sent, begins, Turn')
      BY <2>3, <1>8
    <2>5. Len(buffer') = message_len
      BY <2>2, <1>10
    <2>6. ready # 0
      BY <1>2, <1>13
    <2>7. \E k \in 1..Len(sent) :
               /\ begins[k] = start /\ message_len = Len(sent[k])
               /\ start + message_len <= taken' + arrived'
               /\ pc' = "dispatch" => Len(buffer') = message_len
      BY <2>1, <2>5, <1>7
    <2>. QED
      BY <2>4, <2>6, <2>7, <1>5, <1>7, <1>9, <1>11 DEF WholeInv
  <1>. QED
    BY <1>2, <1>12, <1>13

LEMMA WholeAlways == Spec => [](ReaderInv /\ WholeInv)
  <1>1. ReaderInv /\ WholeInv /\ [Next]_vars => WholeInv'
    BY WholeBrokerSend, WholeArrive, WholePass, WholeFails, WholeHeader, WholeRest
      DEF Next, Reader, Broker
  <1>. QED
    BY ReaderAlways, WholeStart, <1>1, PTL DEF Spec

-----------------------------------------------------------------------------
(* The refinement                                                          *)

(* What a handler has is the message the turn began with.                  *)
HandedInv ==
    whole /\ pc = "dispatch" =>
        \/ /\ ready > 0
           /\ \E i \in 1..Len(sent) : /\ begins[i] = start
                                      /\ taken = begins[i] + Len(sent[i])
                                      /\ AbstractHanded = sent[i]
        \/ /\ ready = 0
           /\ AbstractHanded = <<>> /\ taken = start

LEMMA HandedFacts == ReaderInv /\ WholeInv => HandedInv
  <1>1. SUFFICES ASSUME ReaderInv, WholeInv, whole, pc = "dispatch"
                 PROVE  HandedInv
    BY DEF HandedInv
  <1>2. /\ Laid(sent, begins) /\ start \in Nat /\ ready \in Nat /\ message_len \in Nat
        /\ buffer \in Seq(Byte) /\ taken = start + Len(buffer)
        /\ \A k \in 1..Len(buffer) : buffer[k] = ByteAt(sent, begins, start + k)
    BY <1>1 DEF ReaderInv, StreamInv, Counters, TurnInv
  <1>3. CASE ready = 0
    <2>1. buffer = <<>>
      BY <1>1, <1>3 DEF WholeInv
    <2>2. AbstractHanded = <<>> /\ taken = start
      BY <2>1, <1>2 DEF AbstractHanded, Known, Type
    <2>. QED
      BY <2>2, <1>3 DEF HandedInv
  <1>4. CASE ready > 0
    <2>1. PICK i \in 1..Len(sent) : /\ begins[i] = start /\ message_len = Len(sent[i])
                                    /\ Len(buffer) = message_len
      BY <1>1, <1>4 DEF WholeInv
    <2>2. /\ sent[i] \in Message /\ sent[i] \in Seq(Byte) /\ Len(sent[i]) \in Nat
          /\ Len(sent[i]) >= 2 /\ begins[i] \in Nat
      BY <1>2, InStream, MessageFacts
    <2>3. ASSUME NEW k \in 1..Len(sent[i]) PROVE buffer[k] = sent[i][k]
      <3>1. start + k \in Nat /\ begins[i] < start + k /\ start + k <= begins[i] + Len(sent[i])
        BY <2>1, <2>2
      <3>2. ByteAt(sent, begins, start + k) = sent[i][(start + k) - begins[i]]
        BY <3>1, <1>2, ByteOfMessage
      <3>3. (start + k) - begins[i] = k
        BY <2>1, <2>2
      <3>. QED
        BY <3>2, <3>3, <1>2, <2>1
    <2>4. Handed = sent[i]
      <3>1. Handed = [k \in 1..Len(sent[i]) |-> sent[i][k]]
        BY <2>1, <2>2, <2>3 DEF Handed
      <3>. QED
        BY <3>1, <2>2
    <2>5. Known
      <3>1. 1 \in 1..Len(sent[i]) /\ sent[i] # <<>> /\ buffer # <<>>
        BY <2>1, <2>2
      <3>2. Type(buffer) = Type(sent[i])
        BY <3>1, <2>3 DEF Type
      <3>. QED
        BY <3>2, <2>2, AnnounceAssumption DEF Known
    <2>6. AbstractHanded = sent[i]
      BY <1>1, <2>4, <2>5 DEF AbstractHanded
    <2>7. taken = begins[i] + Len(sent[i])
      BY <1>2, <2>1
    <2>. QED
      BY <1>4, <2>1, <2>6, <2>7 DEF HandedInv
  <1>. QED
    BY <1>2, <1>3, <1>4

StreamUnread == IF whole THEN AbstractUnread ELSE <<>>
StreamHanded == IF whole THEN AbstractHanded ELSE <<>>

LEMMA UnreadMeaning ==
    /\ AbstractUnread = From(sent, begins, Turn)
    /\ AbstractUnread' = From(sent', begins', Turn')
  BY DEF AbstractUnread, From, Begun, BegunOf

(* The messages from one on, and from the one after it on.                 *)
LEMMA FromFacts ==
    ASSUME NEW s, NEW b, Laid(s, b), NEW i \in 1..Len(s)
    PROVE  /\ From(s, b, b[i]) # <<>> /\ Head(From(s, b, b[i])) = s[i]
           /\ From(s, b, b[i] + Len(s[i])) = Tail(From(s, b, b[i]))
  <1>1. s \in Seq(Message) /\ Len(s) \in Nat
    BY DEF Laid
  <1>2. From(s, b, b[i]) = SubSeq(s, i, Len(s))
    <2>1. (i - 1) + 1 = i
      OBVIOUS
    <2>. QED
      BY <2>1, BegunFacts DEF From
  <1>3. From(s, b, b[i] + Len(s[i])) = SubSeq(s, i + 1, Len(s))
    BY BegunFacts DEF From
  <1>. QED
    BY <1>1, <1>2, <1>3, SuffixFacts

(* A step of the reader that ends in the switch hands a message over, or   *)
(* has met the end of the stream; no other step changes what is unread.    *)
LEMMA StreamStep ==
    ASSUME ReaderInv, WholeInv, HandedInv, HandedInv', [Next]_vars, whole
    PROVE  \/ Stream!Next
           \/ UNCHANGED <<StreamUnread, StreamHanded>>
  <1>1. whole' = whole /\ Laid(sent, begins)
    BY DEF ReaderInv, StreamInv, Next, Crash, Reader, Broker, EpollWait, ReceiveFails,
           ReceiveHeader, ReceiveRest, Dispatch, BrokerSend, Arrive, PeerCloses,
           PeerResets, vars, peerVars
  <1>2. /\ StreamUnread = From(sent, begins, Turn) /\ StreamHanded = AbstractHanded
        /\ StreamUnread' = From(sent', begins', Turn') /\ StreamHanded' = AbstractHanded'
    BY <1>1, UnreadMeaning DEF StreamUnread, StreamHanded
  <1>3. /\ pc # "dispatch" => AbstractHanded = <<>>
        /\ pc' # "dispatch" => AbstractHanded' = <<>>
    BY DEF AbstractHanded
  <1>4. CASE BrokerSend
    <2>1. PICK m \in Message : sent' = Append(sent, m)
      BY <1>4 DEF BrokerSend
    <2>2. begins' = Append(begins, TotalOf(sent, begins))
      BY <1>4, StreamMeaning DEF BrokerSend
    <2>3. UNCHANGED <<pc, taken, start, buffer, message_len>>
      BY <1>4 DEF BrokerSend, turnVars
    <2>4. Turn' = Turn /\ AbstractHanded' = AbstractHanded
      BY <2>3 DEF Turn, AbstractHanded, Known, Handed
    <2>5. From(sent', begins', Turn') = Append(From(sent, begins, Turn), m)
      BY <2>1, <2>2, <2>4, <1>1, FromAdded DEF WholeInv
    <2>6. Stream!Send
      BY <2>4, <2>5, <1>2 DEF Stream!Send, StreamUnread, StreamHanded
    <2>. QED
      BY <2>6 DEF Stream!Next
  <1>5. CASE Arrive \/ PeerCloses \/ PeerResets \/ Crash \/ UNCHANGED vars
    <2>1. UNCHANGED <<sent, begins, pc, taken, start, buffer, message_len>>
      BY <1>5 DEF Arrive, PeerCloses, PeerResets, Crash, vars, peerVars, turnVars
    <2>2. Turn' = Turn /\ AbstractHanded' = AbstractHanded
      BY <2>1 DEF Turn, AbstractHanded, Known, Handed
    <2>. QED
      BY <2>1, <2>2, <1>2
  <1>6. CASE EpollWait \/ ReceiveFails
    <2>1. UNCHANGED <<sent, begins>> /\ pc # "dispatch" /\ pc' # "dispatch"
      BY <1>6 DEF EpollWait, ReceiveFails, peerVars
    <2>2. Turn' = Turn
      <3>1. CASE EpollWait
        BY <3>1 DEF EpollWait, Turn
      <3>2. CASE ReceiveFails
        BY <3>2, WholeFails
      <3>. QED
        BY <1>6, <3>1, <3>2
    <2>. QED
      BY <2>1, <2>2, <1>2, <1>3
  <1>7. CASE Dispatch
    <2>1. /\ UNCHANGED <<sent, begins, taken>> /\ pc = "dispatch"
          /\ pc' \in {"recv", "wait"}
      BY <1>7 DEF Dispatch, peerVars
    <2>2. Turn' = Turn
      BY <2>1 DEF Turn
    <2>3. StreamUnread' = StreamUnread /\ StreamHanded' = <<>>
      BY <2>1, <2>2, <1>2, <1>3
    <2>4. CASE AbstractHanded = <<>>
      BY <2>3, <2>4, <1>2
    <2>5. CASE AbstractHanded # <<>>
      <3>1. Stream!HandlerReturns
        BY <2>3, <2>5, <1>2 DEF Stream!HandlerReturns, StreamUnread, StreamHanded
      <3>. QED
        BY <3>1 DEF Stream!Next
    <2>. QED
      BY <2>4, <2>5
  <1>8. CASE ReceiveHeader \/ ReceiveRest
    <2>1. /\ UNCHANGED <<sent, begins>> /\ pc \in {"recv", "rest"}
          /\ pc' \in {"rest", "dispatch"} /\ start' = Turn
      BY <1>8 DEF ReceiveHeader, ReceiveRest, peerVars, Turn
    <2>2. StreamHanded = <<>>
      BY <2>1, <1>2, <1>3
    <2>3. CASE pc' # "dispatch"
      <3>1. Turn' = Turn
        BY <2>1, <2>3 DEF Turn
      <3>. QED
        BY <2>1, <2>2, <2>3, <3>1, <1>2, <1>3
    <2>4. CASE pc' = "dispatch"
      <3>1. Turn' = taken'
        BY <2>4 DEF Turn
      <3>2. CASE ready' = 0 /\ AbstractHanded' = <<>> /\ taken' = start'
        BY <2>1, <2>2, <3>1, <3>2, <1>2
      <3>3. ASSUME NEW i \in 1..Len(sent'), begins'[i] = start',
                   taken' = begins'[i] + Len(sent'[i]), AbstractHanded' = sent'[i]
            PROVE  Stream!HandOver
        <4>1. i \in 1..Len(sent) /\ begins[i] = Turn /\ Turn' = begins[i] + Len(sent[i])
          BY <2>1, <3>1, <3>3
        <4>2. /\ From(sent, begins, Turn) # <<>>
              /\ Head(From(sent, begins, Turn)) = sent[i]
              /\ From(sent, begins, Turn') = Tail(From(sent, begins, Turn))
          BY <4>1, <1>1, FromFacts
        <4>3. /\ StreamUnread # <<>> /\ StreamHanded' = Head(StreamUnread)
              /\ StreamUnread' = Tail(StreamUnread)
          BY <4>2, <2>1, <3>3, <1>2
        <4>. QED
          BY <4>3, <2>2 DEF Stream!HandOver, StreamUnread, StreamHanded
      <3>. QED
        BY <1>1, <2>4, <3>2, <3>3 DEF HandedInv, Stream!Next
    <2>. QED
      BY <2>3, <2>4
  <1>. QED
    BY <1>4, <1>5, <1>6, <1>7, <1>8 DEF Next, Reader, Broker

(* When the stream comes as ClientDeamon assumes, the reading loop hands   *)
(* every message over once, complete and in order                          *)
(* (client_deamon.c:106-178).                                              *)
THEOREM ReaderImplementsStream == Spec => RefinesMessageStream
  <1>1. Init => Stream!Init
    <2>1. SUFFICES ASSUME Init PROVE Stream!Init
      OBVIOUS
    <2>2. sent = <<>> /\ pc = "wait"
      BY <2>1 DEF Init
    <2>3. AbstractUnread = <<>>
      BY <2>2 DEF AbstractUnread
    <2>4. AbstractHanded = <<>>
      BY <2>2 DEF AbstractHanded
    <2>. QED
      BY <2>3, <2>4 DEF Stream!Init
  <1>2. ASSUME ReaderInv, WholeInv, HandedInv, HandedInv', [Next]_vars
        PROVE  [Stream!Next]_(Stream!vars)
    <2>1. CASE whole
      BY <1>2, <2>1, StreamStep DEF Stream!vars, StreamUnread, StreamHanded
    <2>2. CASE ~whole
      <3>1. whole' = whole
        BY <1>2 DEF Next, Crash, Reader, Broker, EpollWait, ReceiveFails,
             ReceiveHeader, ReceiveRest, Dispatch, BrokerSend, Arrive, PeerCloses,
             PeerResets, vars, peerVars
      <3>. QED
        BY <2>2, <3>1 DEF Stream!vars
    <2>. QED
      BY <2>1, <2>2
  <1>. QED
    BY <1>1, <1>2, WholeAlways, HandedFacts, PTL
      DEF Spec, RefinesMessageStream, Stream!Spec
=============================================================================
