------------------------- MODULE RemainLengthProofs -------------------------
(***************************************************************************)
(* What the length field of RemainLength holds and what is read back from  *)
(* it, for every length and every byte that may follow.                    *)
(***************************************************************************)
EXTENDS RemainLength, TLAPS

(* The weights, spelled out.                                               *)
LEMMA WeightFacts ==
    /\ Weight[0] = 1 /\ Weight[1] = 128 /\ Weight[2] = 16384
    /\ Weight[3] = 2097152 /\ Weight[4] = 268435456
  BY SMT DEF Weight, FieldMax

LEMMA WeightNat ==
    /\ Weight[0] = 1
    /\ \A k \in 0..FieldMax : Weight[k] \in Nat \ {0}
  BY SMT DEF Weight, FieldMax

LEMMA WeightOrder ==
    ASSUME NEW j \in 0..4, NEW k \in 0..4, j <= k
    PROVE  Weight[j] <= Weight[k]
  <1>1. j = 0 \/ j = 1 \/ j = 2 \/ j = 3 \/ j = 4
    OBVIOUS
  <1>2. k = 0 \/ k = 1 \/ k = 2 \/ k = 3 \/ k = 4
    OBVIOUS
  <1>. QED
    BY <1>1, <1>2, WeightFacts, SMT

(* A turn of the encoding loop moves on to the next weight.                *)
LEMMA DivStep ==
    ASSUME NEW n \in Nat, NEW k \in 0..3
    PROVE  /\ (n \div Weight[k]) \div 128 = n \div Weight[k + 1]
           /\ n \div Weight[k] \in Nat
           /\ n \div Weight[k + 1] > 0 <=> n >= Weight[k + 1]
  <1>0. k = 0 \/ k = 1 \/ k = 2 \/ k = 3
    OBVIOUS
  <1>1. CASE k = 0
    BY <1>1, WeightFacts, SMT
  <1>2. CASE k = 1
    BY <1>2, WeightFacts, SMT
  <1>3. CASE k = 2
    BY <1>3, WeightFacts, SMT
  <1>4. CASE k = 3
    BY <1>4, WeightFacts, SMT
  <1>. QED
    BY <1>0, <1>1, <1>2, <1>3, <1>4

(* A turn of the decoding loop adds one digit.                             *)
LEMMA DigitStep ==
    ASSUME NEW n \in Nat, NEW k \in 0..3
    PROVE  /\ n % Weight[k + 1] = (n % Weight[k]) + ((n \div Weight[k]) % 128) * Weight[k]
           /\ (n \div Weight[k]) % 128 \in 0..127
           /\ Weight[k] * 128 = Weight[k + 1]
  <1>0. k = 0 \/ k = 1 \/ k = 2 \/ k = 3
    OBVIOUS
  <1>1. CASE k = 0
    BY <1>1, WeightFacts, SMT
  <1>2. CASE k = 1
    BY <1>2, WeightFacts, SMT
  <1>3. CASE k = 2
    BY <1>3, WeightFacts, SMT
  <1>4. CASE k = 3
    BY <1>4, WeightFacts, SMT
  <1>. QED
    BY <1>0, <1>1, <1>2, <1>3, <1>4

(***************************************************************************)
(* While the field is written: what is left, and the digits so far.        *)
(***************************************************************************)
Digits ==
    \A k \in 1..Len(encode) : k <= FieldMax =>
        encode[k] = ((input \div Weight[k - 1]) % 128)
                        + (IF input >= Weight[k] THEN 128 ELSE 0)

Writing ==
    pc = "encode" =>
        /\ Len(encode) <= FieldMax => length = input \div Weight[Len(encode)]
        /\ Len(encode) >= 1 => length > 0
        /\ Len(encode) > FieldMax => input >= Weight[FieldMax]

(* While it is read: the receive buffer, and the digits summed up so far.  *)
Received ==
    pc = "decode" =>
        \A k \in 1..FieldMax :
            /\ k > given => buffer[k] = 0
            /\ k <= given /\ k <= Len(encode) => buffer[k] = encode[k]

Reading ==
    pc = "decode" =>
        /\ index < Len(encode) /\ index <= Seen
        /\ base = Weight[index]
        /\ length = input % Weight[index]

FieldInv ==
    /\ TypeOK /\ Digits /\ Writing /\ ShortestField /\ Received /\ Reading
    /\ RoundTrip /\ Truncated

LEMMA FieldInit == Init => FieldInv
  <1>. SUFFICES ASSUME Init PROVE FieldInv
    OBVIOUS
  <1>1. TypeOK
    BY LengthAssumption DEF Init, TypeOK, Byte, Zeros, FieldMax
  <1>2. input \div Weight[0] = input
    BY LengthAssumption, WeightNat DEF Init
  <1>. QED
    BY <1>1, <1>2 DEF Init, FieldInv, Digits, Writing, ShortestField, Received,
                      Reading, RoundTrip, Truncated, FieldMax

LEMMA EncodeStep ==
    ASSUME FieldInv, EncodeByte
    PROVE  FieldInv'
  <1>. USE DEF FieldMax
  <1>0. PICK n \in Nat : n = Len(encode)
    BY DEF FieldInv, TypeOK
  <1>. DEFINE more == length \div 128 > 0
              byte == (length % 128) + (IF more THEN 128 ELSE 0)
  <1>1. /\ pc = "encode" /\ encode \in Seq(Byte) /\ input \in Nat /\ length \in Nat
    BY DEF FieldInv, EncodeByte, TypeOK
  <1>2. byte \in Byte
    BY <1>1 DEF Byte
  <1>3. /\ encode' = Append(encode, byte) /\ length' = length \div 128
        /\ input' = input
        /\ Len(encode') = n + 1
        /\ encode'[n + 1] = byte
        /\ \A k \in 1..n : encode'[k] = encode[k]
        /\ encode' \in Seq(Byte)
    BY <1>0, <1>1, <1>2 DEF EncodeByte, More
  <1>4. pc' = IF more THEN "encode" ELSE IF n + 1 > FieldMax THEN "refused" ELSE "sent"
    BY <1>3 DEF EncodeByte, More
  <1>5. TypeOK'
    <2>1. length' \in Nat
      BY <1>1, <1>3
    <2>. QED
      BY <1>3, <1>4, <2>1 DEF FieldInv, TypeOK, EncodeByte, decodeVars
  <1>8. ASSUME n \in 0..4 PROVE length = input \div Weight[n]
    BY <1>0, <1>1, <1>8 DEF FieldInv, Writing
  <1>9. ASSUME n >= 1 PROVE length > 0
    BY <1>0, <1>1, <1>9 DEF FieldInv, Writing
  <1>10. ASSUME n > 4 PROVE input >= Weight[4]
    BY <1>0, <1>1, <1>10 DEF FieldInv, Writing
  <1>6. CASE n <= 3
    <2>1. n \in 0..3
      BY <1>6
    <2>2. length = input \div Weight[n]
      BY <1>8, <2>1
    <2>3. /\ length' = input \div Weight[n + 1]
          /\ more <=> input >= Weight[n + 1]
      BY ZenonT(30), <1>1, <1>3, <2>1, <2>2, DivStep
    <2>4. Digits'
      <3>1. ASSUME NEW k \in 1..(n + 1), k <= FieldMax
            PROVE  encode'[k] = ((input \div Weight[k - 1]) % 128)
                                  + (IF input >= Weight[k] THEN 128 ELSE 0)
        <4>1. CASE k = n + 1
          BY <1>1, <1>3, <2>1, <2>2, <2>3, <4>1
        <4>2. CASE k \in 1..n
          BY <1>0, <1>1, <1>3, <3>1, <4>2 DEF FieldInv, Digits
        <4>. QED
          BY <1>1, <4>1, <4>2
      <3>. QED
        BY <1>3, <3>1 DEF FieldInv, Digits
    <2>5. Writing'
      BY <1>3, <1>4, <2>1, <2>3 DEF FieldInv, Writing
    <2>6. ShortestField'
      <3>1. n >= 1 => input >= Weight[n]
        <4>1. CASE n >= 1
          <5>1. n - 1 \in 0..3 /\ length > 0
            BY <1>9, <2>1, <4>1
          <5>2. length = input \div Weight[(n - 1) + 1]
            BY <1>1, <2>2
          <5>3. input >= Weight[(n - 1) + 1]
            BY <1>1, <5>1, <5>2, DivStep
          <5>. QED
            BY <1>1, <5>3
        <4>. QED
          BY <4>1
      <3>2. Weight[n + 1] \in Nat
        BY <2>1, WeightNat
      <3>. QED
        BY <1>1, <1>3, <1>4, <2>1, <2>3, <3>1, <3>2 DEF FieldInv, ShortestField
    <2>. QED
      BY <1>4, <1>5, <2>4, <2>5, <2>6 DEF FieldInv, Received, Reading, RoundTrip, Truncated
  <1>7. CASE n > 3
    <2>1. input >= Weight[FieldMax]
      <3>1. CASE n = 4
        <4>1. length > 0 /\ length = input \div Weight[3 + 1]
          BY <1>8, <1>9, <3>1
        <4>2. input >= Weight[3 + 1]
          BY <1>1, <4>1, DivStep
        <4>. QED
          BY <4>2
      <3>2. CASE n > 4
        BY <1>10, <3>2
      <3>. QED
        BY <1>1, <1>7, <3>1, <3>2
    <2>2. Digits'
      BY <1>0, <1>1, <1>3, <1>7 DEF FieldInv, Digits
    <2>3. Writing'
      BY <1>1, <1>3, <1>4, <1>7, <2>1 DEF FieldInv, Writing
    <2>4. ShortestField'
      BY <1>1, <1>3, <1>4, <1>7, <2>1 DEF FieldInv, ShortestField
    <2>. QED
      BY <1>1, <1>4, <1>5, <1>7, <2>2, <2>3, <2>4 DEF FieldInv, Received, Reading, RoundTrip, Truncated
  <1>. QED
    BY <1>1, <1>6, <1>7

LEMMA DeliverStep ==
    ASSUME FieldInv, Deliver
    PROVE  FieldInv'
  <1>. USE DEF FieldMax
  <1>1. /\ pc = "sent" /\ pc' = "decode" /\ length' = 0 /\ index' = 0 /\ base' = 1
        /\ input' = input /\ encode' = encode /\ input \in Nat
        /\ Len(encode) \in 1..4 /\ encode \in Seq(Byte)
    BY DEF FieldInv, Deliver, TypeOK, ShortestField
  <1>2. PICK n \in 0..4, filler \in Fillers :
          /\ given' = n
          /\ buffer' = [k \in 1..4 |->
                            IF k > n THEN 0
                            ELSE IF k <= Len(encode) THEN encode[k] ELSE filler]
          /\ asked' = encode_len' /\ encode_len' \in 0..4
    BY DEF Deliver, Cut
  <1>3. ASSUME NEW k \in 1..4
        PROVE  buffer'[k] \in Byte
    <2>1. k <= Len(encode) => encode[k] \in Byte
      BY <1>1
    <2>2. filler \in Byte /\ 0 \in Byte
      BY <1>2, LengthAssumption DEF Byte
    <2>. QED
      BY <1>2, <2>1, <2>2
  <1>4. TypeOK'
    BY <1>1, <1>2, <1>3 DEF FieldInv, TypeOK
  <1>5. Received'
    BY <1>1, <1>2 DEF FieldInv, Received
  <1>6. Reading'
    <2>1. input % Weight[0] = 0
      BY <1>1, WeightNat
    <2>2. Seen' >= 0
      BY <1>2 DEF Seen
    <2>. QED
      BY <1>1, <2>1, <2>2, WeightNat DEF FieldInv, Reading
  <1>7. Digits' /\ Writing' /\ ShortestField'
    BY <1>1 DEF FieldInv, Digits, Writing, ShortestField
  <1>. QED
    BY <1>1, <1>4, <1>5, <1>6, <1>7 DEF FieldInv, RoundTrip, Truncated

(* What the loop of remain_length_decode sees at index: a digit of the     *)
(* length, with the top bit when it is not the last, or a byte that was    *)
(* never received.                                                         *)
LEMMA NextByte ==
    ASSUME FieldInv, pc = "decode", index < encode_len
    PROVE  /\ index \in 0..3 /\ index < asked /\ buffer[index + 1] \in Byte
           /\ index = given => buffer[index + 1] = 0
           /\ index < given =>
                 /\ index < Seen
                 /\ buffer[index + 1] = ((input \div Weight[index]) % 128)
                                      + (IF input >= Weight[index + 1] THEN 128 ELSE 0)
           /\ index = given \/ index < given
  <1>1. /\ index \in 0..4 /\ asked \in 0..4 /\ encode_len = asked /\ given \in 0..4
        /\ buffer \in [1..4 -> Byte] /\ encode \in Seq(Byte)
    BY DEF FieldInv, TypeOK, FieldMax
  <1>2. index < Len(encode) /\ index <= Seen
    BY DEF FieldInv, Reading
  <1>3. index \in 0..3 /\ index < asked
    BY <1>1
  <1>4. index <= given
    BY <1>1, <1>2 DEF Seen
  <1>5. ASSUME index = given PROVE buffer[index + 1] = 0
    BY <1>1, <1>3, <1>5 DEF FieldInv, Received, FieldMax
  <1>6. ASSUME index < given
        PROVE  /\ index < Seen
               /\ buffer[index + 1] = ((input \div Weight[index]) % 128)
                                    + (IF input >= Weight[index + 1] THEN 128 ELSE 0)
    <2>1. PICK k \in 1..4 : k = index + 1
      BY <1>3
    <2>2. k <= given /\ k \in 1..Len(encode) /\ k - 1 = index
      BY <1>1, <1>2, <1>6, <2>1
    <2>3. buffer[k] = encode[k]
      BY <2>2 DEF FieldInv, Received, FieldMax
    <2>4. encode[k] = ((input \div Weight[k - 1]) % 128)
                        + (IF input >= Weight[k] THEN 128 ELSE 0)
      BY <2>1, <2>2 DEF FieldInv, Digits, FieldMax
    <2>5. index < Seen
      BY <1>1, <1>3, <1>6 DEF Seen
    <2>. QED
      BY <2>1, <2>2, <2>3, <2>4, <2>5
  <1>7. buffer[index + 1] \in Byte
    BY <1>1, <1>3
  <1>. QED
    BY <1>1, <1>3, <1>4, <1>5, <1>6, <1>7

LEMMA DecodeStep ==
    ASSUME FieldInv, DecodeByte
    PROVE  FieldInv'
  <1>1. /\ pc = "decode" /\ index < encode_len /\ buffer[index + 1] >= 128
        /\ length' = length + (buffer[index + 1] % 128) * base
        /\ base' = base * 128 /\ index' = index + 1
        /\ UNCHANGED <<pc, input, encode, given, asked, buffer, encode_len>>
    BY DEF DecodeByte
  <1>2. PICK i \in 0..3 : i = index
    BY <1>1, NextByte
  <1>3. i < Seen /\ i < asked /\ i < given
    BY <1>1, <1>2, NextByte
  <1>4. /\ input \in Nat /\ given \in 0..4 /\ asked \in 0..4 /\ encode \in Seq(Byte)
        /\ encode_len = asked
    BY <1>1 DEF FieldInv, TypeOK, FieldMax
  <1>5. (input \div Weight[i]) % 128 \in 0..127
    BY <1>4, DigitStep
  <1>6. buffer[i + 1] = ((input \div Weight[i]) % 128)
                          + (IF input >= Weight[i + 1] THEN 128 ELSE 0)
    BY <1>1, <1>2, <1>3, NextByte
  <1>7. /\ input >= Weight[i + 1]
        /\ buffer[i + 1] % 128 = (input \div Weight[i]) % 128
    <2>1. PICK d \in 0..127 : d = (input \div Weight[i]) % 128
      BY <1>5
    <2>2. (d + 128) % 128 = d /\ ~(d >= 128)
      BY <2>1
    <2>3. CASE input >= Weight[i + 1]
      <3>1. buffer[i + 1] = d + 128
        BY <1>6, <2>1, <2>3
      <3>. QED
        BY <2>1, <2>2, <2>3, <3>1
    <2>4. CASE ~(input >= Weight[i + 1])
      <3>1. buffer[i + 1] = d + 0
        BY <1>6, <2>1, <2>4
      <3>2. buffer[i + 1] = d
        BY <3>1
      <3>. QED
        BY <1>1, <1>2, <2>2, <3>2
    <2>. QED
      BY <2>3, <2>4
  <1>8. base = Weight[i] /\ length = input % Weight[i]
    BY <1>1, <1>2 DEF FieldInv, Reading
  <1>9. base' = Weight[i + 1] /\ length' = input % Weight[i + 1]
    BY <1>1, <1>2, <1>4, <1>7, <1>8, DigitStep
  <1>10. i + 1 < Len(encode)
    <2>1. PICK n \in 1..4 : n = Len(encode)
      BY <1>1, <1>4 DEF FieldInv, ShortestField, FieldMax
    <2>2. input < Weight[n]
      BY <1>1, <2>1 DEF FieldInv, ShortestField
    <2>3. i < n
      BY <1>1, <1>2, <2>1 DEF FieldInv, Reading
    <2>4. n # i + 1
      BY <1>4, <1>7, <2>2, WeightNat DEF FieldMax
    <2>. QED
      BY <2>1, <2>3, <2>4
  <1>11. Reading'
    <2>1. i + 1 <= Seen'
      BY <1>1, <1>3, <1>4 DEF Seen
    <2>. QED
      BY <1>1, <1>2, <1>9, <1>10, <2>1 DEF Reading
  <1>12. TypeOK'
    <2>1. Weight[i + 1] \in Nat /\ input % Weight[i + 1] \in Nat
      BY <1>4, WeightNat DEF FieldMax
    <2>2. index' \in 0..FieldMax /\ index' <= encode_len'
      BY <1>1, <1>2, <1>3, <1>4 DEF FieldMax
    <2>. QED
      BY <1>1, <1>9, <2>1, <2>2 DEF FieldInv, TypeOK
  <1>. QED
    BY <1>1, <1>11, <1>12 DEF FieldInv, Digits, Writing, ShortestField, Received,
                              RoundTrip, Truncated

LEMMA ReturnStep ==
    ASSUME FieldInv, DecodeReturns
    PROVE  FieldInv'
  <1>1. /\ pc = "decode" /\ pc' = "decoded" /\ encode_len' = index + 1
        /\ UNCHANGED <<input, encode, given, asked, buffer, index, base>>
    BY DEF DecodeReturns
  <1>2. PICK i \in 0..4 : i = index
    BY DEF FieldInv, TypeOK, FieldMax
  <1>3. PICK n \in 1..4 : n = Len(encode)
    BY <1>1 DEF FieldInv, ShortestField, FieldMax
  <1>4. /\ input \in Nat /\ given \in 0..4 /\ asked \in 0..4 /\ encode_len = asked
    BY <1>1 DEF FieldInv, TypeOK, FieldMax
  <1>5. /\ i < n /\ i <= Seen /\ base = Weight[i] /\ length = input % Weight[i]
    BY <1>1, <1>2, <1>3 DEF FieldInv, Reading
  <1>6. PICK seen \in 0..4 : seen = Seen /\ seen' = Seen'
    BY <1>1, <1>4 DEF Seen
  <1>7. input % Weight[i] \in Nat /\ input % Weight[i] <= input
    BY <1>4, WeightNat DEF FieldMax
  <1>8. CASE i < seen
    <2>1. i \in 0..3 /\ i < asked /\ i < given
      BY <1>4, <1>6, <1>8 DEF Seen
    <2>2. buffer[i + 1] < 128 /\ length' = length + buffer[i + 1] * base
      BY <1>1, <1>2, <1>4, <2>1 DEF DecodeReturns
    <2>3. buffer[i + 1] = ((input \div Weight[i]) % 128)
                            + (IF input >= Weight[i + 1] THEN 128 ELSE 0)
      BY <1>1, <1>2, <1>4, <2>1, NextByte
    <2>4. (input \div Weight[i]) % 128 \in 0..127
      BY <1>4, <2>1, DigitStep
    <2>5. input < Weight[i + 1] /\ buffer[i + 1] = (input \div Weight[i]) % 128
      <3>0. Weight[i + 1] \in Nat
        BY <2>1, WeightNat DEF FieldMax
      <3>1. PICK d \in 0..127 : d = (input \div Weight[i]) % 128
        BY <2>4
      <3>2. CASE input >= Weight[i + 1]
        <4>1. buffer[i + 1] = d + 128
          BY <2>3, <3>1, <3>2
        <4>2. ~(d + 128 < 128)
          BY <3>1
        <4>. QED
          BY <2>2, <4>1, <4>2
      <3>3. CASE ~(input >= Weight[i + 1])
        <4>1. buffer[i + 1] = d + 0
          BY <2>3, <3>1, <3>3
        <4>2. buffer[i + 1] = d
          BY <4>1
        <4>. QED
          BY <1>4, <3>0, <3>1, <3>3, <4>2
      <3>. QED
        BY <3>2, <3>3
    <2>6. length' = input % Weight[i + 1]
      BY <1>4, <1>5, <2>1, <2>2, <2>5, DigitStep
    <2>7. length' = input
      BY <1>4, <2>1, <2>5, <2>6, WeightNat DEF FieldMax
    <2>8. n = i + 1
      <3>1. CASE n > i + 1
        <4>1. PICK m \in 1..3 : m = n - 1 /\ m >= i + 1
          BY <2>1, <3>1
        <4>2. input >= Weight[m]
          BY <1>1, <1>3, <4>1 DEF FieldInv, ShortestField
        <4>3. Weight[i + 1] <= Weight[m] /\ Weight[i + 1] \in Nat /\ Weight[m] \in Nat
          BY <2>1, <4>1, WeightOrder, WeightNat DEF FieldMax
        <4>. QED
          BY <1>4, <2>5, <4>2, <4>3
      <3>. QED
        BY <1>5, <2>1, <3>1
    <2>9. TypeOK'
      BY <1>1, <1>2, <1>4, <2>1, <2>7 DEF FieldInv, TypeOK, FieldMax
    <2>10. RoundTrip' /\ Truncated'
      <3>1. Seen' >= Len(encode') /\ ~(Seen' < Len(encode'))
        BY <1>1, <1>3, <1>6, <1>8, <2>8
      <3>. QED
        BY <1>1, <1>2, <1>3, <2>7, <2>8, <3>1 DEF RoundTrip, Truncated
    <2>. QED
      BY <1>1, <2>9, <2>10 DEF FieldInv, Digits, Writing, ShortestField, Received,
                               Reading
  <1>9. CASE i = seen
    <2>1. length' = length
      <3>1. CASE i < asked
        <4>1. i = given /\ i \in 0..3
          BY <1>4, <1>6, <1>9, <3>1 DEF Seen
        <4>2. buffer[i + 1] = 0
          BY <1>1, <1>2, <1>4, <3>1, <4>1, NextByte
        <4>3. length' = length + 0 * base
          BY <1>1, <1>2, <1>4, <3>1, <4>2 DEF DecodeReturns
        <4>4. Weight[i] \in Nat
          BY <4>1, WeightNat DEF FieldMax
        <4>. QED
          BY <1>5, <1>7, <4>3, <4>4
      <3>2. CASE ~(i < asked)
        BY <1>1, <1>2, <1>4, <3>2 DEF DecodeReturns
      <3>. QED
        BY <3>1, <3>2
    <2>2. length' = input % Weight[seen] /\ length' \in Nat /\ length' <= input
      BY <1>5, <1>7, <1>9, <2>1
    <2>3. TypeOK'
      BY <1>1, <1>2, <1>4, <2>2 DEF FieldInv, TypeOK, FieldMax
    <2>4. Seen' = seen /\ Seen' < Len(encode') /\ ~(Seen' >= Len(encode'))
      BY <1>1, <1>3, <1>5, <1>6, <1>9
    <2>5. length' + encode_len' <= input + n
      BY <1>1, <1>2, <1>4, <1>5, <2>2
    <2>6. RoundTrip' /\ Truncated'
      BY <1>1, <1>2, <1>3, <1>9, <2>2, <2>4, <2>5 DEF RoundTrip, Truncated
    <2>. QED
      BY <1>1, <2>3, <2>6 DEF FieldInv, Digits, Writing, ShortestField, Received,
                              Reading
  <1>. QED
    BY <1>5, <1>6, <1>8, <1>9

LEMMA FieldStutter ==
    ASSUME FieldInv, UNCHANGED vars
    PROVE  FieldInv'
  BY DEF FieldInv, vars, TypeOK, Digits, Writing, ShortestField, Received, Reading,
         RoundTrip, Truncated, Seen

LEMMA FieldAlways == Spec => []FieldInv
  <1>1. FieldInv /\ [Next]_vars => FieldInv'
    BY EncodeStep, DeliverStep, DecodeStep, ReturnStep, FieldStutter DEF Next
  <1>. QED
    BY FieldInit, <1>1, PTL DEF Spec

(* Types, and the reader stays within the four bytes (message.c:36-45).    *)
THEOREM TypeCorrect == Spec => []TypeOK
  BY FieldAlways, PTL DEF FieldInv

(* The field written is the shortest one, and a length is refused exactly  *)
(* when four bytes do not hold it (message.c:13-28).                       *)
THEOREM FieldIsShortest == Spec => []ShortestField
  BY FieldAlways, PTL DEF FieldInv

(* Every length that is not refused is read back, with the size of its     *)
(* field, whatever bytes follow it (message.c:9-51).                       *)
THEOREM LengthIsReadBack == Spec => []RoundTrip
  BY FieldAlways, PTL DEF FieldInv

(* A field of which only a part was seen reads as a shorter message, and   *)
(* the reader never asks for bytes behind the message (message.c:31-51,    *)
(* client_deamon.c:114-128).                                               *)
THEOREM PartIsShorter == Spec => []Truncated
  BY FieldAlways, PTL DEF FieldInv
=============================================================================
