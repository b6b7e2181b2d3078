--------------------------- MODULE CoapCodec_proofs ---------------------------
(***************************************************************************)
(* What one side writes the other reads, for messages of any options and   *)
(* values whose deltas and lengths need no field of 16 bits.               *)
(***************************************************************************)
EXTENDS CoapCodec, TLAPS, SequenceTheorems

LEMMA ByteRange == \A x : x \in Byte <=> x \in 0..255
  BY SMT DEF Byte

LEMMA BytesOf ==
  ASSUME NEW b \in Seq(Byte)
  PROVE  \A i \in 1..Len(b) : b[i] \in 0..255
<1>1. \A i \in 1..Len(b) : b[i] \in Byte
  BY SMT
<1> QED
  BY <1>1, ByteRange

------------------------------------------------------------------------------
(* The values of options.                                                  *)

\* A number of 32 bits and its bytes.
LEMMA Digits ==
  ASSUME NEW v \in Nat
  PROVE  v = (v \div 16777216) * 16777216 + ((v \div 65536) % 256) * 65536
               + ((v \div 256) % 256) * 256 + (v % 256)
<1>1. PICK q \in Nat : v \div 256 = q
  BY SMT
<1>2. PICK p \in Nat : q \div 256 = p
  BY SMT
<1>3. v \div 65536 = p /\ v \div 16777216 = p \div 256
  BY <1>1, <1>2, SMT
<1>4. v = q * 256 + (v % 256)
  BY <1>1, SMT
<1>5. q = p * 256 + (q % 256) /\ p = (p \div 256) * 256 + (p % 256)
  BY <1>2, SMT
<1>6. v = (p \div 256) * 16777216 + (p % 256) * 65536 + (q % 256) * 256 + (v % 256)
  BY <1>4, <1>5, SMT
<1> QED
  BY <1>1, <1>3, <1>6, SMT

Word(w, r) == w * 16777216 + r

LEMMA OfDigits ==
  ASSUME NEW w \in Nat, NEW r \in Nat, w <= 255, r <= 16777215
  PROVE  Word(w, r) \in Word32
<1>1. Word(w, r) \in Nat /\ Word(w, r) <= 255 * 16777216 + 16777215
  BY SMT DEF Word
<1>2. Word(w, r) \div 16777216 \in 0..255
  BY <1>1, SMT
<1> QED
  BY <1>1, <1>2, ByteRange, SMT DEF Word32

\* IntegerValue undoes IntegerBytes (Option::set_integer_value against
\* CoapOptionsSet::get_integer_value).
LEMMA IntegerRoundTrip ==
  ASSUME NEW v \in Word32
  PROVE  /\ IntegerBytes(v) \in Seq(Byte)
         /\ Len(IntegerBytes(v)) <= 4
         /\ IntegerValue(IntegerBytes(v)) = v
<1>1. v \in Nat /\ v \div 16777216 \in Byte
  BY SMT DEF Word32
<1>2. CASE v = 0
  <2>1. IntegerBytes(v) = <<>>
    BY <1>2, SMT DEF IntegerBytes
  <2>2. IntegerValue(<<>>) = 0
    BY SMT DEF IntegerValue
  <2>3. <<>> \in Seq(Byte) /\ Len(<<>>) <= 4
    BY SMT
  <2> QED
    BY <1>2, <2>1, <2>2, <2>3, Zenon
<1>3. CASE v # 0 /\ v <= 255
  <2>1. IntegerBytes(v) = <<v>>
    BY <1>1, <1>3, SMT DEF IntegerBytes
  <2>2. v \in Byte
    BY <1>1, <1>3, ByteRange, SMT
  <2> QED
    BY <2>1, <2>2, SMT DEF IntegerValue
<1>4. CASE v > 255 /\ v <= 65535
  <2>1. v \div 256 \in 0..255 /\ v % 256 \in 0..255 /\ (v \div 256) * 256 + (v % 256) = v
    BY <1>1, <1>4, SMT
  <2>2. IntegerBytes(v) = <<v \div 256, v % 256>>
    BY <1>1, <1>4, SMT DEF IntegerBytes
  <2>3. v \div 256 \in Byte /\ v % 256 \in Byte
    BY <2>1, ByteRange
  <2> QED
    BY <2>1, <2>2, <2>3, SMT DEF IntegerValue
<1>5. CASE v > 65535 /\ v <= 16777215
  <2>1. /\ v \div 65536 \in 0..255 /\ (v \div 256) % 256 \in 0..255 /\ v % 256 \in 0..255
        /\ (v \div 65536) * 65536 + ((v \div 256) % 256) * 256 + (v % 256) = v
    BY <1>1, <1>5, SMT
  <2>2. IntegerBytes(v) = <<v \div 65536, (v \div 256) % 256, v % 256>>
    BY <1>1, <1>5, SMT DEF IntegerBytes
  <2>3. v \div 65536 \in Byte /\ (v \div 256) % 256 \in Byte /\ v % 256 \in Byte
    BY <2>1, ByteRange
  <2> QED
    BY <2>1, <2>2, <2>3, SMT DEF IntegerValue
<1>6. CASE v > 16777215
  <2>1. (v \div 65536) % 256 \in 0..255 /\ (v \div 256) % 256 \in 0..255 /\ v % 256 \in 0..255
    BY <1>1, SMT
  <2>2. IntegerBytes(v) = <<v \div 16777216, (v \div 65536) % 256, (v \div 256) % 256, v % 256>>
    BY <1>1, <1>6, SMT DEF IntegerBytes
  <2>3. (v \div 65536) % 256 \in Byte /\ (v \div 256) % 256 \in Byte /\ v % 256 \in Byte
    BY <2>1, ByteRange
  <2>4. (v \div 16777216) * 16777216 + ((v \div 65536) % 256) * 65536
          + ((v \div 256) % 256) * 256 + (v % 256) = v
    BY <1>1, Digits, SMT
  <2> QED
    BY <1>1, <2>2, <2>3, <2>4, SMT DEF IntegerValue
<1> QED
  BY <1>1, <1>2, <1>3, <1>4, <1>5, <1>6, SMT

LEMMA IntegerOfBytes ==
  ASSUME NEW b \in Seq(Byte)
  PROVE  IntegerValue(b) \in Word32
<1>1. /\ Len(b) \in Nat
      /\ \A i \in 1..Len(b) : \E x \in 0..255 : x = b[i]
  BY BytesOf, SMT
<1>2. Len(b) \in Nat
  BY SMT
<1>3. CASE Len(b) = 0
  <2>1. IntegerValue(b) = Word(0, 0)
    BY <1>3, SMT DEF IntegerValue, Word
  <2> QED
    BY <2>1, OfDigits, SMT
<1>4. CASE Len(b) = 1
  <2>1. PICK x \in 0..255 : x = b[1]
    BY <1>1, <1>4, SMT
  <2>2. IntegerValue(b) = Word(0, x)
    BY <1>4, <2>1, SMT DEF IntegerValue, Word
  <2> QED
    BY <2>2, OfDigits, SMT
<1>5. CASE Len(b) = 2
  <2>1. PICK x \in 0..255 : x = b[1]
    BY <1>1, <1>5, SMT
  <2>2. PICK y \in 0..255 : y = b[2]
    BY <1>1, <1>5, SMT
  <2>3. IntegerValue(b) = Word(0, x * 256 + y)
    BY <1>5, <2>1, <2>2, SMT DEF IntegerValue, Word
  <2>4. x * 256 + y \in Nat /\ x * 256 + y <= 16777215
    BY SMT
  <2> QED
    BY <2>3, <2>4, OfDigits, SMT
<1>6. CASE Len(b) = 3
  <2>1. PICK x \in 0..255 : x = b[1]
    BY <1>1, <1>6, SMT
  <2>2. PICK y \in 0..255 : y = b[2]
    BY <1>1, <1>6, SMT
  <2>3. PICK z \in 0..255 : z = b[3]
    BY <1>1, <1>6, SMT
  <2>4. IntegerValue(b) = Word(0, x * 65536 + y * 256 + z)
    BY <1>6, <2>1, <2>2, <2>3, SMT DEF IntegerValue, Word
  <2>5. x * 65536 + y * 256 + z \in Nat /\ x * 65536 + y * 256 + z <= 16777215
    BY SMT
  <2> QED
    BY <2>4, <2>5, OfDigits, SMT
<1>7. CASE Len(b) > 3
  <2>1. PICK w \in 0..255 : w = b[1]
    BY <1>1, <1>7, SMT
  <2>2. PICK x \in 0..255 : x = b[2]
    BY <1>1, <1>7, SMT
  <2>3. PICK y \in 0..255 : y = b[3]
    BY <1>1, <1>7, SMT
  <2>4. PICK z \in 0..255 : z = b[4]
    BY <1>1, <1>7, SMT
  <2>5. IntegerValue(b) = w * 16777216 + x * 65536 + y * 256 + z
    <3>1. Len(b) # 0 /\ Len(b) # 1 /\ Len(b) # 2 /\ Len(b) # 3
      BY <1>1, <1>7, SMT
    <3> QED
      BY <2>1, <2>2, <2>3, <2>4, <3>1, SMT DEF IntegerValue
  <2>6. x * 65536 + y * 256 + z \in Nat /\ x * 65536 + y * 256 + z <= 16777215
    BY SMT
  <2>7. IntegerValue(b) = Word(w, x * 65536 + y * 256 + z)
    BY <2>5, SMT DEF Word
  <2> QED
    BY <2>6, <2>7, OfDigits, SMT
<1>8. Len(b) = 0 \/ Len(b) = 1 \/ Len(b) = 2 \/ Len(b) = 3 \/ Len(b) > 3
  <2>1. PICK n \in Nat : n = Len(b)
    BY SMT
  <2> QED
    BY <2>1, SMT
<1> QED
  BY <1>3, <1>4, <1>5, <1>6, <1>7, <1>8, Zenon

\* BlockValue undoes BlockBytes (BlockOption::encode against decode).
LEMMA BlockRoundTrip ==
  ASSUME NEW o \in BlockOption
  PROVE  /\ BlockBytes(o) \in Seq(Byte)
         /\ Len(BlockBytes(o)) <= 3
         /\ BlockValue(BlockBytes(o)) = o
<1>1. /\ o.num \in BlockNum /\ o.m \in BOOLEAN /\ o.szx \in 0..7
      /\ o = [num |-> o.num, m |-> o.m, szx |-> o.szx]
  BY Zenon DEF BlockOption
<1> DEFINE num == o.num
           szx == o.szx
           end == szx + (IF o.m THEN 8 ELSE 0)
           low == (num * 16 + end) % 256
<1>2. BlockBytes(o) = IF num = 0 /\ end = 0 THEN <<>>
                      ELSE IF num < 16 THEN <<low>>
                      ELSE IF num < 4096 THEN <<num \div 16, low>>
                      ELSE <<num \div 4096, (num \div 16) % 256, low>>
  BY SMT DEF BlockBytes
<1>3. num \in Nat /\ num <= 1048575 /\ szx \in 0..7
  BY <1>1, SMT DEF BlockNum
<1>4. PICK e \in {0, 1} : (e = 1 <=> o.m) /\ end = szx + 8 * e
  BY <1>1, <1>3, SMT
<1>5. low = (num * 16 + end) % 256
  OBVIOUS
<1> HIDE DEF num, szx, end, low
<1>6. /\ low \in 0..255 /\ low % 8 = szx /\ (low \div 8) % 2 = e
      /\ low \div 16 = num % 16
  <2>1. end \in 0..15 /\ end % 8 = szx /\ end \div 8 = e
    BY <1>3, <1>4, SMT
  <2>2. low = (num % 16) * 16 + end
    BY <1>3, <1>5, <2>1, SMT
  <2>3. PICK k \in 0..15 : k = num % 16
    BY <1>3, SMT
  <2> QED
    BY <1>3, <1>4, <2>1, <2>2, <2>3, SMT
<1>7. low \in Byte
  BY <1>6, ByteRange
<1>8. \A n : n = num => [num |-> n, m |-> (low \div 8) % 2 = 1, szx |-> low % 8] = o
  <2>1. ((low \div 8) % 2 = 1) = o.m /\ low % 8 = o.szx
    BY <1>1, <1>4, <1>6, Zenon DEF szx
  <2> QED
    BY <1>1, <2>1, Zenon DEF num
<1>9. CASE num = 0 /\ end = 0
  <2>1. szx = 0 /\ e = 0
    BY <1>3, <1>4, <1>9, SMT
  <2>2. o = [num |-> 0, m |-> FALSE, szx |-> 0]
    <3>1. o.m = FALSE
      BY <1>1, <1>4, <2>1, SMT
    <3> QED
      BY <1>1, <1>9, <2>1, <3>1, Zenon DEF num, szx
  <2>3. BlockBytes(o) = <<>>
    BY <1>2, <1>9, SMT
  <2>4. BlockValue(<<>>) = [num |-> 0, m |-> FALSE, szx |-> 0]
    BY SMT DEF BlockValue
  <2>5. <<>> \in Seq(Byte) /\ Len(<<>>) <= 3
    BY SMT
  <2> QED
    BY <2>2, <2>3, <2>4, <2>5, Zenon
<1>10. CASE num < 16 /\ ~(num = 0 /\ end = 0)
  <2>1. BlockBytes(o) = <<low>>
    BY <1>2, <1>10, SMT
  <2>2. (low \div 16) % 1048576 = num
    BY <1>3, <1>6, <1>10, SMT
  <2>3. BlockValue(<<low>>) =
          [num |-> (low \div 16) % 1048576, m |-> (low \div 8) % 2 = 1, szx |-> low % 8]
    BY SMT DEF BlockValue
  <2>4. BlockValue(<<low>>) = o
    BY <1>8, <2>2, <2>3, SMT
  <2>5. <<low>> \in Seq(Byte) /\ Len(<<low>>) <= 3
    BY <1>7, SMT
  <2> QED
    BY <2>1, <2>4, <2>5, Zenon
<1>11. CASE num >= 16 /\ num < 4096
  <2> DEFINE high == num \div 16
  <2>1. BlockBytes(o) = <<high, low>>
    <3>1. ~(num = 0 /\ end = 0) /\ ~(num < 16) /\ num < 4096
      BY <1>3, <1>11, SMT
    <3> QED
      BY <1>2, <3>1, SMT
  <2>2. high \in 0..255 /\ (low \div 16 + high * 16) % 1048576 = num
    BY <1>3, <1>6, <1>11, SMT
  <2> HIDE DEF high
  <2>3. BlockValue(<<high, low>>) =
          [num |-> (low \div 16 + high * 16) % 1048576, m |-> (low \div 8) % 2 = 1, szx |-> low % 8]
    BY SMT DEF BlockValue
  <2>4. BlockValue(<<high, low>>) = o
    BY <1>8, <2>2, <2>3, SMT
  <2>5. high \in Byte
    BY <2>2, ByteRange, SMT
  <2>6. <<high, low>> \in Seq(Byte) /\ Len(<<high, low>>) <= 3
    BY <1>7, <2>5, SMT
  <2> QED
    BY <2>1, <2>4, <2>6, Zenon
<1>12. CASE num >= 4096
  <2> DEFINE high == num \div 4096
             mid  == (num \div 16) % 256
  <2>1. BlockBytes(o) = <<high, mid, low>>
    <3>1. ~(num = 0 /\ end = 0) /\ ~(num < 16) /\ ~(num < 4096)
      BY <1>3, <1>12, SMT
    <3> QED
      BY <1>2, <3>1, SMT
  <2>2. /\ high \in 0..255 /\ mid \in 0..255
        /\ (low \div 16 + mid * 16 + high * 4096) % 1048576 = num
    <3>1. PICK q \in Nat : q = num \div 16
      BY <1>3, SMT
    <3>2. q \div 256 = high
      BY <1>3, <3>1, SMT
    <3>3. q = high * 256 + mid /\ num = q * 16 + (low \div 16)
      BY <1>3, <1>6, <3>1, <3>2, SMT
    <3>4. high \in 0..255 /\ mid \in 0..255
      BY <1>3, <3>1, SMT
    <3> QED
      BY <1>3, <1>6, <3>3, <3>4, SMT
  <2> HIDE DEF high, mid
  <2>3. BlockValue(<<high, mid, low>>) =
          [num |-> (low \div 16 + mid * 16 + high * 4096) % 1048576,
           m |-> (low \div 8) % 2 = 1, szx |-> low % 8]
    BY SMT DEF BlockValue
  <2>4. BlockValue(<<high, mid, low>>) = o
    BY <1>8, <2>2, <2>3, SMT
  <2>5. high \in Byte /\ mid \in Byte
    BY <2>2, ByteRange, SMT
  <2>6. <<high, mid, low>> \in Seq(Byte) /\ Len(<<high, mid, low>>) <= 3
    BY <1>7, <2>5, SMT
  <2> QED
    BY <2>1, <2>4, <2>6, Zenon
<1>13. (num = 0 /\ end = 0) \/ (num < 16 /\ ~(num = 0 /\ end = 0))
       \/ (num >= 16 /\ num < 4096) \/ num >= 4096
  BY <1>3, SMT
<1> QED
  BY <1>9, <1>10, <1>11, <1>12, <1>13, SMT

LEMMA BlockOfBytes ==
  ASSUME NEW b \in Seq(Byte)
  PROVE  BlockValue(b) \in BlockOption
<1>1. Len(b) \in Nat /\ \A i \in 1..Len(b) : \E x \in 0..255 : x = b[i]
  BY BytesOf, SMT
<1>2. \A num \in BlockNum, m \in BOOLEAN, szx \in 0..7 :
         [num |-> num, m |-> m, szx |-> szx] \in BlockOption
  BY Zenon DEF BlockOption
<1>3. CASE Len(b) = 0
  <2>1. BlockValue(b) = [num |-> 0, m |-> FALSE, szx |-> 0]
    BY <1>3, SMT DEF BlockValue
  <2>2. 0 \in BlockNum /\ 0 \in 0..7
    BY SMT DEF BlockNum
  <2> QED
    BY <1>2, <2>1, <2>2, Zenon
<1>4. CASE Len(b) > 0
  <2> DEFINE n   == Len(b)
             num == IF n = 1 THEN b[n] \div 16
                    ELSE IF n = 2 THEN b[n] \div 16 + b[n - 1] * 16
                    ELSE b[n] \div 16 + b[n - 1] * 16 + b[n - 2] * 4096
             low == num % 1048576
  <2>1. BlockValue(b) = [num |-> low, m |-> (b[n] \div 8) % 2 = 1, szx |-> b[n] % 8]
    BY <1>1, <1>4, SMT DEF BlockValue
  <2>2. PICK x \in 0..255 : x = b[n]
    BY <1>1, <1>4, SMT
  <2>3. \E k \in Nat : num = k
    <3>1. x \div 16 \in Nat
      BY SMT
    <3>4. (n = 1 \/ n > 1) /\ (n > 1 => n = 2 \/ n > 2) /\ (n > 2 => n # 1 /\ n # 2)
      <4>1. PICK k \in Nat : k = Len(b)
        BY SMT
      <4>2. (k > 0 => k = 1 \/ k > 1) /\ (k > 1 => k = 2 \/ k > 2) /\ (k > 2 => k # 1 /\ k # 2)
        BY SMT
      <4> QED
        BY <1>4, <4>1, <4>2, Zenon
    <3>2. CASE n = 1
      BY <2>2, <3>1, <3>2, SMT
    <3>3. CASE n > 1
      <4>1. PICK y \in 0..255 : y = b[n - 1]
        BY <1>1, <3>3, SMT
      <4>2. CASE n = 2
        <5>1. x \div 16 + y * 16 \in Nat
          BY SMT
        <5> QED
          BY <2>2, <4>1, <4>2, <5>1, SMT
      <4>3. CASE n > 2
        <5>1. PICK z \in 0..255 : z = b[n - 2]
          BY <1>1, <4>3, SMT
        <5>2. x \div 16 + y * 16 + z * 4096 \in Nat
          BY SMT
        <5> QED
          <6>1. num = b[n] \div 16 + b[n - 1] * 16 + b[n - 2] * 4096
            BY <3>4, <4>3, SMT
          <6> QED
            BY <2>2, <4>1, <5>1, <5>2, <6>1, SMT
      <4> QED
        BY <3>3, <3>4, <4>2, <4>3, Zenon
    <3> QED
      BY <3>2, <3>3, <3>4, Zenon
  <2> HIDE DEF num
  <2>4. low \in BlockNum
    BY <2>3, SMT DEF BlockNum
  <2> HIDE DEF low
  <2>5. b[n] % 8 \in 0..7
    <3>1. x % 8 \in 0..7
      BY SMT
    <3> QED
      BY <2>2, <3>1, Zenon
  <2>6. ((b[n] \div 8) % 2 = 1) \in BOOLEAN
    BY Zenon
  <2> QED
    BY <1>2, <2>1, <2>4, <2>5, <2>6, Zenon
<1> QED
  BY <1>1, <1>3, <1>4, SMT

------------------------------------------------------------------------------
(* The kinds of options, and what add_option makes of their bytes.         *)

\* The kinds of option exclude each other.
LEMMA Kinds ==
  /\ \A no \in Known : no \in Nat /\ no > 0 /\ no <= 2053
  /\ \A no \in Known : no \in Strings \/ no \in Blocks \/ no \in Shorts \/ no \in Longs
  /\ \A no \in Strings : no \notin Blocks /\ no \notin Shorts /\ no \notin Sizes
  /\ \A no \in Blocks  : no \notin Strings /\ no \notin Shorts /\ no \notin Sizes /\ no # 3
  /\ \A no \in Shorts  : no \notin Strings /\ no \notin Blocks /\ no \notin Sizes /\ no # 3
  /\ \A no \in Longs   : no \notin Strings /\ no \notin Blocks /\ no \notin Shorts /\ no # 3
  /\ Repeatable \subseteq Strings /\ 3 \notin Repeatable
  BY SMT DEF Known, Strings, Blocks, Shorts, Longs, Sizes, Repeatable

LEMMA ShortWord ==
  ASSUME NEW v \in Word16
  PROVE  v \in Word32 /\ Low16(v) = v
<1>1. v \in Nat /\ v \div 16777216 \in 0..255 /\ Low16(v) = v
  BY SMT DEF Word16, Low16
<1> QED
  BY <1>1, ByteRange, SMT DEF Word32

\* What add_option reads from the bytes of a value is the value, whatever option
\* it belongs to.
LEMMA ValueRoundTrip ==
  ASSUME NEW no \in Known, NEW v \in OptionValue(no)
  PROVE  /\ OptionBytes(no, v) \in Seq(Byte)
         /\ no \notin Strings => Len(OptionBytes(no, v)) <= 4
         /\ no \in Strings => OptionBytes(no, v) = v /\ v # <<>>
         /\ ValueOf(no, OptionBytes(no, v)) = v
         /\ Present(no, v)
<1>1. CASE no \in Strings
  <2>1. v \in Seq(Byte) /\ v # <<>>
    BY <1>1, Kinds, SMT DEF OptionValue
  <2>2. OptionBytes(no, v) = v /\ ValueOf(no, v) = v
    BY <1>1, SMT DEF OptionBytes, ValueOf
  <2>3. Present(no, v)
    BY <1>1, <2>1, Kinds, SMT DEF Present
  <2> QED
    BY <1>1, <2>1, <2>2, <2>3, Zenon
<1>2. CASE no \in Blocks
  <2>1. v \in BlockOption
    BY <1>2, Kinds, SMT DEF OptionValue
  <2>2. OptionBytes(no, v) = BlockBytes(v) /\ ValueOf(no, BlockBytes(v)) = BlockValue(BlockBytes(v))
    BY <1>2, Kinds, SMT DEF OptionBytes, ValueOf
  <2>3. Present(no, v)
    BY <1>2, Kinds, SMT DEF Present
  <2>4. Len(BlockBytes(v)) <= 4
    BY <2>1, BlockRoundTrip, SMT
  <2> QED
    BY <1>2, <2>1, <2>2, <2>3, <2>4, BlockRoundTrip, Kinds, SMT
<1>3. CASE no \in Shorts
  <2>1. v \in Word16 /\ v # 65535
    BY <1>3, Kinds, SMT DEF OptionValue
  <2>2. /\ OptionBytes(no, v) = IntegerBytes(v)
        /\ ValueOf(no, IntegerBytes(v)) = Low16(IntegerValue(IntegerBytes(v)))
    BY <1>3, Kinds, SMT DEF OptionBytes, ValueOf
  <2>3. Present(no, v)
    BY <1>3, <2>1, Kinds, SMT DEF Present
  <2>4. v \in Word32 /\ Low16(v) = v
    BY <2>1, ShortWord
  <2> QED
    BY <1>3, <2>2, <2>3, <2>4, IntegerRoundTrip, Kinds, SMT
<1>4. CASE no \in Longs
  <2>1. v \in Word32 /\ (no \in Sizes => v # 0)
    BY <1>4, Kinds, SMT DEF OptionValue
  <2>2. /\ OptionBytes(no, v) = IntegerBytes(v)
        /\ ValueOf(no, IntegerBytes(v)) = IntegerValue(IntegerBytes(v))
    BY <1>4, Kinds, SMT DEF OptionBytes, ValueOf
  <2>3. Present(no, v)
    BY <1>4, <2>1, Kinds, SMT DEF Present
  <2> QED
    BY <1>4, <2>1, <2>2, <2>3, IntegerRoundTrip, Kinds, SMT
<1> QED
  BY <1>1, <1>2, <1>3, <1>4, Kinds

\* Whatever bytes add_option is given, it keeps a value of the option.
LEMMA ValueType ==
  ASSUME NEW no \in Known, NEW b \in Seq(Byte), Present(no, ValueOf(no, b)),
         no \in Strings => b # <<>>
  PROVE  ValueOf(no, b) \in OptionValue(no)
<1>1. CASE no \in Strings
  BY <1>1, SMT DEF OptionValue, ValueOf
<1>2. CASE no \in Blocks
  BY <1>2, Kinds, BlockOfBytes, SMT DEF OptionValue, ValueOf
<1>3. CASE no \in Shorts
  <2>1. ValueOf(no, b) = Low16(IntegerValue(b))
    BY <1>3, Kinds, SMT DEF ValueOf
  <2>2. IntegerValue(b) \in Nat
    BY IntegerOfBytes, SMT DEF Word32
  <2>3. Low16(IntegerValue(b)) \in Word16
    BY <2>2, SMT DEF Word16, Low16
  <2>4. ValueOf(no, b) # 65535
    BY <1>3, SMT DEF Present
  <2> QED
    BY <1>3, <2>1, <2>3, <2>4, Kinds, SMT DEF OptionValue
<1>4. CASE no \in Longs
  <2>1. ValueOf(no, b) = IntegerValue(b) /\ ValueOf(no, b) \in Word32
    BY <1>4, Kinds, IntegerOfBytes, SMT DEF ValueOf
  <2>2. no \in Sizes => ValueOf(no, b) # 0
    BY SMT DEF Present
  <2> QED
    BY <1>4, <2>1, <2>2, Kinds, SMT DEF OptionValue
<1> QED
  BY <1>1, <1>2, <1>3, <1>4, Kinds

------------------------------------------------------------------------------
(* The code of one option.                                                 *)

LEMMA ExtensionShape ==
  ASSUME NEW n \in Nat
  PROVE  /\ Extension(n) \in Seq(Byte)
         /\ Len(Extension(n)) = ExtensionSize(Nibble(n))
         /\ ExtensionSize(Nibble(n)) \in 0..2
         /\ Nibble(n) \in 0..14
<1>1. CASE n < 13
  BY <1>1, SMT DEF Extension, ExtensionSize, Nibble
<1>2. CASE n >= 13 /\ n < 269
  <2>1. n - 13 \in Byte
    BY <1>2, ByteRange, SMT
  <2>2. ~(n < 13) /\ n < 269
    BY <1>2, SMT
  <2> QED
    BY <2>1, <2>2, SMT DEF Extension, ExtensionSize, Nibble
<1>3. CASE n >= 269
  <2>1. ((n - 269) \div 256) % 256 \in Byte /\ (n - 269) % 256 \in Byte
    BY <1>3, ByteRange, SMT
  <2>2. ~(n < 13) /\ ~(n < 269)
    BY <1>3, SMT
  <2> QED
    BY <2>1, <2>2, SMT DEF Extension, ExtensionSize, Nibble
<1> QED
  BY <1>1, <1>2, <1>3, SMT

LEMMA Concat ==
  ASSUME NEW S, NEW x \in Seq(S), NEW y \in Seq(S), NEW c, c = x \o y
  PROVE  /\ c \in Seq(S)
         /\ Len(c) = Len(x) + Len(y)
         /\ \A i \in 1..Len(x) : c[i] = x[i]
         /\ \A i \in 1..Len(y) : c[Len(x) + i] = y[i]
  BY SMT

\* The layout of an option, whatever its delta and its length are.
LEMMA CodeLayout ==
  ASSUME NEW delta \in Nat, NEW b \in Seq(Byte)
  PROVE  LET c  == EncodedOption(delta, b)
             dn == Nibble(delta)
             ln == Nibble(Len(b))
         IN  /\ c \in Seq(Byte)
             /\ Len(c) = 1 + ExtensionSize(dn) + ExtensionSize(ln) + Len(b)
             /\ c[1] = dn * 16 + ln /\ c[1] \div 16 = dn /\ c[1] % 16 = ln
             /\ \A i \in 1..ExtensionSize(dn) : c[1 + i] = Extension(delta)[i]
             /\ \A i \in 1..ExtensionSize(ln) :
                  c[1 + ExtensionSize(dn) + i] = Extension(Len(b))[i]
             /\ \A i \in 1..Len(b) : c[1 + ExtensionSize(dn) + ExtensionSize(ln) + i] = b[i]
<1> DEFINE c  == EncodedOption(delta, b)
           dn == Nibble(delta)
           ln == Nibble(Len(b))
<1>1. Len(b) \in Nat
  BY SMT
<1>2. dn \in 0..14 /\ ln \in 0..14
  BY <1>1, ExtensionShape
<1>6. /\ Extension(delta) \in Seq(Byte) /\ Len(Extension(delta)) = ExtensionSize(dn)
      /\ Extension(Len(b)) \in Seq(Byte) /\ Len(Extension(Len(b))) = ExtensionSize(ln)
  BY <1>1, ExtensionShape
<1>5. c = <<dn * 16 + ln>> \o Extension(delta) \o Extension(Len(b)) \o b
  BY Zenon DEF EncodedOption
<1> HIDE DEF c, dn, ln
<1>3. /\ dn * 16 + ln \in 0..255
      /\ (dn * 16 + ln) \div 16 = dn /\ (dn * 16 + ln) % 16 = ln
  <2>1. \A x, y \in 0..14 : /\ x * 16 + y \in 0..255
                           /\ (x * 16 + y) \div 16 = x /\ (x * 16 + y) % 16 = y
    BY SMT
  <2> QED
    BY <1>2, <2>1, Zenon
<1>4. dn * 16 + ln \in Byte
  BY <1>3, ByteRange, Zenon
<1> QED
  <2> DEFINE h == dn * 16 + ln
             x == Extension(delta)
             y == Extension(Len(b))
  <2>1. h \in Byte /\ c = <<h>> \o x \o y \o b
    BY <1>4, <1>5, Zenon
  <2>a. x \in Seq(Byte) /\ y \in Seq(Byte)
    BY <1>6, Zenon
  <2> HIDE DEF h, x, y
  <2>2. /\ c \in Seq(Byte)
        /\ Len(c) = 1 + Len(x) + Len(y) + Len(b)
        /\ c[1] = h
        /\ \A i \in 1..Len(x) : c[1 + i] = x[i]
        /\ \A i \in 1..Len(y) : c[1 + Len(x) + i] = y[i]
        /\ \A i \in 1..Len(b) : c[1 + Len(x) + Len(y) + i] = b[i]
    BY <2>1, <2>a, SMT
  <2> QED
    BY <1>3, <1>6, <2>2, Zenon DEF h, x, y, c, dn, ln

------------------------------------------------------------------------------
(* Messages and their options.                                             *)

LEMMA OptionsWith ==
  ASSUME NEW o, IsOptionsSet(o), NEW no \in Known, NEW vs \in Seq(OptionValue(no)),
         no \in Repeatable \/ Len(vs) <= 1,
         NEW oo, oo = [o EXCEPT ![no] = vs]
  PROVE  /\ IsOptionsSet(oo)
         /\ oo[no] = vs
         /\ \A other \in Known : other # no => oo[other] = o[other]
<1>1. o = [other \in Known |-> o[other]]
  BY Zenon DEF IsOptionsSet
<1>2. oo = [other \in Known |-> oo[other]] /\ oo[no] = vs
      /\ \A other \in Known : other # no => oo[other] = o[other]
  BY <1>1, SMT
<1>3. ASSUME NEW other \in Known
      PROVE  /\ oo[other] \in Seq(OptionValue(other))
             /\ other \in Repeatable \/ Len(oo[other]) <= 1
  <2>1. CASE other = no
    BY <1>2, <2>1, Zenon
  <2>2. CASE other # no
    BY <1>2, <2>2, Zenon DEF IsOptionsSet
  <2> QED
    BY <2>1, <2>2
<1> QED
  BY <1>2, <1>3, Zenon DEF IsOptionsSet

LEMMA AddOptionType ==
  ASSUME NEW o, IsOptionsSet(o), NEW no, NEW b \in Seq(Byte)
  PROVE  IsOptionsSet(add_option(o, no, b))
<1>1. CASE no \notin Known
  BY <1>1, Zenon DEF add_option
<1>2. CASE no \in Repeatable
  <2>1. no \in Known /\ no \in Strings
    BY <1>2, SMT DEF Repeatable, Known, Strings
  <2>2. CASE b = <<>>
    BY <1>2, <2>1, <2>2, Zenon DEF add_option
  <2>3. CASE b # <<>>
    <3>1. add_option(o, no, b) = [o EXCEPT ![no] = Append(o[no], b)]
      BY <1>2, <2>1, <2>3, Zenon DEF add_option
    <3>2. b \in OptionValue(no)
      BY <2>1, <2>3, SMT DEF OptionValue
    <3>3. Append(o[no], b) \in Seq(OptionValue(no))
      <4>1. o[no] \in Seq(OptionValue(no))
        BY <2>1, Zenon DEF IsOptionsSet
      <4> QED
        BY <3>2, <4>1, SMT
    <3>4. ASSUME NEW vs, vs = Append(o[no], b), NEW oo, oo = [o EXCEPT ![no] = vs]
          PROVE  IsOptionsSet(oo)
      BY <1>2, <2>1, <3>3, <3>4, OptionsWith
    <3> QED
      BY <3>1, <3>4
  <2> QED
    BY <2>2, <2>3
<1>3. CASE no \in Known /\ no \notin Repeatable
  <2> DEFINE vs == IF Present(no, ValueOf(no, b)) THEN <<ValueOf(no, b)>> ELSE <<>>
  <2>1. add_option(o, no, b) = [o EXCEPT ![no] = vs]
    BY <1>3, Zenon DEF add_option
  <2>2. vs \in Seq(OptionValue(no)) /\ Len(vs) <= 1
    <3>1. CASE Present(no, ValueOf(no, b))
      <4>1. no \in Strings => b # <<>>
        <5>1. CASE no \in Strings
          <6>1. no = 3
            BY <1>3, <5>1, SMT DEF Strings, Repeatable
          <6> QED
            BY <3>1, <5>1, <6>1, SMT DEF Present, ValueOf
        <5> QED
          BY <5>1
      <4>2. ValueOf(no, b) \in OptionValue(no)
        BY <1>3, <3>1, <4>1, ValueType
      <4> QED
        BY <3>1, <4>2, SMT
    <3>2. CASE ~Present(no, ValueOf(no, b))
      BY <3>2, SMT
    <3> QED
      BY <3>1, <3>2
  <2> HIDE DEF vs
  <2>3. ASSUME NEW oo, oo = [o EXCEPT ![no] = vs]
        PROVE  IsOptionsSet(oo)
    BY <1>3, <2>2, <2>3, OptionsWith
  <2> QED
    BY <2>1, <2>3
<1> QED
  BY <1>1, <1>2, <1>3

LEMMA NoOptionsSet == IsOptionsSet(NoOptions) /\ \A no \in Known : NoOptions[no] = <<>>
<1>1. \A no \in Known : NoOptions[no] = <<>>
  BY SMT DEF NoOptions
<1>2. NoOptions = [no \in Known |-> NoOptions[no]]
  BY SMT DEF NoOptions
<1>3. \A S : <<>> \in Seq(S) /\ Len(<<>>) <= 1
  BY SMT
<1> QED
  BY <1>1, <1>2, <1>3, Zenon DEF IsOptionsSet

LEMMA MessageOf ==
  ASSUME NEW t \in 0..3, NEW c \in Byte, NEW i \in Word16,
         NEW k \in Seq(Byte), Len(k) <= 8,
         NEW o, IsOptionsSet(o), NEW p \in Seq(Byte),
         NEW m, m = [type |-> t, code |-> c, id |-> i, token |-> k, options |-> o, payload |-> p]
  PROVE  /\ IsMessage(m)
         /\ m.type = t /\ m.code = c /\ m.id = i /\ m.token = k
         /\ m.options = o /\ m.payload = p
<1>1. /\ m.type = t /\ m.code = c /\ m.id = i /\ m.token = k
      /\ m.options = o /\ m.payload = p
  BY Zenon
<1> QED
  BY <1>1, Zenon DEF IsMessage

LEMMA MessageWith ==
  ASSUME NEW m, IsMessage(m), NEW o, IsOptionsSet(o), NEW p \in Seq(Byte),
         NEW mo, mo = [m EXCEPT !.options = o], NEW mp, mp = [m EXCEPT !.payload = p]
  PROVE  /\ IsMessage(mo)
         /\ mo.type = m.type /\ mo.code = m.code /\ mo.id = m.id /\ mo.token = m.token
         /\ mo.options = o /\ mo.payload = m.payload
         /\ IsMessage(mp)
         /\ mp.type = m.type /\ mp.code = m.code /\ mp.id = m.id /\ mp.token = m.token
         /\ mp.options = m.options /\ mp.payload = p
<1>1. PICK t, c, i, k, oo, pp :
         /\ m = [type |-> t, code |-> c, id |-> i, token |-> k, options |-> oo, payload |-> pp]
         /\ t \in 0..3 /\ c \in Byte /\ i \in Word16 /\ k \in Seq(Byte) /\ Len(k) <= 8
         /\ IsOptionsSet(oo) /\ pp \in Seq(Byte)
  BY Zenon DEF IsMessage
<1>2. /\ mo = [type |-> t, code |-> c, id |-> i, token |-> k, options |-> o, payload |-> pp]
      /\ mp = [type |-> t, code |-> c, id |-> i, token |-> k, options |-> oo, payload |-> p]
  BY <1>1, SMT
<1>3. /\ IsMessage(m) /\ m.type = t /\ m.code = c /\ m.id = i /\ m.token = k
      /\ m.options = oo /\ m.payload = pp
  BY <1>1, MessageOf, SMT
<1>4. /\ IsMessage(mo) /\ mo.type = t /\ mo.code = c /\ mo.id = i /\ mo.token = k
      /\ mo.options = o /\ mo.payload = pp
  BY <1>1, <1>2, MessageOf, SMT
<1>5. /\ IsMessage(mp) /\ mp.type = t /\ mp.code = c /\ mp.id = i /\ mp.token = k
      /\ mp.options = oo /\ mp.payload = p
  BY <1>1, <1>2, MessageOf, SMT
<1> QED
  BY <1>3, <1>4, <1>5, Zenon

\* Messages that agree in every field are the same.
LEMMA MessageEqual ==
  ASSUME NEW m, IsMessage(m), NEW n, IsMessage(n),
         m.type = n.type, m.code = n.code, m.id = n.id, m.token = n.token,
         m.options = n.options, m.payload = n.payload
  PROVE  m = n
  BY SMT DEF IsMessage

LEMMA NoMessageType == IsMessage(NoMessage)
<1>1. 0 \in 0..3 /\ 0 \in Byte /\ 0 \in Word16 /\ <<>> \in Seq(Byte) /\ Len(<<>>) <= 8
  BY ByteRange, SMT DEF Word16
<1>3. IsOptionsSet(NoOptions)
  BY NoOptionsSet
<1>2. ASSUME NEW m, m = [type |-> 0, code |-> 0, id |-> 0, token |-> <<>>,
                         options |-> NoOptions, payload |-> <<>>]
      PROVE  IsMessage(m)
  <2>1. /\ m.type = 0 /\ m.code = 0 /\ m.id = 0 /\ m.token = <<>>
        /\ m.options = NoOptions /\ m.payload = <<>>
    BY <1>2, SMT
  <2> QED
    BY <1>1, <1>2, <1>3, <2>1, Zenon DEF IsMessage
<1> QED
  BY <1>2, Zenon DEF NoMessage

------------------------------------------------------------------------------
(* Types.                                                                  *)

\* What Send has written: the header and the token.
HeaderWritten ==
  /\ Len(pdu) >= 4 + Len(msg.token)
  /\ pdu[1] = 64 + msg.type * 16 + Len(msg.token)
  /\ pdu[2] = msg.code
  /\ pdu[3] = msg.id \div 256 /\ pdu[4] = msg.id % 256
  /\ \A i \in 1..Len(msg.token) : pdu[4 + i] = msg.token[i]

\* The deltas of the options are no negative numbers.
Ascending == \A no \in Unwritten : lastNo <= no

TypeInv ==
  /\ TypeOK
  /\ Ascending
  /\ phase \in {"write", "sent", "read"} => HeaderWritten

LEMMA MessageFields ==
  ASSUME NEW m, IsMessage(m)
  PROVE  /\ m.type \in 0..3 /\ m.code \in Byte /\ m.id \in Word16 /\ m.id \in Nat
         /\ m.token \in Seq(Byte) /\ Len(m.token) \in 0..8
         /\ IsOptionsSet(m.options) /\ m.payload \in Seq(Byte)
<1>1. /\ m.type \in 0..3 /\ m.code \in Byte /\ m.id \in Word16
      /\ m.token \in Seq(Byte) /\ Len(m.token) <= 8
      /\ IsOptionsSet(m.options) /\ m.payload \in Seq(Byte)
  BY Zenon DEF IsMessage
<1>2. m.id \in Nat
  BY <1>1, SMT DEF Word16
<1>3. Len(m.token) \in 0..8
  <2>1. PICK n \in Nat : n = Len(m.token)
    BY <1>1, SMT
  <2>2. n <= 8
    BY <1>1, <2>1, Zenon
  <2>3. n \in 0..8
    BY <2>2, SMT
  <2> QED
    BY <2>1, <2>3, Zenon
<1> QED
  BY <1>1, <1>2, <1>3, SMT

\* What is written behind the header leaves it as it is.
LEMMA HeaderKept ==
  ASSUME HeaderWritten, IsMessage(msg), pdu \in Seq(Byte), NEW b \in Seq(Byte),
         pdu' = pdu \o b, msg' = msg
  PROVE  pdu' \in Seq(Byte) /\ HeaderWritten'
<1>1. Len(msg.token) \in 0..8
  BY MessageFields
<1>2. /\ pdu' \in Seq(Byte) /\ Len(pdu') = Len(pdu) + Len(b)
      /\ \A i \in 1..Len(pdu) : pdu'[i] = pdu[i]
  BY SMT
<1>3. Len(pdu) \in Nat /\ Len(b) \in Nat
  BY SMT
<1>4. \A i \in 1..(4 + Len(msg.token)) : pdu'[i] = pdu[i]
  BY <1>1, <1>2, <1>3, SMT DEF HeaderWritten
<1>5. /\ pdu'[1] = pdu[1] /\ pdu'[2] = pdu[2] /\ pdu'[3] = pdu[3] /\ pdu'[4] = pdu[4]
      /\ \A i \in 1..Len(msg.token) : pdu'[4 + i] = pdu[4 + i]
  <2>1. PICK n \in 0..8 : n = Len(msg.token)
    BY <1>1, Zenon
  <2>2. \A i \in 1..(4 + n) : pdu'[i] = pdu[i]
    BY <1>4, <2>1, Zenon
  <2>3. 1 \in 1..(4 + n) /\ 2 \in 1..(4 + n) /\ 3 \in 1..(4 + n) /\ 4 \in 1..(4 + n)
        /\ \A i \in 1..n : 4 + i \in 1..(4 + n)
    BY SMT
  <2> QED
    BY <2>1, <2>2, <2>3, Zenon
<1>6. Len(pdu') >= 4 + Len(msg.token)
  BY <1>1, <1>2, <1>3, SMT DEF HeaderWritten
<1> QED
  BY <1>2, <1>5, <1>6, ZenonT(30) DEF HeaderWritten

\* The header is read as it was written.
LEMMA HeaderRead ==
  ASSUME HeaderWritten, IsMessage(msg), pdu \in Seq(Byte)
  PROVE  /\ TokenLength = Len(msg.token)
         /\ (pdu[1] \div 16) % 4 = msg.type
         /\ pdu[2] = msg.code
         /\ pdu[3] * 256 + pdu[4] = msg.id
         /\ SubSeq(pdu, 5, 4 + TokenLength) = msg.token
<1>1. /\ msg.type \in 0..3 /\ Len(msg.token) \in 0..8 /\ msg.token \in Seq(Byte)
      /\ msg.id \in Nat
  BY MessageFields
<1>2. \A t \in 0..3, n \in 0..8 : /\ (64 + t * 16 + n) % 16 = n
                                  /\ ((64 + t * 16 + n) \div 16) % 4 = t
  BY SMT
<1>3. TokenLength = Len(msg.token) /\ (pdu[1] \div 16) % 4 = msg.type
  <2>1. PICK t \in 0..3, n \in 0..8 : t = msg.type /\ n = Len(msg.token)
    BY <1>1, Zenon
  <2>2. (64 + t * 16 + n) % 16 = n /\ ((64 + t * 16 + n) \div 16) % 4 = t
    BY SMT
  <2>3. pdu[1] = 64 + t * 16 + n
    BY <2>1, Zenon DEF HeaderWritten
  <2> QED
    BY <2>1, <2>2, <2>3, Zenon DEF TokenLength
<1>4. pdu[3] * 256 + pdu[4] = msg.id
  <2>1. \A n \in Nat : (n \div 256) * 256 + (n % 256) = n
    BY SMT
  <2>2. pdu[3] * 256 + pdu[4] = (msg.id \div 256) * 256 + (msg.id % 256)
    BY Zenon DEF HeaderWritten
  <2>3. PICK n \in Nat : n = msg.id
    BY <1>1, Zenon
  <2>4. (n \div 256) * 256 + (n % 256) = n
    BY SMT
  <2> QED
    BY <2>2, <2>3, <2>4, Zenon
<1>5. SubSeq(pdu, 5, 4 + TokenLength) = msg.token
  <2> DEFINE s == SubSeq(pdu, 5, 4 + Len(msg.token))
  <2>1. s \in Seq(Byte) /\ Len(s) = Len(msg.token)
        /\ \A i \in 1..Len(msg.token) : s[i] = pdu[4 + i]
    BY <1>1, SMTT(30) DEF HeaderWritten
  <2>2. \A i \in 1..Len(msg.token) : s[i] = msg.token[i]
    BY <2>1, Zenon DEF HeaderWritten
  <2> HIDE DEF s
  <2>3. s = msg.token
    BY <1>1, <2>1, <2>2, SeqEqual
  <2> QED
    BY <1>3, <2>3, Zenon DEF s
<1> QED
  BY <1>3, <1>4, <1>5, Zenon DEF HeaderWritten

LEMMA SendType ==
  ASSUME TypeInv, NEW m \in Messages, Send(m)
  PROVE  TypeInv' /\ Len(pdu') = 4 + Len(m.token)
<1>1. IsMessage(m)
  BY CodecAssumption
<1>2. /\ m.type \in 0..3 /\ m.code \in Byte /\ m.id \in Word16
      /\ m.token \in Seq(Byte) /\ Len(m.token) \in 0..8 /\ IsOptionsSet(m.options)
  BY <1>1, MessageFields
<1> DEFINE h == Header(m)
<1>3. /\ h \in Seq(Byte) /\ Len(h) = 4
      /\ h[1] = 64 + m.type * 16 + Len(m.token) /\ h[2] = m.code
      /\ h[3] = m.id \div 256 /\ h[4] = m.id % 256
  <2>6. PICK t \in 0..3, n \in 0..8, k \in Word16 :
          t = m.type /\ n = Len(m.token) /\ k = m.id
    BY <1>2, Zenon
  <2>4. 64 + t * 16 + n \in 0..255
    BY SMT
  <2>5. k \div 256 \in 0..255 /\ k % 256 \in 0..255
    BY SMT DEF Word16
  <2>3. /\ 64 + m.type * 16 + Len(m.token) \in Byte
        /\ m.id \div 256 \in Byte /\ m.id % 256 \in Byte
    BY <2>4, <2>5, <2>6, ByteRange, ZenonT(30)
  <2> QED
    BY <1>2, <2>3, SMT DEF Header, h
<1> HIDE DEF h
<1>4. pdu' = h \o m.token /\ msg' = m /\ phase' = "write" /\ left' = m.options /\ lastNo' = 0
      /\ got' = NoMessage /\ idx' = 0 /\ gotNo' = 0
  BY Zenon DEF Send, h
<1>5. /\ pdu' \in Seq(Byte) /\ Len(pdu') = 4 + Len(m.token)
      /\ \A i \in 1..4 : pdu'[i] = h[i]
      /\ \A i \in 1..Len(m.token) : pdu'[4 + i] = m.token[i]
  <2>1. ASSUME NEW c, c = h \o m.token
        PROVE  /\ c \in Seq(Byte)
               /\ Len(c) = Len(h) + Len(m.token)
               /\ \A i \in 1..Len(h) : c[i] = h[i]
               /\ \A i \in 1..Len(m.token) : c[Len(h) + i] = m.token[i]
    <3>1. h \in Seq(Byte) /\ m.token \in Seq(Byte)
      BY <1>2, <1>3, Zenon
    <3> QED
      BY <2>1, <3>1, Concat
  <2>2. Len(h) = 4 /\ pdu' = h \o m.token
    BY <1>3, <1>4
  <2> QED
    BY <2>1, <2>2, ZenonT(30)
<1>6. HeaderWritten'
  <2>1. pdu'[1] = h[1] /\ pdu'[2] = h[2] /\ pdu'[3] = h[3] /\ pdu'[4] = h[4]
    BY <1>5, SMT
  <2>2. Len(pdu') >= 4 + Len(m.token)
    BY <1>2, <1>5, SMT
  <2> QED
    BY <1>3, <1>4, <1>5, <2>1, <2>2, Zenon DEF HeaderWritten
<1>7. Ascending'
  BY <1>4, Kinds, SMT DEF Ascending, Unwritten
<1>8. TypeOK'
  <2>1. 0 \in 0..Len(pdu') /\ 0 \in Word16
    BY <1>2, <1>5, SMT DEF Word16
  <2>2. phase' \in {"idle", "write", "sent", "read", "handled", "refused"}
    BY <1>4, Zenon
  <2>3. IsMessage(msg)' /\ IsOptionsSet(left)' /\ IsMessage(got)'
    BY <1>1, <1>2, <1>4, NoMessageType
  <2>4. lastNo' \in Known \cup {0} /\ gotNo' \in Word16 /\ idx' \in 0..Len(pdu')
    BY <1>4, <2>1, Zenon
  <2> QED
    BY <1>5, <2>2, <2>3, <2>4, Zenon DEF TypeOK
<1> QED
  BY <1>5, <1>6, <1>7, <1>8, Zenon DEF TypeInv

\* The option that is written next, and its bytes.
LEMMA NextWritten ==
  ASSUME TypeInv, EncodeOption
  PROVE  \E no \in Unwritten, code \in Seq(Byte) : \E v :
           /\ \A other \in Unwritten : no <= other
           /\ v \in OptionValue(no) /\ v = Head(left[no])
           /\ no - lastNo \in Nat
           /\ code = EncodedOption(no - lastNo, OptionBytes(no, v))
           /\ pdu' = pdu \o code
           /\ left' = [left EXCEPT ![no] = Tail(left[no])]
           /\ lastNo' = no
           /\ phase = "write" /\ UNCHANGED <<phase, msg, receiver>>
<1>1. PICK no \in Unwritten :
        /\ \A other \in Unwritten : no <= other
        /\ pdu' = pdu \o EncodedOption(no - lastNo, OptionBytes(no, Head(left[no])))
        /\ left' = [left EXCEPT ![no] = Tail(left[no])]
        /\ lastNo' = no
  BY Zenon DEF EncodeOption
<1>2. no \in Known /\ left[no] # <<>>
  BY Zenon DEF Unwritten
<1>3. left[no] \in Seq(OptionValue(no))
  BY <1>2, Zenon DEF TypeInv, TypeOK, IsOptionsSet
<1> DEFINE v    == Head(left[no])
           code == EncodedOption(no - lastNo, OptionBytes(no, v))
<1>4. v \in OptionValue(no)
  BY <1>2, <1>3, SMT
<1>5. no - lastNo \in Nat
  <2>1. lastNo <= no /\ lastNo \in Known \cup {0}
    BY Zenon DEF TypeInv, TypeOK, Ascending
  <2>2. lastNo \in Nat /\ no \in Nat
    BY <1>2, <2>1, Kinds, SMT
  <2> QED
    BY <2>1, <2>2, SMT
<1>6. OptionBytes(no, v) \in Seq(Byte)
  <2> HIDE DEF v
  <2> QED
    BY <1>2, <1>4, ValueRoundTrip
<1>7. code \in Seq(Byte)
  <2> HIDE DEF v
  <2>1. ASSUME NEW d \in Nat, NEW b \in Seq(Byte) PROVE EncodedOption(d, b) \in Seq(Byte)
    BY <2>1, CodeLayout
  <2> QED
    BY <1>5, <1>6, <2>1, Zenon
<1>8. phase = "write" /\ UNCHANGED <<phase, msg, receiver>>
  BY Zenon DEF EncodeOption
<1> QED
  BY <1>1, <1>4, <1>5, <1>7, <1>8, Zenon

LEMMA EncodeOptionType ==
  ASSUME TypeInv, EncodeOption
  PROVE  TypeInv'
<1>1. PICK no \in Unwritten, code \in Seq(Byte) :
           /\ \A other \in Unwritten : no <= other
           /\ pdu' = pdu \o code
           /\ left' = [left EXCEPT ![no] = Tail(left[no])]
           /\ lastNo' = no
           /\ phase = "write" /\ UNCHANGED <<phase, msg, receiver>>
  BY NextWritten, Zenon
<1>2. no \in Known /\ left[no] # <<>> /\ IsOptionsSet(left)
      /\ left[no] \in Seq(OptionValue(no)) /\ (no \in Repeatable \/ Len(left[no]) <= 1)
  BY Zenon DEF TypeInv, TypeOK, Unwritten, IsOptionsSet
<1>3. Tail(left[no]) \in Seq(OptionValue(no)) /\ (no \in Repeatable \/ Len(Tail(left[no])) <= 1)
  BY <1>2, SMT
<1>4. /\ IsOptionsSet(left')
      /\ \A other \in Known : other # no => left'[other] = left[other]
  <2>1. ASSUME NEW vs, vs = Tail(left[no]), NEW oo, oo = [left EXCEPT ![no] = vs]
        PROVE  IsOptionsSet(oo) /\ \A other \in Known : other # no => oo[other] = left[other]
    <3>1. vs \in Seq(OptionValue(no)) /\ (no \in Repeatable \/ Len(vs) <= 1)
      BY <1>3, <2>1, Zenon
    <3>2. no \in Known /\ IsOptionsSet(left)
      BY <1>2
    <3>3. IsOptionsSet(oo)
      BY <2>1, <3>1, <3>2, OptionsWith
    <3>4. \A other \in Known : other # no => oo[other] = left[other]
      BY <2>1, <3>1, <3>2, OptionsWith
    <3> QED
      BY <3>3, <3>4
  <2> QED
    BY <1>1, <2>1, Zenon
<1>5. Ascending'
  <2>1. ASSUME NEW other \in Known, left'[other] # <<>> PROVE no <= other
    <3>1. CASE other = no
      BY <1>2, <3>1, Kinds, SMT
    <3>2. CASE other # no
      BY <1>1, <1>4, <2>1, <3>2, Zenon DEF Unwritten
    <3> QED
      BY <3>1, <3>2
  <2> QED
    BY <1>1, <2>1, Zenon DEF Ascending, Unwritten
<1>6. pdu' \in Seq(Byte) /\ HeaderWritten'
  BY <1>1, HeaderKept DEF TypeInv, TypeOK
<1>7. idx \in 0..Len(pdu')
  <2>1. pdu \in Seq(Byte) /\ idx \in 0..Len(pdu)
    BY Zenon DEF TypeInv, TypeOK
  <2>2. Len(pdu') = Len(pdu) + Len(code) /\ Len(code) \in Nat /\ Len(pdu) \in Nat
    BY <1>1, <2>1, SMT
  <2> QED
    BY <2>1, <2>2, SMT
<1> QED
  BY <1>1, <1>2, <1>4, <1>5, <1>6, <1>7, Zenon DEF TypeInv, TypeOK, receiver

LEMMA EncodePayloadType ==
  ASSUME TypeInv, EncodePayload
  PROVE  TypeInv'
<1>1. /\ phase = "write" /\ phase' = "sent" /\ Unwritten = {}
      /\ pdu' = IF msg.payload = <<>> THEN pdu ELSE pdu \o <<255>> \o msg.payload
      /\ UNCHANGED <<msg, left, lastNo, got, idx, gotNo>>
  BY Zenon DEF EncodePayload, receiver
<1>2. pdu \in Seq(Byte) /\ idx \in 0..Len(pdu) /\ HeaderWritten /\ IsMessage(msg)
      /\ msg.payload \in Seq(Byte)
  BY <1>1, MessageFields DEF TypeInv, TypeOK
<1>3. \E b \in Seq(Byte) : pdu' = pdu \o b
  <2>1. CASE msg.payload = <<>>
    <3>1. pdu = pdu \o <<>> /\ <<>> \in Seq(Byte)
      BY <1>2, SMT
    <3> QED
      BY <1>1, <2>1, <3>1, Zenon
  <2>2. CASE msg.payload # <<>>
    <3>1. 255 \in Byte
      BY ByteRange
    <3>2. ASSUME NEW p \in Seq(Byte), NEW q \in Seq(Byte)
          PROVE  p \o <<255>> \o q = p \o (<<255>> \o q) /\ <<255>> \o q \in Seq(Byte)
      <4>1. <<255>> \in Seq(Byte)
        BY <3>1, SMT
      <4>2. ASSUME NEW r \in Seq(Byte) PROVE p \o r \o q = p \o (r \o q) /\ r \o q \in Seq(Byte)
        BY <4>2, SMT
      <4> QED
        BY <4>1, <4>2, Zenon
    <3>3. pdu' = pdu \o <<255>> \o msg.payload
      BY <1>1, <2>2, Zenon
    <3>4. /\ pdu \o <<255>> \o msg.payload = pdu \o (<<255>> \o msg.payload)
          /\ <<255>> \o msg.payload \in Seq(Byte)
      BY <1>2, <3>2
    <3> QED
      BY <3>3, <3>4, Zenon
  <2> QED
    BY <2>1, <2>2
<1>4. PICK b \in Seq(Byte) : pdu' = pdu \o b
  BY <1>3
<1>5. pdu' \in Seq(Byte) /\ HeaderWritten'
  BY <1>1, <1>2, <1>4, HeaderKept
<1>6. idx \in 0..Len(pdu')
  <2>2. Len(pdu') = Len(pdu) + Len(b) /\ Len(b) \in Nat /\ Len(pdu) \in Nat
    BY <1>2, <1>4, SMT
  <2> QED
    BY <1>2, <2>2, SMT
<1>7. Ascending'
  BY <1>1, Zenon DEF TypeInv, Ascending, Unwritten
<1> QED
  BY <1>1, <1>5, <1>6, <1>7, Zenon DEF TypeInv, TypeOK

LEMMA RefuseType ==
  ASSUME TypeInv, Refuse
  PROVE  TypeInv'
<1>1. phase' = "refused" /\ UNCHANGED <<msg, pdu, left, lastNo, got, idx, gotNo>>
  BY Zenon DEF Refuse, sender, receiver
<1> QED
  BY <1>1, Zenon DEF TypeInv, TypeOK, Ascending, Unwritten

LEMMA AcceptStep ==
  ASSUME TypeInv, Accept
  PROVE  /\ IsMessage(got')
         /\ got'.type = msg.type /\ got'.code = msg.code /\ got'.id = msg.id
         /\ got'.token = msg.token /\ got'.options = NoOptions /\ got'.payload = <<>>
         /\ idx' = 4 + Len(msg.token) /\ idx' \in 0..Len(pdu)
         /\ phase = "sent" /\ phase' = IF Len(pdu) = 4 + Len(msg.token) THEN "handled" ELSE "read"
         /\ UNCHANGED <<msg, pdu, left, lastNo, gotNo>>
<1>1. /\ phase = "sent" /\ UNCHANGED <<msg, pdu, left, lastNo, gotNo>>
      /\ got' = [type    |-> (pdu[1] \div 16) % 4,
                 code    |-> pdu[2],
                 id      |-> pdu[3] * 256 + pdu[4],
                 token   |-> SubSeq(pdu, 5, 4 + TokenLength),
                 options |-> NoOptions,
                 payload |-> <<>>]
      /\ idx' = 4 + TokenLength
      /\ phase' = IF Len(pdu) = 4 + TokenLength THEN "handled" ELSE "read"
  BY Zenon DEF Accept, sender
<1>2. HeaderWritten /\ IsMessage(msg) /\ pdu \in Seq(Byte)
  BY <1>1, Zenon DEF TypeInv, TypeOK
<1>3. got' = [type |-> msg.type, code |-> msg.code, id |-> msg.id, token |-> msg.token,
              options |-> NoOptions, payload |-> <<>>]
  BY <1>1, <1>2, HeaderRead, Zenon
<1>4. TokenLength = Len(msg.token)
  BY <1>2, HeaderRead, Zenon
<1>5. /\ got'.type = msg.type /\ got'.code = msg.code /\ got'.id = msg.id
      /\ got'.token = msg.token /\ got'.options = NoOptions /\ got'.payload = <<>>
  BY <1>3, SMT
<1>6. IsMessage(got')
  <2>1. <<>> \in Seq(Byte)
    BY SMT
  <2>2. /\ msg.type \in 0..3 /\ msg.code \in Byte /\ msg.id \in Word16
        /\ msg.token \in Seq(Byte) /\ Len(msg.token) <= 8
    BY <1>2, Zenon DEF IsMessage
  <2>3. IsOptionsSet(NoOptions)
    BY NoOptionsSet
  <2> QED
    BY <1>3, <1>5, <2>1, <2>2, <2>3, Zenon DEF IsMessage
<1>7. 4 + Len(msg.token) \in 0..Len(pdu)
  <2>1. PICK n \in 0..8 : n = Len(msg.token)
    BY <1>2, MessageFields
  <2>2. PICK k \in Nat : k = Len(pdu)
    BY <1>2, SMT
  <2>3. k >= 4 + n
    BY <1>2, <2>1, <2>2, Zenon DEF HeaderWritten
  <2>4. 4 + n \in 0..k
    BY <2>3, SMT
  <2> QED
    BY <2>1, <2>2, <2>4, Zenon
<1> QED
  BY <1>1, <1>4, <1>5, <1>6, <1>7, Zenon

LEMMA AcceptType ==
  ASSUME TypeInv, Accept
  PROVE  TypeInv'
<1>1. /\ IsMessage(got') /\ idx' \in 0..Len(pdu) /\ phase = "sent"
      /\ phase' = IF Len(pdu) = 4 + Len(msg.token) THEN "handled" ELSE "read"
      /\ UNCHANGED <<msg, pdu, left, lastNo, gotNo>>
  BY AcceptStep, Zenon
<1>2. phase' \in {"handled", "read"}
  BY <1>1, Zenon
<1> QED
  BY <1>1, <1>2, Zenon DEF TypeInv, TypeOK, Ascending, Unwritten, HeaderWritten

LEMMA HandleErroneousType ==
  ASSUME TypeInv, HandleErroneous, UNCHANGED sender
  PROVE  TypeInv'
<1>1. /\ got' = [got EXCEPT !.options = NoOptions] /\ phase' = "handled"
      /\ UNCHANGED <<msg, pdu, left, lastNo, idx, gotNo>>
  BY Zenon DEF HandleErroneous, sender
<1>2. IsMessage(got')
  <2>1. IsMessage(got) /\ IsOptionsSet(NoOptions) /\ <<>> \in Seq(Byte)
    BY NoOptionsSet, SMT DEF TypeInv, TypeOK
  <2>2. ASSUME NEW mo, mo = [got EXCEPT !.options = NoOptions],
               NEW mp, mp = [got EXCEPT !.payload = <<>>]
        PROVE  IsMessage(mo)
    BY <2>1, <2>2, MessageWith
  <2> QED
    BY <1>1, <2>2, Zenon
<1> QED
  BY <1>1, <1>2, Zenon DEF TypeInv, TypeOK, Ascending, Unwritten

LEMMA FieldType ==
  ASSUME NEW nibble \in Nat, NEW b \in Byte
  PROVE  FieldValue(nibble, b) \in Nat /\ ExtensionSize(nibble) \in 0..2
<1>1. b \in 0..255
  BY ByteRange
<1>2. nibble + 0 \in Nat /\ b + 13 \in Nat /\ Low16(b * 256 + b + 269) \in Nat
  BY <1>1, SMT DEF Low16
<1> QED
  BY <1>1, <1>2, SMT DEF FieldValue, ExtensionSize

\* What a round of the loop of decode_coap_options reads.
LEMMA NextRead ==
  ASSUME TypeInv, DecodeOption
  PROVE  /\ phase = "read" /\ idx < Len(pdu) /\ pdu[idx + 1] # 255 /\ UNCHANGED sender
         /\ \E dn, ln, at, db, lb, no, len \in Nat :
              /\ dn = pdu[idx + 1] \div 16 /\ ln = pdu[idx + 1] % 16
              /\ at = idx + 1 + ExtensionSize(dn) + ExtensionSize(ln)
              /\ db \in ByteAt(idx + 2) /\ lb \in ByteAt(idx + 2 + ExtensionSize(dn))
              /\ no = Low16(gotNo + FieldValue(dn, db))
              /\ len = FieldValue(ln, lb)
              /\ \/ /\ dn = 15 \/ ln = 15 \/ len > MaxOption \/ Len(pdu) - at < len
                    /\ HandleErroneous
                 \/ /\ at + len <= Len(pdu)
                    /\ gotNo' = no
                    /\ got' = [got EXCEPT !.options =
                                 add_option(got.options, no, SubSeq(pdu, at + 1, at + len))]
                    /\ idx' = at + len
                    /\ phase' = IF at + len < Len(pdu) THEN "read" ELSE "handled"
<1>1. pdu \in Seq(Byte) /\ idx \in 0..Len(pdu) /\ gotNo \in Word16
  BY Zenon DEF TypeInv, TypeOK
<1>2. phase = "read" /\ idx < Len(pdu) /\ pdu[idx + 1] # 255 /\ UNCHANGED sender
  BY Zenon DEF DecodeOption
<1> DEFINE dn == pdu[idx + 1] \div 16
           ln == pdu[idx + 1] % 16
           at == idx + 1 + ExtensionSize(dn) + ExtensionSize(ln)
<1>3. pdu[idx + 1] \in 0..255
  <2>1. pdu[idx + 1] \in Byte
    BY <1>1, <1>2, SMT
  <2> QED
    BY <2>1, ByteRange, Zenon
<1>4. dn \in Nat /\ ln \in Nat
  BY <1>3, SMT
<1>5. PICK db \in ByteAt(idx + 2), lb \in ByteAt(idx + 2 + ExtensionSize(dn)) :
        LET no  == Low16(gotNo + FieldValue(dn, db))
            len == FieldValue(ln, lb)
        IN  IF dn = 15 \/ ln = 15 \/ len > MaxOption \/ Len(pdu) - at < len
            THEN HandleErroneous
            ELSE /\ gotNo' = no
                 /\ got' = [got EXCEPT !.options =
                              add_option(@, no, SubSeq(pdu, at + 1, at + len))]
                 /\ idx' = at + len
                 /\ phase' = IF at + len < Len(pdu) THEN "read" ELSE "handled"
  BY Zenon DEF DecodeOption
<1> DEFINE no  == Low16(gotNo + FieldValue(dn, db))
           len == FieldValue(ln, lb)
<1>6. db \in Byte /\ lb \in Byte
  <2>1. ASSUME NEW i \in Nat, i > 0 PROVE ByteAt(i) \subseteq Byte
    <3>1. CASE i <= Len(pdu)
      <4>1. pdu[i] \in Byte
        BY <1>1, <2>1, <3>1, SMT
      <4> QED
        BY <3>1, <4>1, SMT DEF ByteAt
    <3>2. CASE ~(i <= Len(pdu))
      BY <3>2, CodecAssumption, Zenon DEF ByteAt
    <3> QED
      BY <3>1, <3>2
  <2>2. PICK x \in {0, 1, 2} : x = ExtensionSize(dn)
    BY SMT DEF ExtensionSize
  <2>3. idx + 2 \in Nat /\ idx + 2 > 0 /\ idx + 2 + x \in Nat /\ idx + 2 + x > 0
    BY <1>1, SMT
  <2>4. ByteAt(idx + 2) \subseteq Byte /\ ByteAt(idx + 2 + x) \subseteq Byte
    BY <2>1, <2>3, Zenon
  <2> QED
    BY <1>5, <2>2, <2>4, Zenon
<1>7. /\ FieldValue(dn, db) \in Nat /\ len \in Nat
      /\ ExtensionSize(dn) \in 0..2 /\ ExtensionSize(ln) \in 0..2
  BY <1>4, <1>6, FieldType
<1> HIDE DEF dn, ln, len
<1>8. at \in Nat /\ no \in Nat
  <2>1. gotNo \in Nat
    BY <1>1, SMT DEF Word16
  <2>2. \A x, y \in Nat : Low16(x + y) \in Nat
    BY SMT DEF Low16
  <2>3. no \in Nat
    BY <1>7, <2>1, <2>2, Zenon
  <2>4. at \in Nat
    BY <1>1, <1>7, SMT
  <2> QED
    BY <2>3, <2>4
<1>9. db \in Nat /\ lb \in Nat
  BY <1>6, ByteRange, SMT
<1> HIDE DEF at, no
<1>10. CASE dn = 15 \/ ln = 15 \/ len > MaxOption \/ Len(pdu) - at < len
  <2>1. HandleErroneous
    BY <1>5, <1>10, Zenon DEF dn, ln, len, at, no
  <2> QED
    BY <1>2, <1>4, <1>5, <1>7, <1>8, <1>9, <1>10, <2>1, Zenon DEF dn, ln, len, at, no
<1>11. CASE ~(dn = 15 \/ ln = 15 \/ len > MaxOption \/ Len(pdu) - at < len)
  <2>1. /\ gotNo' = no
        /\ got' = [got EXCEPT !.options =
                     add_option(got.options, no, SubSeq(pdu, at + 1, at + len))]
        /\ idx' = at + len
        /\ phase' = IF at + len < Len(pdu) THEN "read" ELSE "handled"
    BY <1>5, <1>11, Zenon DEF dn, ln, len, at, no
  <2>2. at + len <= Len(pdu)
    <3>1. PICK k \in Nat : k = Len(pdu)
      BY <1>1, SMT
    <3>2. ~(k - at < len)
      BY <1>11, <3>1, Zenon
    <3>3. at + len <= k
      BY <1>7, <1>8, <3>2, SMT
    <3> QED
      BY <3>1, <3>3, Zenon
  <2> QED
    BY <1>2, <1>4, <1>5, <1>7, <1>8, <1>9, <2>1, <2>2, ZenonT(30) DEF dn, ln, len, at, no
<1> QED
  BY <1>10, <1>11

LEMMA DecodeOptionType ==
  ASSUME TypeInv, DecodeOption
  PROVE  TypeInv'
<1>1. /\ phase = "read" /\ UNCHANGED sender
      /\ pdu \in Seq(Byte) /\ IsMessage(got) /\ HeaderWritten
  BY NextRead, Zenon DEF TypeInv, TypeOK
<1>2. CASE HandleErroneous
  BY <1>1, <1>2, HandleErroneousType
<1>3. CASE ~HandleErroneous
  <2>1. PICK at, no, len \in Nat :
          /\ at + len <= Len(pdu)
          /\ gotNo' = no
          /\ \E x, db \in Nat : no = Low16(gotNo + FieldValue(x, db))
          /\ got' = [got EXCEPT !.options =
                       add_option(got.options, no, SubSeq(pdu, at + 1, at + len))]
          /\ idx' = at + len
          /\ phase' = IF at + len < Len(pdu) THEN "read" ELSE "handled"
    <3>1. PICK dn, at, db, no, len \in Nat :
            /\ no = Low16(gotNo + FieldValue(dn, db))
            /\ at + len <= Len(pdu)
            /\ gotNo' = no
            /\ got' = [got EXCEPT !.options =
                         add_option(got.options, no, SubSeq(pdu, at + 1, at + len))]
            /\ idx' = at + len
            /\ phase' = IF at + len < Len(pdu) THEN "read" ELSE "handled"
      <4>1. PICK dn, ln, at, db, lb, no, len \in Nat :
              /\ no = Low16(gotNo + FieldValue(dn, db))
              /\ \/ HandleErroneous
                 \/ /\ at + len <= Len(pdu)
                    /\ gotNo' = no
                    /\ got' = [got EXCEPT !.options =
                                 add_option(got.options, no, SubSeq(pdu, at + 1, at + len))]
                    /\ idx' = at + len
                    /\ phase' = IF at + len < Len(pdu) THEN "read" ELSE "handled"
        BY NextRead
      <4> QED
        BY <1>3, <4>1, Zenon
    <3> QED
      BY <3>1, Zenon
  <2>2. SubSeq(pdu, at + 1, at + len) \in Seq(Byte) /\ at + len \in 0..Len(pdu)
    BY <1>1, <2>1, SMT
  <2>3. IsMessage(got')
    <3>1. ASSUME NEW o, o = add_option(got.options, no, SubSeq(pdu, at + 1, at + len))
          PROVE  IsOptionsSet(o)
      <4>1. IsOptionsSet(got.options)
        BY <1>1, MessageFields
      <4> QED
        BY <2>2, <3>1, <4>1, AddOptionType, Zenon
    <3>2. ASSUME NEW o, IsOptionsSet(o), NEW mo, mo = [got EXCEPT !.options = o],
                 NEW mp, mp = [got EXCEPT !.payload = <<>>]
          PROVE  IsMessage(mo)
      <4>1. <<>> \in Seq(Byte)
        BY SMT
      <4> QED
        BY <1>1, <3>2, <4>1, MessageWith
    <3> QED
      BY <2>1, <3>1, <3>2, Zenon
  <2>4. gotNo' \in Word16
    <3>1. gotNo \in Nat
      BY SMT DEF TypeInv, TypeOK, Word16
    <3>2. PICK x, db \in Nat : no = Low16(gotNo + FieldValue(x, db))
      BY <2>1
    <3>3. FieldValue(x, db) \in Nat
      BY SMT DEF FieldValue, Low16
    <3>4. \A a, b \in Nat : Low16(a + b) \in Word16
      BY SMT DEF Low16, Word16
    <3> QED
      BY <2>1, <3>1, <3>2, <3>3, <3>4, Zenon
  <2>5. phase' \in {"read", "handled"}
    BY <2>1, Zenon
  <2>6. UNCHANGED <<msg, pdu, left, lastNo>>
    BY <1>1, Zenon DEF sender
  <2>7. TypeOK'
    BY <2>1, <2>2, <2>3, <2>4, <2>5, <2>6, Zenon DEF TypeInv, TypeOK
  <2>8. Ascending' /\ HeaderWritten'
    BY <1>1, <2>6, Zenon DEF TypeInv, Ascending, Unwritten, HeaderWritten
  <2> QED
    BY <2>7, <2>8, Zenon DEF TypeInv
<1> QED
  BY <1>2, <1>3

LEMMA DecodePayloadStep ==
  ASSUME TypeInv, DecodePayload, ~HandleErroneous
  PROVE  /\ phase = "read" /\ pdu[idx + 1] = 255 /\ idx < Len(pdu)
         /\ IsMessage(got')
         /\ got'.type = got.type /\ got'.code = got.code /\ got'.id = got.id
         /\ got'.token = got.token /\ got'.options = got.options
         /\ got'.payload = SubSeq(pdu, idx + 2, Len(pdu))
         /\ idx' = Len(pdu) /\ phase' = "handled"
         /\ UNCHANGED <<msg, pdu, left, lastNo, gotNo>>
<1>1. /\ phase = "read" /\ pdu[idx + 1] = 255 /\ idx < Len(pdu)
      /\ got' = [got EXCEPT !.payload = SubSeq(pdu, idx + 2, Len(pdu))]
      /\ idx' = Len(pdu) /\ phase' = "handled"
      /\ UNCHANGED <<msg, pdu, left, lastNo, gotNo>>
  BY Zenon DEF DecodePayload, sender
<1>2. IsMessage(got) /\ pdu \in Seq(Byte) /\ idx \in Nat
  BY SMT DEF TypeInv, TypeOK
<1>3. SubSeq(pdu, idx + 2, Len(pdu)) \in Seq(Byte)
  BY <1>2, SMT
<1>4. ASSUME NEW p \in Seq(Byte), NEW mp, mp = [got EXCEPT !.payload = p]
      PROVE  /\ IsMessage(mp)
             /\ mp.type = got.type /\ mp.code = got.code /\ mp.id = got.id
             /\ mp.token = got.token /\ mp.options = got.options /\ mp.payload = p
  <2>1. IsOptionsSet(NoOptions)
    BY NoOptionsSet
  <2>2. ASSUME NEW mo, mo = [got EXCEPT !.options = NoOptions]
        PROVE  /\ IsMessage(mp)
               /\ mp.type = got.type /\ mp.code = got.code /\ mp.id = got.id
               /\ mp.token = got.token /\ mp.options = got.options /\ mp.payload = p
    BY <1>2, <1>4, <2>1, <2>2, MessageWith
  <2> QED
    BY <2>2
<1>5. PICK p \in Seq(Byte) : p = SubSeq(pdu, idx + 2, Len(pdu))
  BY <1>3
<1>6. got' = [got EXCEPT !.payload = p]
  BY <1>1, <1>5
<1>7. /\ IsMessage(got')
      /\ got'.type = got.type /\ got'.code = got.code /\ got'.id = got.id
      /\ got'.token = got.token /\ got'.options = got.options /\ got'.payload = p
  BY <1>4, <1>6, ZenonT(30)
<1> QED
  BY <1>1, <1>5, <1>7, Zenon

LEMMA DecodePayloadType ==
  ASSUME TypeInv, DecodePayload
  PROVE  TypeInv'
<1>1. CASE HandleErroneous
  BY <1>1, HandleErroneousType, Zenon DEF DecodePayload
<1>2. CASE ~HandleErroneous
  <2>1. /\ IsMessage(got') /\ idx' = Len(pdu) /\ phase' = "handled"
        /\ UNCHANGED <<msg, pdu, left, lastNo, gotNo>>
    BY <1>2, DecodePayloadStep
  <2>2. Len(pdu) \in 0..Len(pdu)
    BY SMT DEF TypeInv, TypeOK
  <2> QED
    BY <2>1, <2>2, Zenon DEF TypeInv, TypeOK, Ascending, Unwritten
<1> QED
  BY <1>1, <1>2

LEMMA InitType == Init => TypeInv
<1> SUFFICES ASSUME Init PROVE TypeInv
  OBVIOUS
<1>1. /\ phase = "idle" /\ msg = NoMessage /\ pdu = <<>> /\ left = NoOptions /\ lastNo = 0
      /\ got = NoMessage /\ idx = 0 /\ gotNo = 0
  BY Zenon DEF Init
<1>2. <<>> \in Seq(Byte) /\ 0 \in 0..Len(<<>>)
  BY SMT
<1>3. 0 \in Word16
  BY SMT DEF Word16
<1>4. Unwritten = {}
  BY <1>1, NoOptionsSet, Zenon DEF Unwritten
<1> QED
  BY <1>1, <1>2, <1>3, <1>4, NoOptionsSet, NoMessageType, Zenon
  DEF TypeInv, TypeOK, Ascending

LEMMA NextType == TypeInv /\ [Next]_vars => TypeInv'
<1> SUFFICES ASSUME TypeInv, [Next]_vars PROVE TypeInv'
  OBVIOUS
<1>1. ASSUME NEW m \in Messages, Send(m) PROVE TypeInv'
  BY <1>1, SendType
<1>2. CASE EncodeOption
  BY <1>2, EncodeOptionType
<1>3. CASE EncodePayload
  BY <1>3, EncodePayloadType
<1>4. CASE Refuse
  BY <1>4, RefuseType
<1>5. CASE Accept
  BY <1>5, AcceptType
<1>6. CASE DecodeOption
  BY <1>6, DecodeOptionType
<1>7. CASE DecodePayload
  BY <1>7, DecodePayloadType
<1>8. CASE UNCHANGED vars
  BY <1>8, ZenonT(30) DEF TypeInv, TypeOK, Ascending, Unwritten, HeaderWritten, vars, sender, receiver
<1> QED
  BY <1>1, <1>2, <1>3, <1>4, <1>5, <1>6, <1>7, <1>8, Zenon DEF Next

\* Whatever bytes the receiver makes of a datagram, what it handles is a message,
\* and no index leaves the datagram.
THEOREM CodecTypeSafe == Spec => []TypeOK
<1>1. TypeInv => TypeOK
  BY Zenon DEF TypeInv
<1> QED
  BY <1>1, InitType, NextType, PTL DEF Spec

------------------------------------------------------------------------------
(* What is handled is what was sent.                                       *)

\* A cut: the first c.at bytes hold the options c.opts, the last of number c.no.
IsCut(c) == c.at \in Nat /\ c.no \in Nat /\ IsOptionsSet(c.opts)

Start(m) == [at |-> 4 + Len(m.token), no |-> 0, opts |-> NoOptions]

\* In the bytes p one option, of value b, lies between the cuts c and d.
Between(p, c, d, b) ==
  /\ b \in Seq(Byte) /\ Len(b) <= 268
  /\ d.no - c.no \in Nat /\ d.no <= 60
  /\ d.at = c.at + Len(EncodedOption(d.no - c.no, b))
  /\ d.at <= Len(p)
  /\ \A i \in 1..Len(EncodedOption(d.no - c.no, b)) :
       p[c.at + i] = EncodedOption(d.no - c.no, b)[i]
  /\ d.opts = add_option(c.opts, d.no, b)

\* From the start every cut but the last has one that follows it.
Chain(p, m, C, last) ==
  /\ Start(m) \in C /\ last \in C
  /\ \A c \in C : IsCut(c) /\ (c = last \/ \E d \in C : \E b : Between(p, c, d, b))

\* Behind the last cut comes the payload.
Ends(p, m, last) ==
  /\ last.opts = m.options
  /\ IF m.payload = <<>>
     THEN last.at = Len(p)
     ELSE /\ last.at + 1 < Len(p)
          /\ p[last.at + 1] = 255
          /\ SubSeq(p, last.at + 2, Len(p)) = m.payload

Writing ==
  \E C, last : /\ Chain(pdu, msg, C, last)
               /\ last.at = Len(pdu) /\ last.no = lastNo
               /\ \A no \in Known : msg.options[no] = last.opts[no] \o left[no]

Written == \E C, last : Chain(pdu, msg, C, last) /\ Ends(pdu, msg, last)

Reading ==
  /\ got.type = msg.type /\ got.code = msg.code /\ got.id = msg.id
  /\ got.token = msg.token /\ got.payload = <<>>
  /\ \E C, last : /\ Chain(pdu, msg, C, last) /\ Ends(pdu, msg, last)
                  /\ \E c \in C : c.at = idx /\ c.no = gotNo /\ c.opts = got.options

CodecInv ==
  /\ TypeInv
  /\ phase \in {"write", "sent", "read"} => msg \in Messages
  /\ phase \in {"write", "sent"} => gotNo = 0
  /\ phase = "write" => Writing
  /\ phase = "sent" => Written
  /\ phase = "read" => Reading
  /\ DecodedIsSent

\* A field that needs no extension of two bytes is read as it was written.
LEMMA FieldRead ==
  ASSUME NEW n \in Nat, n <= 268, NEW x, n >= 13 => x = Extension(n)[1]
  PROVE  FieldValue(Nibble(n), x) = n /\ Nibble(n) \in 0..13
         /\ ExtensionSize(Nibble(n)) = IF n >= 13 THEN 1 ELSE 0
<1>1. CASE n < 13
  BY <1>1, SMT DEF FieldValue, Nibble, ExtensionSize
<1>2. CASE n >= 13
  <2>1. n < 269 /\ ~(n < 13)
    BY <1>2, SMT
  <2>2. Extension(n)[1] = n - 13
    BY <2>1, SMT DEF Extension
  <2>3. x = n - 13
    BY <1>2, <2>2, SMT
  <2> QED
    BY <2>1, <2>3, SMT DEF FieldValue, Nibble, ExtensionSize
<1> QED
  BY <1>1, <1>2, SMT

\* More bytes change nothing between two cuts.
LEMMA BetweenGrows ==
  ASSUME NEW p \in Seq(Byte), NEW e \in Seq(Byte), NEW q, q = p \o e,
         NEW c, IsCut(c), NEW d, NEW b, Between(p, c, d, b)
  PROVE  Between(q, c, d, b)
<1> DEFINE code == EncodedOption(d.no - c.no, b)
<1>1. /\ b \in Seq(Byte) /\ Len(b) <= 268
      /\ d.no - c.no \in Nat /\ d.no <= 60
      /\ d.at = c.at + Len(code) /\ d.at <= Len(p)
      /\ \A i \in 1..Len(code) : p[c.at + i] = code[i]
      /\ d.opts = add_option(c.opts, d.no, b)
  BY Zenon DEF Between
<1>2. code \in Seq(Byte)
  <2>1. ASSUME NEW n \in Nat PROVE EncodedOption(n, b) \in Seq(Byte)
    BY <1>1, CodeLayout
  <2> QED
    BY <1>1, <2>1, Zenon
<1> HIDE DEF code
<1>3. PICK k \in Nat, n \in Nat, a \in Nat, l \in Nat :
         k = Len(code) /\ n = Len(p) /\ a = c.at /\ l = Len(e)
  BY <1>2, SMT DEF IsCut
<1>4. a + k <= n
  BY <1>1, <1>3, Zenon
<1>5. /\ Len(q) = Len(p) + Len(e)
      /\ \A i \in 1..Len(p) : q[i] = p[i]
  BY Concat
<1>6. \A i \in 1..k : a + i \in 1..n
  BY <1>4, SMT
<1>7. \A i \in 1..Len(code) : q[c.at + i] = code[i]
  BY <1>1, <1>3, <1>5, <1>6, Zenon
<1>8. a + k <= n + l
  BY <1>4, SMT
<1>9. d.at <= Len(q)
  BY <1>1, <1>3, <1>5, <1>8, Zenon
<1> QED
  BY <1>1, <1>7, <1>9, Zenon DEF Between, code

\* The last cut has nothing behind it but the payload.
LEMMA AtTheEnd ==
  ASSUME NEW p \in Seq(Byte), NEW m, IsMessage(m), NEW C, NEW last,
         Chain(p, m, C, last), Ends(p, m, last), NEW c \in C, c.at = Len(p)
  PROVE  c.opts = m.options /\ m.payload = <<>>
<1>1. c = last
  <2>1. ASSUME NEW d, NEW b, Between(p, c, d, b) PROVE FALSE
    <3>1. /\ b \in Seq(Byte) /\ d.no - c.no \in Nat
          /\ d.at = c.at + Len(EncodedOption(d.no - c.no, b)) /\ d.at <= Len(p)
      BY <2>1, Zenon DEF Between
    <3>2. ASSUME NEW n \in Nat PROVE Len(EncodedOption(n, b)) >= 1 /\ Len(EncodedOption(n, b)) \in Nat
      <4>1. ASSUME NEW code, code = EncodedOption(n, b), NEW x, x = Nibble(n), NEW y, y = Nibble(Len(b))
            PROVE  Len(code) >= 1 /\ Len(code) \in Nat
        <5>1. Len(code) = 1 + ExtensionSize(x) + ExtensionSize(y) + Len(b)
          BY <3>1, <4>1, CodeLayout
        <5>2. Len(b) \in Nat /\ ExtensionSize(x) \in Nat /\ ExtensionSize(y) \in Nat
          BY <3>1, SMT DEF ExtensionSize
        <5> QED
          BY <5>1, <5>2, SMT
      <4> QED
        BY <4>1, Zenon
    <3>3. PICK k \in Nat, n \in Nat : /\ k = Len(EncodedOption(d.no - c.no, b)) /\ k >= 1
                                      /\ n = Len(p)
      BY <3>1, <3>2, SMT
    <3>4. n + k <= n
      BY <3>1, <3>3, Zenon
    <3> QED
      BY <3>3, <3>4, SMT
  <2> QED
    BY <2>1, Zenon DEF Chain
<1>2. m.payload = <<>>
  <2>1. PICK n \in Nat : n = Len(p)
    BY SMT
  <2>2. ~(n + 1 < n)
    BY SMT
  <2> QED
    BY <1>1, <2>1, <2>2, Zenon DEF Ends
<1> QED
  BY <1>1, <1>2, Zenon DEF Ends

\* Where the parts of an option lie in n bytes, if it begins behind byte i.
LEMMA OptionBounds ==
  ASSUME NEW i \in Nat, NEW n \in Nat, NEW l \in Nat, NEW ex \in Nat, NEW ey \in Nat,
         i + (1 + ex + ey + l) <= n
  PROVE  /\ i < n /\ i + 1 + ex + ey \in Nat
         /\ i + 1 + ex + ey + l <= n
         /\ i + (1 + ex + ey + l) = i + 1 + ex + ey + l
         /\ ex = 1 => i + 2 <= n
         /\ ey = 1 => i + 2 + ex <= n
         /\ \A k \in 1..l : /\ (i + 1 + ex + ey) + k = i + (1 + ex + ey + k)
                            /\ 1 + ex + ey + k \in 1..(1 + ex + ey + l)
  BY SMT

LEMMA SubSeqAt ==
  ASSUME NEW S, NEW p \in Seq(S), NEW a \in Nat, NEW l \in Nat, a + l <= Len(p)
  PROVE  /\ SubSeq(p, a + 1, a + l) \in Seq(S)
         /\ Len(SubSeq(p, a + 1, a + l)) = l
         /\ \A k \in 1..l : SubSeq(p, a + 1, a + l)[k] = p[a + k]
  BY SMT

\* The decoder at cut c reads what lies up to cut d: both fields, whatever is
\* in the byte behind a field without an extension, and the value.
ReadsBack(p, c, d, b) ==
  LET i  == c.at
      dn == p[i + 1] \div 16
      ln == p[i + 1] % 16
      at == i + 1 + ExtensionSize(dn) + ExtensionSize(ln)
  IN  /\ i < Len(p) /\ p[i + 1] # 255
      /\ dn # 15 /\ ln # 15
      /\ dn >= 13 => i + 2 <= Len(p)
      /\ ln >= 13 => i + 2 + ExtensionSize(dn) <= Len(p)
      /\ \A x : (dn >= 13 => x = p[i + 2]) => FieldValue(dn, x) = d.no - c.no
      /\ \A x : (ln >= 13 => x = p[i + 2 + ExtensionSize(dn)]) => FieldValue(ln, x) = Len(b)
      /\ at \in Nat /\ at + Len(b) = d.at /\ d.at <= Len(p)
      /\ SubSeq(p, at + 1, at + Len(b)) = b

LEMMA OptionRead ==
  ASSUME NEW p \in Seq(Byte), NEW c, IsCut(c), NEW d, IsCut(d), NEW b, Between(p, c, d, b)
  PROVE  ReadsBack(p, c, d, b)
<1> DEFINE i     == c.at
           dn    == p[i + 1] \div 16
           ln    == p[i + 1] % 16
           at    == i + 1 + ExtensionSize(dn) + ExtensionSize(ln)
           delta == d.no - c.no
           code  == EncodedOption(delta, b)
<1>1. /\ b \in Seq(Byte) /\ Len(b) <= 268
      /\ delta \in Nat /\ d.no <= 60
      /\ d.at = i + Len(code) /\ d.at <= Len(p)
      /\ \A k \in 1..Len(code) : p[i + k] = code[k]
  BY Zenon DEF Between
<1>2. c.no \in Nat /\ d.no \in Nat /\ i \in Nat
  BY Zenon DEF IsCut
<1>3. delta <= 268
  BY <1>1, <1>2, SMT
<1> HIDE DEF delta, i
<1>4. LET x == Nibble(delta)
          y == Nibble(Len(b))
      IN  /\ Len(code) = 1 + ExtensionSize(x) + ExtensionSize(y) + Len(b)
          /\ code[1] = x * 16 + y /\ code[1] \div 16 = x /\ code[1] % 16 = y
          /\ \A k \in 1..ExtensionSize(x) : code[1 + k] = Extension(delta)[k]
          /\ \A k \in 1..ExtensionSize(y) :
               code[1 + ExtensionSize(x) + k] = Extension(Len(b))[k]
          /\ \A k \in 1..Len(b) : code[1 + ExtensionSize(x) + ExtensionSize(y) + k] = b[k]
  BY <1>1, CodeLayout, ZenonT(30)
<1> HIDE DEF code
<1>5. PICK l \in Nat, n \in Nat : l = Len(b) /\ n = Len(p) /\ l <= 268
  BY <1>1, SMT
<1> DEFINE x == Nibble(delta)
           y == Nibble(l)
           ex == ExtensionSize(x)
           ey == ExtensionSize(y)
<1>6. /\ \A v : (delta >= 13 => v = Extension(delta)[1]) => FieldValue(x, v) = delta
      /\ x \in 0..13 /\ ex = IF delta >= 13 THEN 1 ELSE 0
  <2>1. \E v : delta >= 13 => v = Extension(delta)[1]
    OBVIOUS
  <2>2. ASSUME NEW v, delta >= 13 => v = Extension(delta)[1]
        PROVE  FieldValue(x, v) = delta /\ x \in 0..13 /\ ex = IF delta >= 13 THEN 1 ELSE 0
    BY <1>1, <1>3, <2>2, FieldRead
  <2> QED
    BY <2>1, <2>2, Zenon
<1>7. /\ \A v : (l >= 13 => v = Extension(l)[1]) => FieldValue(y, v) = l
      /\ y \in 0..13 /\ ey = IF l >= 13 THEN 1 ELSE 0
  <2>1. \E v : l >= 13 => v = Extension(l)[1]
    OBVIOUS
  <2>2. ASSUME NEW v, l >= 13 => v = Extension(l)[1]
        PROVE  FieldValue(y, v) = l /\ y \in 0..13 /\ ey = IF l >= 13 THEN 1 ELSE 0
    BY <1>5, <2>2, FieldRead
  <2> QED
    BY <2>1, <2>2, Zenon
<1>8. x >= 13 <=> delta >= 13
  BY <1>1, <1>3, SMT DEF Nibble
<1>9. y >= 13 <=> l >= 13
  BY <1>5, SMT DEF Nibble
<1> HIDE DEF x, y, ex, ey
<1>10. /\ Len(code) = 1 + ex + ey + l
       /\ code[1] = x * 16 + y /\ code[1] \div 16 = x /\ code[1] % 16 = y
       /\ \A k \in 1..ex : code[1 + k] = Extension(delta)[k]
       /\ \A k \in 1..ey : code[1 + ex + k] = Extension(l)[k]
       /\ \A k \in 1..l : code[1 + ex + ey + k] = b[k]
  BY <1>4, <1>5, Zenon DEF x, y, ex, ey
<1>11. ex \in {0, 1} /\ ey \in {0, 1}
  BY <1>6, <1>7, Zenon
<1>12. \A k \in 1..(1 + ex + ey + l) : p[i + k] = code[k]
  BY <1>1, <1>10, Zenon
<1>13. /\ i < n /\ i + 1 + ex + ey \in Nat
       /\ i + 1 + ex + ey + l <= n
       /\ i + (1 + ex + ey + l) = i + 1 + ex + ey + l
       /\ ex = 1 => i + 2 <= n
       /\ ey = 1 => i + 2 + ex <= n
       /\ \A k \in 1..l : /\ (i + 1 + ex + ey) + k = i + (1 + ex + ey + k)
                          /\ 1 + ex + ey + k \in 1..(1 + ex + ey + l)
  <2>1. i + (1 + ex + ey + l) <= n
    BY <1>1, <1>5, <1>10, Zenon
  <2>2. ex \in Nat /\ ey \in Nat
    BY <1>11, SMT
  <2> QED
    BY <1>2, <2>1, <2>2, OptionBounds, Zenon
<1>26. d.at = i + 1 + ex + ey + l
  BY <1>1, <1>5, <1>10, <1>13, Zenon
<1>14. p[i + 1] = code[1]
  <2>1. 1 \in 1..(1 + ex + ey + l)
    BY <1>11, SMT
  <2> QED
    BY <1>12, <2>1, Zenon
<1>15. dn = x /\ ln = y
  BY <1>10, <1>14, Zenon
<1> HIDE DEF dn, ln
<1>16. at = i + 1 + ex + ey
  BY <1>15, Zenon DEF ex, ey
<1> HIDE DEF at
<1>17. p[i + 1] # 255
  <2>1. \A s, t \in 0..13 : s * 16 + t # 255
    BY SMT
  <2>2. x \in 0..13 /\ y \in 0..13
    BY <1>6, <1>7
  <2>3. p[i + 1] = x * 16 + y
    BY <1>10, <1>14, Zenon
  <2> QED
    BY <2>1, <2>2, <2>3, Zenon
<1>18. ASSUME NEW v, dn >= 13 => v = p[i + 2] PROVE FieldValue(dn, v) = delta
  <2>1. CASE ~(delta >= 13)
    BY <1>6, <1>15, <2>1, Zenon
  <2>2. CASE delta >= 13
    <3>1. ex = 1
      BY <1>6, <2>2, Zenon
    <3>2. 1 \in 1..ex /\ 1 + 1 \in 1..(1 + ex + ey + l) /\ i + (1 + 1) = i + 2
      BY <1>2, <1>11, <3>1, SMT
    <3>3. p[i + 2] = Extension(delta)[1]
      BY <1>10, <1>12, <3>2, Zenon
    <3> QED
      BY <1>6, <1>8, <1>15, <1>18, <2>2, <3>3, Zenon
  <2> QED
    BY <2>1, <2>2
<1>19. ASSUME NEW v, ln >= 13 => v = p[i + 2 + ExtensionSize(dn)] PROVE FieldValue(ln, v) = l
  <2>1. CASE ~(l >= 13)
    BY <1>7, <1>15, <2>1, Zenon
  <2>2. CASE l >= 13
    <3>1. ey = 1
      BY <1>7, <2>2, Zenon
    <3>2. /\ 1 \in 1..ey /\ 1 + ex + 1 \in 1..(1 + ex + ey + l)
          /\ i + (1 + ex + 1) = i + 2 + ex
      BY <1>2, <1>11, <3>1, SMT
    <3>3. p[i + 2 + ex] = Extension(l)[1]
      BY <1>10, <1>12, <3>2, Zenon
    <3>4. ex = ExtensionSize(dn)
      BY <1>15, Zenon DEF ex
    <3> QED
      BY <1>7, <1>9, <1>15, <1>19, <2>2, <3>3, <3>4, Zenon
  <2> QED
    BY <2>1, <2>2
<1>20. dn >= 13 => i + 2 <= n
  <2>1. dn >= 13 => ex = 1
    BY <1>6, <1>8, <1>15, Zenon
  <2> QED
    BY <1>13, <2>1, Zenon
<1>21. ln >= 13 => i + 2 + ExtensionSize(dn) <= n
  <2>1. ln >= 13 => ey = 1
    BY <1>7, <1>9, <1>15, Zenon
  <2>2. ey = 1 => i + 2 + ex <= n
    BY <1>13, Zenon
  <2> QED
    BY <1>15, <2>1, <2>2, Zenon DEF ex
<1>22. SubSeq(p, at + 1, at + l) = b
  <2> DEFINE s == SubSeq(p, at + 1, at + l)
  <2>1. at \in Nat /\ at + l <= Len(p)
    BY <1>5, <1>13, <1>16, Zenon
  <2>2. s \in Seq(Byte) /\ Len(s) = l /\ \A k \in 1..l : s[k] = p[at + k]
    BY <1>5, <2>1, SubSeqAt
  <2>3. \A k \in 1..l : at + k = i + (1 + ex + ey + k) /\ 1 + ex + ey + k \in 1..(1 + ex + ey + l)
    BY <1>13, <1>16, Zenon
  <2>4. \A k \in 1..l : s[k] = b[k]
    <3> TAKE k \in 1..l
    <3>1. s[k] = p[at + k]
      BY <2>2
    <3>2. p[i + (1 + ex + ey + k)] = code[1 + ex + ey + k]
      BY <1>12, <2>3
    <3>3. code[1 + ex + ey + k] = b[k]
      BY <1>10
    <3>4. at + k = i + (1 + ex + ey + k)
      BY <2>3
    <3> QED
      BY <3>1, <3>2, <3>3, <3>4
  <2> HIDE DEF s
  <2>5. s = b
    BY <1>1, <1>5, <2>2, <2>4, SeqEqual
  <2> QED
    BY <2>5, Zenon DEF s
<1>23. i < n /\ at \in Nat
  BY <1>13, <1>16, Zenon
<1>24. dn # 15 /\ ln # 15
  BY <1>6, <1>7, <1>15, SMT
<1>25. at + Len(b) = d.at
  BY <1>5, <1>16, <1>26, Zenon
<1> QED
  BY <1>1, <1>5, <1>17, <1>18, <1>19, <1>20, <1>21, <1>22, <1>23, <1>24, <1>25, Zenon
  DEF delta, i, dn, ln, at, ReadsBack

\* Moving the head of a sequence to the end of what is in front of it.
LEMMA MoveHead ==
  ASSUME NEW S, NEW x \in Seq(S), NEW y \in Seq(S), y # <<>>
  PROVE  /\ Append(x, Head(y)) \o Tail(y) = x \o y
         /\ x \o y # <<>>
         /\ Len(x) + 1 \in 1..Len(x \o y)
         /\ (x \o y)[Len(x) + 1] = Head(y)
<1>1. Len(x \o y) = Len(x) + Len(y) /\ Len(y) >= 1 /\ Len(x) \in Nat /\ Len(y) \in Nat
  BY SMT
<1>2. (x \o y)[Len(x) + 1] = y[1] /\ Head(y) = y[1]
  BY SMT
<1>3. Append(x, Head(y)) \o Tail(y) = x \o y
  <2>1. Head(y) \in S /\ Tail(y) \in Seq(S) /\ Len(Tail(y)) = Len(y) - 1
    BY SMT
  <2>2. Append(x, Head(y)) \in Seq(S)
    BY <2>1, SMT
  <2> QED
    BY <2>1, <2>2, SMT
<1>4. x \o y # <<>>
  BY <1>1, SMT
<1> QED
  BY <1>1, <1>2, <1>3, <1>4, SMT

\* add_option appends the value whose bytes it is given.
LEMMA AddOptionReads ==
  ASSUME NEW o, IsOptionsSet(o), NEW no \in Known, NEW v \in OptionValue(no),
         no \in Repeatable \/ o[no] = <<>>
  PROVE  add_option(o, no, OptionBytes(no, v)) = [o EXCEPT ![no] = Append(o[no], v)]
<1>1. /\ no \in Strings => OptionBytes(no, v) = v /\ v # <<>>
      /\ ValueOf(no, OptionBytes(no, v)) = v /\ Present(no, v)
  BY ValueRoundTrip
<1>2. CASE no \in Repeatable
  <2>1. OptionBytes(no, v) = v /\ v # <<>>
    BY <1>1, <1>2, Kinds
  <2> QED
    BY <1>2, <2>1, Zenon DEF add_option
<1>3. CASE no \notin Repeatable
  <2>1. Append(o[no], v) = <<v>>
    <3>1. o[no] = <<>>
      BY <1>3
    <3>2. Append(<<>>, v) = <<v>>
      BY SMT
    <3> QED
      BY <3>1, <3>2, Zenon
  <2>2. add_option(o, no, OptionBytes(no, v)) = [o EXCEPT ![no] = <<v>>]
    BY <1>1, <1>3, Zenon DEF add_option
  <2> QED
    BY <2>1, <2>2, Zenon
<1> QED
  BY <1>2, <1>3

\* A chain remains one when more bytes are written.
LEMMA ChainGrows ==
  ASSUME NEW p \in Seq(Byte), NEW e \in Seq(Byte), NEW m, NEW C, NEW last,
         Chain(p, m, C, last)
  PROVE  Chain(p \o e, m, C, last)
<1>1. ASSUME NEW q, q = p \o e, NEW c \in C, NEW d \in C, NEW b, Between(p, c, d, b)
      PROVE  Between(q, c, d, b)
  <2>1. IsCut(c)
    BY Zenon DEF Chain
  <2> QED
    BY <1>1, <2>1, BetweenGrows
<1> QED
  BY <1>1, Zenon DEF Chain

\* An option written behind the last cut becomes the last cut.
LEMMA ChainExtends ==
  ASSUME NEW p \in Seq(Byte), NEW e \in Seq(Byte), NEW m, NEW C, NEW last,
         Chain(p, m, C, last), NEW new, IsCut(new), NEW b, Between(p \o e, last, new, b)
  PROVE  Chain(p \o e, m, C \cup {new}, new)
<1>1. Chain(p \o e, m, C, last)
  BY ChainGrows
<1>2. ASSUME NEW q, q = p \o e PROVE Chain(q, m, C \cup {new}, new)
  <2>1. Chain(q, m, C, last) /\ Between(q, last, new, b)
    BY <1>1, <1>2, Zenon
  <2> QED
    BY <2>1, Zenon DEF Chain
<1> QED
  BY <1>2, Zenon

LEMMA StartCut ==
  ASSUME NEW m, IsMessage(m)
  PROVE  IsCut(Start(m)) /\ Start(m).at = 4 + Len(m.token) /\ Start(m).no = 0
         /\ Start(m).opts = NoOptions
<1>1. Start(m).at = 4 + Len(m.token) /\ Start(m).no = 0 /\ Start(m).opts = NoOptions
  BY SMT DEF Start
<1>2. 4 + Len(m.token) \in Nat
  <2>1. PICK n \in 0..8 : n = Len(m.token)
    BY MessageFields
  <2>2. 4 + n \in Nat
    BY SMT
  <2> QED
    BY <2>1, <2>2, Zenon
<1>3. IsOptionsSet(NoOptions) /\ 0 \in Nat
  BY NoOptionsSet
<1> QED
  BY <1>1, <1>2, <1>3, Zenon DEF IsCut

LEMMA SendInv ==
  ASSUME CodecInv, NEW m \in Messages, Send(m)
  PROVE  CodecInv'
<1>1. TypeInv' /\ Len(pdu') = 4 + Len(m.token)
  BY SendType DEF CodecInv
<1>2. msg' = m /\ phase' = "write" /\ left' = m.options /\ lastNo' = 0 /\ gotNo' = 0
  BY Zenon DEF Send
<1>3. IsMessage(m)
  BY CodecAssumption
<1>4. Writing'
  <2> DEFINE st == Start(m)
  <2>1. IsCut(st) /\ st.at = 4 + Len(m.token) /\ st.no = 0 /\ st.opts = NoOptions
    BY <1>3, StartCut
  <2>2. Chain(pdu', m, {st}, st)
    BY <2>1, Zenon DEF Chain
  <2>3. \A no \in Known : m.options[no] = st.opts[no] \o m.options[no]
    <3>1. ASSUME NEW no \in Known PROVE m.options[no] = <<>> \o m.options[no]
      <4>1. m.options[no] \in Seq(OptionValue(no))
        BY <1>3, Zenon DEF IsMessage, IsOptionsSet
      <4> QED
        BY <4>1, SMT
    <3> QED
      BY <2>1, <3>1, NoOptionsSet, Zenon
  <2> HIDE DEF st
  <2> QED
    BY <1>1, <1>2, <2>1, <2>2, <2>3, Zenon DEF Writing
<1> QED
  BY <1>1, <1>2, <1>4, Zenon DEF CodecInv, DecodedIsSent

\* What EncodeOption writes of a short message is a short option.
LEMMA ShortOption ==
  ASSUME NEW m, Short(m), NEW no \in Known, NEW v \in OptionValue(no),
         NEW i \in 1..Len(m.options[no]), m.options[no][i] = v, m.options[no] # <<>>
  PROVE  no <= 60 /\ Len(OptionBytes(no, v)) <= 268
<1>1. no <= 60
  BY Zenon DEF Short
<1>2. CASE no \in Strings
  <2>1. OptionBytes(no, v) = v
    BY <1>2, Zenon DEF OptionBytes
  <2>2. Len(m.options[no][i]) <= 268
    BY <1>2, ZenonT(30) DEF Short
  <2> QED
    BY <1>1, <2>1, <2>2, Zenon
<1>3. CASE no \notin Strings
  <2>1. OptionBytes(no, v) \in Seq(Byte) /\ Len(OptionBytes(no, v)) <= 4
    BY <1>3, ValueRoundTrip
  <2>2. PICK n \in Nat : n = Len(OptionBytes(no, v))
    BY <2>1, SMT
  <2>3. n <= 4 => n <= 268
    BY SMT
  <2> QED
    BY <1>1, <2>1, <2>2, <2>3, Zenon
<1> QED
  BY <1>2, <1>3

LEMMA EncodeOptionInv ==
  ASSUME ShortMessages, CodecInv, EncodeOption
  PROVE  CodecInv'
<1>1. PICK no, code, v :
        /\ no \in Unwritten /\ code \in Seq(Byte)
        /\ v \in OptionValue(no) /\ v = Head(left[no])
        /\ no - lastNo \in Nat
        /\ code = EncodedOption(no - lastNo, OptionBytes(no, v))
        /\ pdu' = pdu \o code
        /\ left' = [left EXCEPT ![no] = Tail(left[no])]
        /\ lastNo' = no
        /\ phase = "write" /\ phase' = phase /\ msg' = msg /\ gotNo' = gotNo
  <2>1. \E no \in Unwritten, code \in Seq(Byte) : \E v :
          /\ v \in OptionValue(no) /\ v = Head(left[no])
          /\ no - lastNo \in Nat
          /\ code = EncodedOption(no - lastNo, OptionBytes(no, v))
          /\ pdu' = pdu \o code
          /\ left' = [left EXCEPT ![no] = Tail(left[no])]
          /\ lastNo' = no
          /\ phase = "write" /\ phase' = phase /\ msg' = msg /\ gotNo' = gotNo
    BY NextWritten, Zenon DEF CodecInv, receiver
  <2> QED
    BY <2>1, Zenon
<1>2. /\ no \in Known /\ left[no] # <<>> /\ IsOptionsSet(left) /\ IsMessage(msg)
      /\ pdu \in Seq(Byte) /\ msg \in Messages
  BY <1>1, Zenon DEF Unwritten, CodecInv, TypeInv, TypeOK
<1>3. PICK C, last : /\ Chain(pdu, msg, C, last)
                     /\ last.at = Len(pdu) /\ last.no = lastNo
                     /\ \A n \in Known : msg.options[n] = last.opts[n] \o left[n]
  BY <1>1, Zenon DEF CodecInv, Writing
<1>4. IsCut(last) /\ IsOptionsSet(last.opts)
  BY <1>3, Zenon DEF Chain, IsCut
<1> DEFINE b   == OptionBytes(no, v)
           S   == OptionValue(no)
           new == [at |-> Len(pdu \o code), no |-> no, opts |-> add_option(last.opts, no, b)]
<1>5. b \in Seq(Byte)
  BY <1>1, <1>2, ValueRoundTrip
<1>6. /\ last.opts[no] \in Seq(S) /\ left[no] \in Seq(S)
      /\ no \in Repeatable \/ Len(msg.options[no]) <= 1
  BY <1>2, <1>4, Zenon DEF IsOptionsSet, IsMessage
<1> HIDE DEF S
<1>7. /\ Append(last.opts[no], v) \o Tail(left[no]) = msg.options[no]
      /\ msg.options[no] # <<>>
      /\ Len(last.opts[no]) + 1 \in 1..Len(msg.options[no])
      /\ msg.options[no][Len(last.opts[no]) + 1] = v
  <2>1. msg.options[no] = last.opts[no] \o left[no]
    BY <1>2, <1>3
  <2>2. ASSUME NEW x \in Seq(S), NEW y \in Seq(S), y # <<>>
        PROVE  /\ Append(x, Head(y)) \o Tail(y) = x \o y /\ x \o y # <<>>
               /\ Len(x) + 1 \in 1..Len(x \o y) /\ (x \o y)[Len(x) + 1] = Head(y)
    BY <2>2, MoveHead
  <2>3. LET x == last.opts[no]
            y == left[no]
        IN  /\ Append(x, Head(y)) \o Tail(y) = x \o y /\ x \o y # <<>>
            /\ Len(x) + 1 \in 1..Len(x \o y) /\ (x \o y)[Len(x) + 1] = Head(y)
    BY <1>2, <1>6, <2>2, Zenon
  <2> QED
    BY <1>1, <2>1, <2>3, Zenon
<1>8. no <= 60 /\ Len(b) <= 268
  <2>1. Short(msg)
    BY <1>2, Zenon DEF ShortMessages
  <2>2. v \in OptionValue(no)
    BY <1>1
  <2>3. PICK i \in 1..Len(msg.options[no]) : msg.options[no][i] = v
    BY <1>7, Zenon
  <2> QED
    BY <1>2, <1>7, <2>1, <2>2, <2>3, ShortOption
<1> HIDE DEF b
<1>9. no \in Repeatable \/ last.opts[no] = <<>>
  <2>1. ASSUME NEW x \in Seq(S), NEW y \in Seq(S), y # <<>>, Len(x \o y) <= 1 PROVE x = <<>>
    BY <2>1, SMT
  <2> QED
    BY <1>2, <1>3, <1>6, <2>1, Zenon
<1>10. add_option(last.opts, no, b) = [last.opts EXCEPT ![no] = Append(last.opts[no], v)]
  <2>1. v \in OptionValue(no)
    BY <1>1
  <2>2. ASSUME NEW o, IsOptionsSet(o), no \in Repeatable \/ o[no] = <<>>
        PROVE  add_option(o, no, OptionBytes(no, v)) = [o EXCEPT ![no] = Append(o[no], v)]
    BY <1>2, <2>1, <2>2, AddOptionReads
  <2> QED
    BY <1>4, <1>9, <2>2, Zenon DEF b
<1>11. /\ IsCut(new) /\ new.at = Len(pdu \o code) /\ new.no = no
       /\ new.opts = add_option(last.opts, no, b)
  <2>1. /\ new.at = Len(pdu \o code) /\ new.no = no
        /\ new.opts = add_option(last.opts, no, b)
    BY Zenon
  <2>2. IsOptionsSet(add_option(last.opts, no, b))
    BY <1>4, <1>5, AddOptionType
  <2>3. no \in Nat
    BY <1>2, Kinds
  <2>4. Len(pdu \o code) \in Nat
    BY <1>1, <1>2, SMT
  <2> QED
    BY <2>1, <2>2, <2>3, <2>4, Zenon DEF IsCut
<1> HIDE DEF new
<1>12. \A n \in Known : msg.options[n] = new.opts[n] \o left'[n]
  <2>1. last.opts = [n \in Known |-> last.opts[n]] /\ left = [n \in Known |-> left[n]]
    BY <1>2, <1>4, Zenon DEF IsOptionsSet
  <2>2. new.opts[no] = Append(last.opts[no], v) /\ left'[no] = Tail(left[no])
    BY <1>1, <1>2, <1>10, <1>11, <2>1, Zenon
  <2>3. ASSUME NEW n \in Known, n # no PROVE new.opts[n] = last.opts[n] /\ left'[n] = left[n]
    BY <1>1, <1>2, <1>10, <1>11, <2>1, <2>3, Zenon
  <2>4. ASSUME NEW n \in Known PROVE msg.options[n] = new.opts[n] \o left'[n]
    <3>1. CASE n = no
      BY <1>7, <2>2, <3>1, Zenon
    <3>2. CASE n # no
      BY <1>3, <2>3, <3>2, Zenon
    <3> QED
      BY <3>1, <3>2
  <2> QED
    BY <2>4
<1>13. Between(pdu \o code, last, new, b)
  <2>1. code = EncodedOption(new.no - last.no, b)
    BY <1>1, <1>3, <1>11, Zenon DEF b
  <2>2. /\ Len(pdu \o code) = Len(pdu) + Len(code)
        /\ \A i \in 1..Len(code) : (pdu \o code)[Len(pdu) + i] = code[i]
    <3>1. ASSUME NEW c, c = pdu \o code
          PROVE  /\ Len(c) = Len(pdu) + Len(code)
                 /\ \A i \in 1..Len(code) : c[Len(pdu) + i] = code[i]
      BY <1>1, <1>2, <3>1, Concat
    <3> QED
      BY <3>1, Zenon
  <2>3. new.no - last.no \in Nat /\ new.no <= 60
    BY <1>1, <1>3, <1>8, <1>11, Zenon
  <2>4. new.at <= Len(pdu \o code)
    <3>1. PICK n \in Nat : n = Len(pdu \o code)
      BY <1>1, <1>2, SMT
    <3>2. n <= n
      BY SMT
    <3> QED
      BY <1>11, <3>1, <3>2, Zenon
  <2> QED
    BY <1>3, <1>5, <1>8, <1>11, <2>1, <2>2, <2>3, <2>4, Zenon DEF Between
<1>14. Writing'
  <2>1. code \in Seq(Byte) /\ IsCut(new)
    BY <1>1, <1>11
  <2>2. Chain(pdu \o code, msg, C \cup {new}, new)
    BY <1>2, <1>3, <2>1, <1>13, ChainExtends
  <2> QED
    BY <1>1, <1>11, <1>12, <2>2, Zenon DEF Writing
<1>15. TypeInv'
  BY EncodeOptionType DEF CodecInv
<1> QED
  BY <1>1, <1>2, <1>14, <1>15, Zenon DEF CodecInv, DecodedIsSent

LEMMA EncodePayloadInv ==
  ASSUME CodecInv, EncodePayload
  PROVE  CodecInv'
<1>1. /\ phase = "write" /\ phase' = "sent" /\ Unwritten = {}
      /\ pdu' = IF msg.payload = <<>> THEN pdu ELSE pdu \o <<255>> \o msg.payload
      /\ msg' = msg /\ gotNo' = gotNo
  BY Zenon DEF EncodePayload, receiver
<1>2. /\ IsMessage(msg) /\ IsOptionsSet(left) /\ pdu \in Seq(Byte) /\ TypeInv
      /\ msg.payload \in Seq(Byte)
  BY MessageFields DEF CodecInv, TypeInv, TypeOK
<1>3. PICK C, last : /\ Chain(pdu, msg, C, last)
                     /\ last.at = Len(pdu) /\ last.no = lastNo
                     /\ \A n \in Known : msg.options[n] = last.opts[n] \o left[n]
  BY <1>1, Zenon DEF CodecInv, Writing
<1>4. IsCut(last) /\ IsOptionsSet(last.opts)
  BY <1>3, Zenon DEF Chain, IsCut
<1>5. last.opts = msg.options
  <2>1. ASSUME NEW n \in Known PROVE msg.options[n] = last.opts[n]
    <3>1. left[n] = <<>>
      BY <1>1, Zenon DEF Unwritten
    <3>2. last.opts[n] \in Seq(OptionValue(n))
      BY <1>4, Zenon DEF IsOptionsSet
    <3>3. last.opts[n] \o <<>> = last.opts[n]
      BY <3>2, SMT
    <3> QED
      BY <1>3, <3>1, <3>3, Zenon
  <2>2. msg.options = [n \in Known |-> msg.options[n]] /\ last.opts = [n \in Known |-> last.opts[n]]
    BY <1>2, <1>4, Zenon DEF IsMessage, IsOptionsSet
  <2> QED
    BY <2>1, <2>2, Zenon
<1>6. Written'
  <2>1. CASE msg.payload = <<>>
    <3>1. Ends(pdu, msg, last)
      BY <1>3, <1>5, <2>1, Zenon DEF Ends
    <3> QED
      BY <1>1, <1>3, <2>1, <3>1, Zenon DEF Written
  <2>2. CASE msg.payload # <<>>
    <3>1. PICK t \in Seq(Byte) : t = <<255>> \o msg.payload
      <4>1. 255 \in Byte
        BY ByteRange
      <4>2. <<255>> \in Seq(Byte)
        BY <4>1, SMT
      <4>3. ASSUME NEW x \in Seq(Byte), NEW y \in Seq(Byte) PROVE x \o y \in Seq(Byte)
        BY <4>3, SMT
      <4> QED
        BY <1>2, <4>2, <4>3, Zenon
    <3>2. t[1] = 255 /\ Len(t) = 1 + Len(msg.payload)
          /\ \A i \in 1..Len(msg.payload) : t[1 + i] = msg.payload[i]
      BY <1>2, <3>1, SMT
    <3>3. pdu' = pdu \o t
      <4>1. 255 \in Byte
        BY ByteRange
      <4>6. <<255>> \in Seq(Byte)
        BY <4>1, SMT
      <4>2. PICK r \in Seq(Byte) : r = <<255>>
        BY <4>6
      <4>3. pdu \o r \o msg.payload = pdu \o (r \o msg.payload)
        <5>1. ASSUME NEW x \in Seq(Byte), NEW y \in Seq(Byte) PROVE x \o r \o y = x \o (r \o y)
          BY <5>1, SMT
        <5> QED
          BY <1>2, <5>1, Zenon
      <4>4. pdu' = pdu \o r \o msg.payload
        BY <1>1, <2>2, <4>2, Zenon
      <4>5. t = r \o msg.payload
        BY <3>1, <4>2, Zenon
      <4> QED
        BY <4>3, <4>4, <4>5
    <3>4. /\ pdu' \in Seq(Byte) /\ Len(pdu') = Len(pdu) + Len(t)
          /\ \A i \in 1..Len(t) : pdu'[Len(pdu) + i] = t[i]
      BY <1>2, <3>3, Concat
    <3>5. Chain(pdu', msg, C, last)
      BY <1>2, <1>3, <3>3, ChainGrows, Zenon
    <3>6. PICK n \in Nat, l \in Nat : n = Len(pdu) /\ l = Len(msg.payload) /\ l >= 1
      BY <1>2, <2>2, SMT
    <3>7. Len(pdu') = n + (1 + l)
      BY <3>2, <3>4, <3>6, Zenon
    <3>8. n + 1 < n + (1 + l)
      BY <3>6, SMT
    <3>9. /\ 1 \in 1..(1 + l)
          /\ n + 2 = (n + 1) + 1 /\ n + (1 + l) = (n + 1) + l
          /\ \A i \in 1..l : (n + 1) + i = n + (1 + i) /\ 1 + i \in 1..(1 + l)
      BY SMT
    <3>13. (\A i \in 1..(1 + l) : pdu'[n + i] = t[i]) /\ \A i \in 1..l : t[1 + i] = msg.payload[i]
      <4>1. Len(t) = 1 + l
        BY <3>2, <3>6, Zenon
      <4>2. \A i \in 1..(1 + l) : pdu'[n + i] = t[i]
        BY <3>4, <3>6, <4>1
      <4>3. \A i \in 1..l : t[1 + i] = msg.payload[i]
        BY <3>2, <3>6
      <4> QED
        BY <4>2, <4>3
    <3>10. pdu'[n + 1] = 255
      <4>1. pdu'[n + 1] = t[1]
        BY <3>9, <3>13
      <4> QED
        BY <3>2, <4>1
    <3>11. SubSeq(pdu', n + 2, n + (1 + l)) = msg.payload
      <4> DEFINE s == SubSeq(pdu', (n + 1) + 1, (n + 1) + l)
      <4>1. s \in Seq(Byte) /\ Len(s) = l /\ \A i \in 1..l : s[i] = pdu'[(n + 1) + i]
        <5>1. n + 1 \in Nat /\ (n + 1) + l <= n + (1 + l)
          BY SMT
        <5>2. (n + 1) + l <= Len(pdu')
          BY <3>7, <5>1, Zenon
        <5>3. ASSUME NEW q \in Seq(Byte), NEW a \in Nat, a + l <= Len(q)
              PROVE  /\ SubSeq(q, a + 1, a + l) \in Seq(Byte)
                     /\ Len(SubSeq(q, a + 1, a + l)) = l
                     /\ \A i \in 1..l : SubSeq(q, a + 1, a + l)[i] = q[a + i]
          BY <5>3, SubSeqAt
        <5> QED
          BY <3>4, <5>1, <5>2, <5>3, Zenon
      <4>2. ASSUME NEW i \in 1..l PROVE s[i] = msg.payload[i]
        <5>1. s[i] = pdu'[(n + 1) + i]
          BY <4>1
        <5>2. (n + 1) + i = n + (1 + i) /\ 1 + i \in 1..(1 + l)
          BY <3>9
        <5>3. pdu'[n + (1 + i)] = t[1 + i]
          BY <3>13, <5>2
        <5>4. t[1 + i] = msg.payload[i]
          BY <3>13
        <5> QED
          BY <5>1, <5>2, <5>3, <5>4
      <4> HIDE DEF s
      <4>3. s = msg.payload
        BY <1>2, <3>6, <4>1, <4>2, SeqEqual
      <4> QED
        BY <3>9, <4>3, Zenon DEF s
    <3>12. Ends(pdu', msg, last)
      BY <1>3, <1>5, <2>2, <3>6, <3>7, <3>8, <3>10, <3>11, Zenon DEF Ends
    <3> QED
      BY <1>1, <3>5, <3>12, Zenon DEF Written
  <2> QED
    BY <2>1, <2>2
<1>7. TypeInv'
  BY <1>2, EncodePayloadType
<1> QED
  BY <1>1, <1>6, <1>7, Zenon DEF CodecInv, DecodedIsSent

LEMMA RefuseInv ==
  ASSUME CodecInv, Refuse
  PROVE  CodecInv'
<1>1. phase' = "refused"
  BY Zenon DEF Refuse
<1>2. TypeInv'
  BY RefuseType DEF CodecInv
<1> QED
  BY <1>1, <1>2, Zenon DEF CodecInv, DecodedIsSent

LEMMA AcceptInv ==
  ASSUME CodecInv, Accept
  PROVE  CodecInv'
<1>1. /\ IsMessage(got')
      /\ got'.type = msg.type /\ got'.code = msg.code /\ got'.id = msg.id
      /\ got'.token = msg.token /\ got'.options = NoOptions /\ got'.payload = <<>>
      /\ idx' = 4 + Len(msg.token)
      /\ phase = "sent" /\ phase' = IF Len(pdu) = 4 + Len(msg.token) THEN "handled" ELSE "read"
      /\ msg' = msg /\ pdu' = pdu /\ gotNo' = gotNo
  BY AcceptStep, Zenon DEF CodecInv
<1>2. IsMessage(msg) /\ pdu \in Seq(Byte) /\ TypeInv' /\ gotNo = 0 /\ msg \in Messages
  BY <1>1, AcceptType DEF CodecInv, TypeInv, TypeOK
<1>3. PICK C, last : Chain(pdu, msg, C, last) /\ Ends(pdu, msg, last)
  BY <1>1, Zenon DEF CodecInv, Written
<1>4. /\ Start(msg) \in C /\ Start(msg).at = 4 + Len(msg.token) /\ Start(msg).no = 0
      /\ Start(msg).opts = NoOptions
  BY <1>2, <1>3, StartCut, Zenon DEF Chain
<1>5. CASE Len(pdu) = 4 + Len(msg.token)
  <2>1. Start(msg).opts = msg.options /\ msg.payload = <<>>
    BY <1>2, <1>3, <1>4, <1>5, AtTheEnd
  <2>2. got' = msg
    BY <1>1, <1>2, <1>4, <2>1, MessageEqual
  <2>3. phase' = "handled"
    BY <1>1, <1>5, Zenon
  <2> QED
    BY <1>1, <1>2, <2>2, <2>3, Zenon DEF CodecInv, DecodedIsSent
<1>6. CASE Len(pdu) # 4 + Len(msg.token)
  <2>1. phase' = "read"
    BY <1>1, <1>6, Zenon
  <2>2. Reading'
    BY <1>1, <1>2, <1>3, <1>4, Zenon DEF Reading
  <2> QED
    BY <1>1, <1>2, <2>1, <2>2, Zenon DEF CodecInv, DecodedIsSent
<1> QED
  BY <1>5, <1>6

LEMMA DecodeOptionInv ==
  ASSUME ShortMessages, CodecInv, DecodeOption
  PROVE  CodecInv'
<1>1. /\ phase = "read" /\ idx < Len(pdu) /\ pdu[idx + 1] # 255
      /\ msg' = msg /\ pdu' = pdu /\ TypeInv /\ TypeInv'
  BY NextRead, DecodeOptionType, Zenon DEF CodecInv, sender
<1>2. /\ IsMessage(msg) /\ IsMessage(got) /\ IsMessage(got)' /\ pdu \in Seq(Byte) /\ msg \in Messages
      /\ idx \in Nat /\ gotNo \in Nat
  BY <1>1, SMT DEF CodecInv, TypeInv, TypeOK, Word16
<1>3. Reading
  BY <1>1, Zenon DEF CodecInv
<1>4. PICK C, last, c : /\ Chain(pdu, msg, C, last) /\ Ends(pdu, msg, last)
                        /\ c \in C /\ c.at = idx /\ c.no = gotNo /\ c.opts = got.options
  BY <1>3, Zenon DEF Reading
<1>5. c # last
  <2> SUFFICES ASSUME c = last PROVE FALSE
    OBVIOUS
  <2>4. Len(pdu) \in Nat
    BY <1>2, SMT
  <2>1. PICK i \in Nat, n \in Nat : i = idx /\ n = Len(pdu) /\ i < n
    BY <1>1, <1>2, <2>4, Zenon
  <2>2. i # n
    BY <2>1, SMT
  <2>3. msg.payload # <<>>
    BY <1>4, <2>1, <2>2, Zenon DEF Ends
  <2> QED
    BY <1>1, <1>4, <2>3, Zenon DEF Ends
<1>6. PICK d, b : d \in C /\ Between(pdu, c, d, b)
  BY <1>4, <1>5, Zenon DEF Chain
<1>7. IsCut(c) /\ IsCut(d)
  BY <1>4, <1>6, Zenon DEF Chain
<1> DEFINE dn == pdu[idx + 1] \div 16
           ln == pdu[idx + 1] % 16
           at == idx + 1 + ExtensionSize(dn) + ExtensionSize(ln)
<1>8. /\ dn # 15 /\ ln # 15
      /\ dn >= 13 => idx + 2 <= Len(pdu)
      /\ ln >= 13 => idx + 2 + ExtensionSize(dn) <= Len(pdu)
      /\ \A x : (dn >= 13 => x = pdu[idx + 2]) => FieldValue(dn, x) = d.no - c.no
      /\ \A x : (ln >= 13 => x = pdu[idx + 2 + ExtensionSize(dn)]) => FieldValue(ln, x) = Len(b)
      /\ at \in Nat /\ at + Len(b) = d.at /\ d.at <= Len(pdu)
      /\ SubSeq(pdu, at + 1, at + Len(b)) = b
  <2>1. pdu \in Seq(Byte) /\ c.at = idx
    BY <1>2, <1>4
  <2>2. ReadsBack(pdu, c, d, b)
    BY <1>6, <1>7, <2>1, OptionRead
  <2> QED
    BY <2>1, <2>2, Zenon DEF ReadsBack
<1>9. PICK db, lb, no, len \in Nat :
        /\ db \in ByteAt(idx + 2) /\ lb \in ByteAt(idx + 2 + ExtensionSize(dn))
        /\ no = Low16(gotNo + FieldValue(dn, db))
        /\ len = FieldValue(ln, lb)
        /\ \/ /\ dn = 15 \/ ln = 15 \/ len > MaxOption \/ Len(pdu) - at < len
              /\ HandleErroneous
           \/ /\ at + len <= Len(pdu)
              /\ gotNo' = no
              /\ got' = [got EXCEPT !.options =
                           add_option(got.options, no, SubSeq(pdu, at + 1, at + len))]
              /\ idx' = at + len
              /\ phase' = IF at + len < Len(pdu) THEN "read" ELSE "handled"
  <2>1. PICK dx, lx, ax, db, lb, no, len \in Nat :
          /\ dx = dn /\ lx = ln
          /\ ax = idx + 1 + ExtensionSize(dx) + ExtensionSize(lx)
          /\ db \in ByteAt(idx + 2) /\ lb \in ByteAt(idx + 2 + ExtensionSize(dx))
          /\ no = Low16(gotNo + FieldValue(dx, db))
          /\ len = FieldValue(lx, lb)
          /\ \/ /\ dx = 15 \/ lx = 15 \/ len > MaxOption \/ Len(pdu) - ax < len
                /\ HandleErroneous
             \/ /\ ax + len <= Len(pdu)
                /\ gotNo' = no
                /\ got' = [got EXCEPT !.options =
                             add_option(got.options, no, SubSeq(pdu, ax + 1, ax + len))]
                /\ idx' = ax + len
                /\ phase' = IF ax + len < Len(pdu) THEN "read" ELSE "handled"
    BY <1>1, NextRead
  <2>2. ax = at
    BY <2>1, Zenon
  <2> QED
    BY <2>1, <2>2, ZenonT(30)
<1> HIDE DEF dn, ln, at
<1>10. FieldValue(dn, db) = d.no - c.no
  <2>1. dn >= 13 => db = pdu[idx + 2]
    BY <1>8, <1>9, Zenon DEF ByteAt
  <2> QED
    BY <1>8, <2>1, Zenon
<1>11. len = Len(b)
  <2>1. ln >= 13 => lb = pdu[idx + 2 + ExtensionSize(dn)]
    BY <1>8, <1>9, Zenon DEF ByteAt
  <2> QED
    BY <1>8, <1>9, <2>1, Zenon
<1>12. no = d.no
  <2>1. c.no \in Nat /\ d.no \in Nat /\ d.no <= 60
    BY <1>6, <1>7, Zenon DEF Between, IsCut
  <2>2. \A x, y \in Nat : y <= 60 => Low16(x + (y - x)) = y
    BY SMT DEF Low16
  <2> QED
    BY <1>4, <1>9, <1>10, <2>1, <2>2, ZenonT(30)
<1>13. at + len = d.at /\ SubSeq(pdu, at + 1, at + len) = b /\ at + len <= Len(pdu)
  BY <1>8, <1>11, Zenon
<1>14. ~(dn = 15 \/ ln = 15 \/ len > MaxOption \/ Len(pdu) - at < len)
  <2>1. len <= 268
    BY <1>6, <1>11, Zenon DEF Between
  <2>2. MaxOption \in Nat /\ MaxOption >= 268
    BY CodecAssumption, Zenon DEF ShortMessages
  <2>3. ~(len > MaxOption)
    BY <2>1, <2>2, SMT
  <2>4. PICK n \in Nat, a \in Nat : n = Len(pdu) /\ a = at
    BY <1>2, <1>8, SMT
  <2>5. a + len <= n
    BY <1>13, <2>4, Zenon
  <2>6. ~(n - a < len)
    BY <2>5, SMT
  <2> QED
    BY <1>8, <2>3, <2>4, <2>6, Zenon
<1>15. /\ gotNo' = d.no /\ idx' = d.at
       /\ got' = [got EXCEPT !.options = add_option(got.options, d.no, b)]
       /\ phase' = IF d.at < Len(pdu) THEN "read" ELSE "handled"
  BY <1>9, <1>12, <1>13, <1>14, Zenon
<1>16. d.opts = add_option(got.options, d.no, b)
  BY <1>4, <1>6, Zenon DEF Between
<1>17. /\ got'.type = got.type /\ got'.code = got.code /\ got'.id = got.id
       /\ got'.token = got.token /\ got'.options = d.opts /\ got'.payload = got.payload
  <2>1. IsOptionsSet(d.opts) /\ <<>> \in Seq(Byte)
    BY <1>7, SMT DEF IsCut
  <2>2. ASSUME NEW o, IsOptionsSet(o), NEW mo, mo = [got EXCEPT !.options = o],
               NEW mp, mp = [got EXCEPT !.payload = <<>>]
        PROVE  /\ mo.type = got.type /\ mo.code = got.code /\ mo.id = got.id
               /\ mo.token = got.token /\ mo.options = o /\ mo.payload = got.payload
    BY <1>2, <2>1, <2>2, MessageWith
  <2>3. got' = [got EXCEPT !.options = d.opts]
    BY <1>15, <1>16
  <2> QED
    BY <2>1, <2>2, <2>3, ZenonT(30)
<1>18. CASE d.at < Len(pdu)
  <2>1. Reading'
    <3>1. d \in C /\ d.at = idx' /\ d.no = gotNo' /\ d.opts = got'.options
      BY <1>6, <1>15, <1>17
    <3>2. Chain(pdu', msg', C, last) /\ Ends(pdu', msg', last)
      BY <1>1, <1>4, Zenon
    <3>3. /\ got'.type = msg'.type /\ got'.code = msg'.code /\ got'.id = msg'.id
          /\ got'.token = msg'.token /\ got'.payload = <<>>
      <4>1. /\ got.type = msg.type /\ got.code = msg.code /\ got.id = msg.id
            /\ got.token = msg.token /\ got.payload = <<>>
        BY <1>3, Zenon DEF Reading
      <4> QED
        BY <1>1, <1>17, <4>1
    <3> QED
      BY <3>1, <3>2, <3>3, Zenon DEF Reading
  <2>2. phase' = "read"
    BY <1>15, <1>18
  <2> QED
    BY <1>1, <1>2, <2>1, <2>2, Zenon DEF CodecInv, DecodedIsSent
<1>19. CASE ~(d.at < Len(pdu))
  <2>1. d.at = Len(pdu)
    <3>1. PICK n \in Nat, a \in Nat : n = Len(pdu) /\ a = d.at
      BY <1>2, <1>7, SMT DEF IsCut
    <3>2. a <= n /\ ~(a < n)
      BY <1>8, <1>19, <3>1, Zenon
    <3>3. a = n
      BY <3>2, SMT
    <3> QED
      BY <3>1, <3>3, Zenon
  <2>2. d.opts = msg.options /\ msg.payload = <<>>
    BY <1>2, <1>4, <1>6, <2>1, AtTheEnd
  <2>3. got' = msg
    BY <1>2, <1>3, <1>17, <2>2, MessageEqual DEF Reading
  <2>4. phase' = "handled"
    BY <1>15, <1>19
  <2> QED
    BY <1>1, <2>3, <2>4, Zenon DEF CodecInv, DecodedIsSent
<1> QED
  BY <1>18, <1>19

LEMMA DecodePayloadInv ==
  ASSUME CodecInv, DecodePayload
  PROVE  CodecInv'
<1>1. /\ phase = "read" /\ idx < Len(pdu) /\ pdu[idx + 1] = 255 /\ TypeInv /\ TypeInv'
  BY DecodePayloadType, Zenon DEF CodecInv, DecodePayload
<1>2. /\ IsMessage(msg) /\ IsMessage(got) /\ IsMessage(got)' /\ pdu \in Seq(Byte)
      /\ idx \in Nat
  BY <1>1, SMT DEF CodecInv, TypeInv, TypeOK
<1>3. Reading
  BY <1>1, Zenon DEF CodecInv
<1>4. PICK C, last, c : /\ Chain(pdu, msg, C, last) /\ Ends(pdu, msg, last)
                        /\ c \in C /\ c.at = idx /\ c.no = gotNo /\ c.opts = got.options
  BY <1>3, Zenon DEF Reading
<1>5. c = last
  <2> SUFFICES ASSUME c # last PROVE FALSE
    OBVIOUS
  <2>1. PICK d, b : d \in C /\ Between(pdu, c, d, b)
    BY <1>4, Zenon DEF Chain
  <2>2. IsCut(c) /\ IsCut(d)
    BY <1>4, <2>1, Zenon DEF Chain
  <2>3. pdu[c.at + 1] # 255
    <3>1. pdu \in Seq(Byte)
      BY <1>2
    <3> QED
      BY <2>1, <2>2, <3>1, OptionRead DEF ReadsBack
  <2> QED
    BY <1>1, <1>4, <2>3, Zenon
<1>6. PICK i \in Nat, n \in Nat : i = idx /\ n = Len(pdu) /\ i < n
  <2>1. Len(pdu) \in Nat
    BY <1>2, SMT
  <2> QED
    BY <1>1, <1>2, <2>1, Zenon
<1>7. /\ msg.options = got.options
      /\ i + 1 < n /\ SubSeq(pdu, idx + 2, Len(pdu)) = msg.payload
  <2>1. i # n
    BY <1>6, SMT
  <2> QED
    BY <1>4, <1>5, <1>6, <2>1, Zenon DEF Ends
<1>8. /\ got' = [got EXCEPT !.payload = SubSeq(pdu, idx + 2, Len(pdu))] /\ phase' = "handled"
      /\ msg' = msg
  <2>1. ~(n - i < 2)
    BY <1>7, SMT
  <2> QED
    BY <1>6, <2>1, Zenon DEF DecodePayload, sender
<1>9. /\ got'.type = got.type /\ got'.code = got.code /\ got'.id = got.id
      /\ got'.token = got.token /\ got'.options = got.options /\ got'.payload = msg.payload
  <2>1. IsOptionsSet(NoOptions) /\ msg.payload \in Seq(Byte)
    BY <1>2, NoOptionsSet, MessageFields
  <2>2. ASSUME NEW p \in Seq(Byte), NEW mp, mp = [got EXCEPT !.payload = p],
               NEW mo, mo = [got EXCEPT !.options = NoOptions]
        PROVE  /\ mp.type = got.type /\ mp.code = got.code /\ mp.id = got.id
               /\ mp.token = got.token /\ mp.options = got.options /\ mp.payload = p
    BY <1>2, <2>1, <2>2, MessageWith
  <2>3. got' = [got EXCEPT !.payload = msg.payload]
    BY <1>7, <1>8
  <2> QED
    BY <2>1, <2>2, <2>3, ZenonT(30)
<1>10. got' = msg
  BY <1>2, <1>3, <1>7, <1>9, MessageEqual DEF Reading
<1> QED
  BY <1>1, <1>8, <1>10, Zenon DEF CodecInv, DecodedIsSent

\* The receiver handles the message that was sent, whatever messages are sent: as
\* long as no delta and no length takes an extension of two bytes, every other
\* value, number of options and payload comes out as it went in.
THEOREM DecodesWhatWasSent ==
  ASSUME ShortMessages PROVE Spec => []DecodedIsSent
<1>1. Init => CodecInv
  <2> SUFFICES ASSUME Init PROVE CodecInv
    OBVIOUS
  <2>1. phase = "idle"
    BY Zenon DEF Init
  <2> QED
    BY <2>1, InitType, Zenon DEF CodecInv, DecodedIsSent
<1>2. CodecInv /\ [Next]_vars => CodecInv'
  <2> SUFFICES ASSUME CodecInv, [Next]_vars PROVE CodecInv'
    OBVIOUS
  <2>1. ASSUME NEW m \in Messages, Send(m) PROVE CodecInv'
    BY <2>1, SendInv
  <2>2. CASE EncodeOption
    BY <2>2, EncodeOptionInv
  <2>3. CASE EncodePayload
    BY <2>3, EncodePayloadInv
  <2>4. CASE Refuse
    BY <2>4, RefuseInv
  <2>5. CASE Accept
    BY <2>5, AcceptInv
  <2>6. CASE DecodeOption
    BY <2>6, DecodeOptionInv
  <2>7. CASE DecodePayload
    BY <2>7, DecodePayloadInv
  <2>8. CASE UNCHANGED vars
    <3>1. TypeInv'
      BY NextType DEF CodecInv
    <3> QED
      BY <2>8, <3>1, Zenon DEF CodecInv, DecodedIsSent, Writing, Written, Reading,
                               vars, sender, receiver
  <2> QED
    BY <2>1, <2>2, <2>3, <2>4, <2>5, <2>6, <2>7, <2>8, Zenon DEF Next
<1>3. CodecInv => DecodedIsSent
  BY Zenon DEF CodecInv
<1> QED
  BY <1>1, <1>2, <1>3, PTL DEF Spec
==============================================================================
