------------------------------ MODULE CoapCodec ------------------------------
(***************************************************************************)
(* The CoAP codec between two devices: a message is written byte by byte   *)
(* into the buffer of MessageSender::send, the datagram is parsed and      *)
(* checked by the stack of the receiver, and read back into the message    *)
(* that is handled.  One action is one round of the option loop of         *)
(* encode_coap_msg and of decode_coap_options.                             *)
(*                                                                         *)
(* Left out: the first pass over the options (parse_coap_options), whose   *)
(* status is ignored and whose results nobody reads; the limit on the      *)
(* payload, which is larger than what a socket receives; the callback that *)
(* selects options, which selects them all; multicast (see ServerStack).   *)
(* An absent Observe option is the value 0xFFFFFFFF, which is no value of  *)
(* an option of three bytes, the longest it may have.                      *)
(***************************************************************************)
EXTENDS Integers, Sequences

CONSTANTS
  Messages,    \* what the stack is given to send
  MaxOption,   \* JA_COAP_CONFIG_MAX_OPTION_SIZE
  PastEnd      \* bytes that follow the datagram in the buffer it is read from

Byte == 0..255

\* The options CoapOptionsSet keeps, by what it keeps of them.
Strings    == {3, 11, 15}                     \* Uri-Host, Uri-Path, Uri-Query
Shorts     == {7, 12, 17, 2049, 2053}         \* kept in 16 bits
Longs      == {6, 28, 60}                     \* Observe, Size2, Size1: 32 bits
Blocks     == {23, 27}                        \* Block2, Block1
Repeatable == {11, 15}
Sizes      == {28, 60}
Known      == Strings \cup Shorts \cup Longs \cup Blocks

\* The numbers of 16 and of 32 bits; TLC cannot write down the largest of them.
Word16 == {n \in Nat : n < 65536}
Word32 == {n \in Nat : n \div 16777216 \in Byte}

\* What a uint16_t keeps of a number.
Low16(n) == n % 65536

BlockNum    == {n \in Nat : n < 1048576}       \* 20 bits
BlockOption == [num : BlockNum, m : BOOLEAN, szx : 0..7]

\* has_uri_host, has_size1, ...: the values that stand for an absent option.
Present(no, v) ==
  /\ no = 3 => v # <<>>
  /\ no \in Shorts => v # 65535
  /\ no \in Sizes => v # 0

OptionValue(no) == IF no \in Strings THEN Seq(Byte) \ {<<>>}
                   ELSE IF no \in Blocks THEN BlockOption
                   ELSE IF no \in Shorts THEN Word16 \ {65535}
                   ELSE IF no \in Sizes THEN Word32 \ {0}
                   ELSE Word32

NoOptions == [no \in Known |-> <<>>]

\* o[no] is the sequence of the values of option no.
IsOptionsSet(o) ==
  /\ o = [no \in Known |-> o[no]]
  /\ \A no \in Known : /\ o[no] \in Seq(OptionValue(no))
                       /\ no \in Repeatable \/ Len(o[no]) <= 1

IsMessage(m) ==
  /\ m = [type |-> m.type, code |-> m.code, id |-> m.id, token |-> m.token,
          options |-> m.options, payload |-> m.payload]
  /\ m.type \in 0..3 /\ m.code \in Byte /\ m.id \in Word16
  /\ m.token \in Seq(Byte) /\ Len(m.token) <= 8
  /\ IsOptionsSet(m.options)
  /\ m.payload \in Seq(Byte)

ASSUME CodecAssumption ==
  /\ \A m \in Messages : IsMessage(m)
  /\ MaxOption \in Nat
  /\ PastEnd \subseteq Byte /\ PastEnd # {}

NoMessage == [type |-> 0, code |-> 0, id |-> 0, token |-> <<>>,
              options |-> NoOptions, payload |-> <<>>]

VARIABLES
  phase,    \* what the two devices are doing
  msg,      \* the message being sent
  pdu,      \* the bytes written so far
  left,     \* the options still to be written
  lastNo,   \* u16_last_option_no of the encoder
  got,      \* the message being read
  idx,      \* bytes read so far
  gotNo     \* last_option_num of the decoder

sender   == <<msg, pdu, left, lastNo>>
receiver == <<got, idx, gotNo>>
vars     == <<phase, sender, receiver>>

------------------------------------------------------------------------------
(* Values of options as bytes, and back.                                   *)

\* Option::set_integer_value: as few bytes as hold the value, none for 0.
IntegerBytes(v) ==
  IF v = 0 THEN <<>>
  ELSE IF v <= 255 THEN <<v>>
  ELSE IF v <= 65535 THEN <<v \div 256, v % 256>>
  ELSE IF v <= 16777215 THEN <<v \div 65536, (v \div 256) % 256, v % 256>>
  ELSE <<v \div 16777216, (v \div 65536) % 256, (v \div 256) % 256, v % 256>>

\* CoapOptionsSet::get_integer_value.  No option is sent with more bytes.
IntegerValue(b) ==
  IF Len(b) = 0 THEN 0
  ELSE IF Len(b) = 1 THEN b[1]
  ELSE IF Len(b) = 2 THEN b[1] * 256 + b[2]
  ELSE IF Len(b) = 3 THEN b[1] * 65536 + b[2] * 256 + b[3]
  ELSE b[1] * 16777216 + b[2] * 65536 + b[3] * 256 + b[4]

\* BlockOption::encode.
BlockBytes(o) ==
  LET end == o.szx + (IF o.m THEN 8 ELSE 0)
      low == (o.num * 16 + end) % 256
  IN  IF o.num = 0 /\ end = 0 THEN <<>>
      ELSE IF o.num < 16 THEN <<low>>
      ELSE IF o.num < 4096 THEN <<o.num \div 16, low>>
      ELSE <<o.num \div 4096, (o.num \div 16) % 256, low>>

\* BlockOption::decode; _num has 20 bits.
BlockValue(b) ==
  LET n   == Len(b)
      num == IF n = 1 THEN b[n] \div 16
             ELSE IF n = 2 THEN b[n] \div 16 + b[n - 1] * 16
             ELSE b[n] \div 16 + b[n - 1] * 16 + b[n - 2] * 4096
  IN  IF n = 0 THEN [num |-> 0, m |-> FALSE, szx |-> 0]
      ELSE [num |-> num % 1048576, m |-> (b[n] \div 8) % 2 = 1, szx |-> b[n] % 8]

OptionBytes(no, v) == IF no \in Strings THEN v
                      ELSE IF no \in Blocks THEN BlockBytes(v)
                      ELSE IntegerBytes(v)

ValueOf(no, b) == IF no \in Strings THEN b
                  ELSE IF no \in Blocks THEN BlockValue(b)
                  ELSE IF no \in Shorts THEN Low16(IntegerValue(b))
                  ELSE IntegerValue(b)

\* Mutant: of several segments the last one is kept.
add_option_last(options, no, b) ==
  IF no \notin Known THEN options
  ELSE [options EXCEPT ![no] = IF Present(no, ValueOf(no, b)) THEN <<ValueOf(no, b)>> ELSE <<>>]

\* CoapOptionsSet::add_option: a number it does not know is skipped, an empty
\* segment is dropped, a second value of an option replaces the first.
add_option(options, no, b) ==
  IF no \notin Known THEN options
  ELSE IF no \in Repeatable
  THEN IF b = <<>> THEN options ELSE [options EXCEPT ![no] = Append(@, b)]
  ELSE [options EXCEPT ![no] =
          IF Present(no, ValueOf(no, b)) THEN <<ValueOf(no, b)>> ELSE <<>>]

------------------------------------------------------------------------------
(* The delta and the length of an option: four bits and what follows them. *)

Nibble(n) == IF n < 13 THEN n ELSE IF n < 269 THEN 13 ELSE 14

\* Mutant: the byte behind an option byte is one too small.
ExtensionLess(n) == IF n < 13 THEN <<>>
                    ELSE IF n < 269 THEN <<n - 14>>
                    ELSE <<((n - 269) \div 256) % 256, (n - 269) % 256>>

Extension(n) == IF n < 13 THEN <<>>
                ELSE IF n < 269 THEN <<n - 13>>
                ELSE <<((n - 269) \div 256) % 256, (n - 269) % 256>>

EncodedOption(delta, b) ==
  <<Nibble(delta) * 16 + Nibble(Len(b))>> \o Extension(delta) \o Extension(Len(b)) \o b

\* b is the byte where the extension begins: of two bytes, it is read twice.
FieldValue(nibble, b) == IF nibble < 13 THEN nibble
                         ELSE IF nibble = 13 THEN b + 13
                         ELSE Low16(b * 256 + b + 269)

ExtensionSize(nibble) == IF nibble < 13 THEN 0 ELSE IF nibble = 13 THEN 1 ELSE 2

ByteAt(i) == IF i <= Len(pdu) THEN {pdu[i]} ELSE PastEnd

------------------------------------------------------------------------------
(* The sender.                                                             *)

Init ==
  /\ phase = "idle"
  /\ msg = NoMessage /\ pdu = <<>> /\ left = NoOptions /\ lastNo = 0
  /\ got = NoMessage /\ idx = 0 /\ gotNo = 0

Header(m) == <<64 + m.type * 16 + Len(m.token), m.code, m.id \div 256, m.id % 256>>

\* MessageSender::send up to the option loop of encode_coap_msg.  Of an empty
\* message (encode_empty_coap_msg) these four bytes are all there is.
Send(m) ==
  /\ phase \in {"idle", "handled", "refused"}
  /\ phase' = "write"
  /\ msg' = m
  /\ pdu' = Header(m) \o m.token
  /\ left' = m.options
  /\ lastNo' = 0
  /\ got' = NoMessage /\ idx' = 0 /\ gotNo' = 0

\* The options in the order of their numbers, those of one number in theirs.
Unwritten == {no \in Known : left[no] # <<>>}

EncodeOption ==
  /\ phase = "write"
  /\ \E no \in Unwritten :
       /\ \A other \in Unwritten : no <= other
       /\ pdu' = pdu \o EncodedOption(no - lastNo, OptionBytes(no, Head(left[no])))
       /\ left' = [left EXCEPT ![no] = Tail(@)]
       /\ lastNo' = no
  /\ UNCHANGED <<phase, msg, receiver>>

EncodePayload ==
  /\ phase = "write"
  /\ Unwritten = {}
  /\ pdu' = IF msg.payload = <<>> THEN pdu ELSE pdu \o <<255>> \o msg.payload
  /\ phase' = "sent"
  /\ UNCHANGED <<msg, left, lastNo, receiver>>

------------------------------------------------------------------------------
(* The receiver.                                                           *)

\* Mutant: three of the four bits.
TokenLengthMasked == pdu[1] % 8

TokenLength == pdu[1] % 16

\* parse_coap_header and the stack on a message without a token, a ping and
\* an erroneous one: they are answered by an RST or dropped.
Refused ==
  \/ (pdu[1] \div 64) % 2 # 1
  \/ TokenLength > 8
  \/ pdu[2] = 0 /\ (Len(pdu) # 4 \/ TokenLength # 0)
  \/ pdu[2] \div 32 \in {1, 6, 7}
  \/ pdu[2] # 0 /\ TokenLength = 0
  \/ pdu[2] = 0 /\ (pdu[1] \div 16) % 4 = 0

Refuse ==
  /\ phase = "sent"
  /\ Refused
  /\ phase' = "refused"
  /\ UNCHANGED <<sender, receiver>>

\* decode_coap_msg up to the options.
Accept ==
  /\ phase = "sent"
  /\ ~Refused
  /\ got' = [type    |-> (pdu[1] \div 16) % 4,
             code    |-> pdu[2],
             id      |-> pdu[3] * 256 + pdu[4],
             token   |-> SubSeq(pdu, 5, 4 + TokenLength),
             options |-> NoOptions,
             payload |-> <<>>]
  /\ idx' = 4 + TokenLength
  /\ phase' = IF Len(pdu) = 4 + TokenLength THEN "handled" ELSE "read"
  /\ UNCHANGED <<gotNo, sender>>

\* decode_coap_options fails: the options are cleared, the error it returns is
\* ignored by the stack, and what has been read is handled.
HandleErroneous ==
  /\ got' = [got EXCEPT !.options = NoOptions]
  /\ phase' = "handled"
  /\ UNCHANGED <<idx, gotNo>>

DecodeOption ==
  /\ phase = "read"
  /\ idx < Len(pdu)
  /\ pdu[idx + 1] # 255
  /\ LET dn == pdu[idx + 1] \div 16
         ln == pdu[idx + 1] % 16
         at == idx + 1 + ExtensionSize(dn) + ExtensionSize(ln)
     IN  \E db \in ByteAt(idx + 2), lb \in ByteAt(idx + 2 + ExtensionSize(dn)) :
           LET no  == Low16(gotNo + FieldValue(dn, db))
               len == FieldValue(ln, lb)
           IN  IF dn = 15 \/ ln = 15 \/ len > MaxOption \/ Len(pdu) - at < len
               THEN HandleErroneous
               ELSE /\ gotNo' = no
                    /\ got' = [got EXCEPT !.options =
                                 add_option(@, no, SubSeq(pdu, at + 1, at + len))]
                    /\ idx' = at + len
                    /\ phase' = IF at + len < Len(pdu) THEN "read" ELSE "handled"
  /\ UNCHANGED sender

\* The payload marker; only behind an option must a byte of payload follow it.
DecodePayload ==
  /\ phase = "read"
  /\ idx < Len(pdu)
  /\ pdu[idx + 1] = 255
  /\ IF idx > 4 + TokenLength /\ Len(pdu) - idx < 2
     THEN HandleErroneous
     ELSE /\ got' = [got EXCEPT !.payload = SubSeq(pdu, idx + 2, Len(pdu))]
          /\ idx' = Len(pdu)
          /\ phase' = "handled"
          /\ UNCHANGED gotNo
  /\ UNCHANGED sender

Next ==
  \/ \E m \in Messages : Send(m)
  \/ EncodeOption \/ EncodePayload
  \/ Refuse \/ Accept \/ DecodeOption \/ DecodePayload

\* Both sides run to the end of what they are doing; nobody has to send.
Code ==
  \/ EncodeOption \/ EncodePayload
  \/ Refuse \/ Accept \/ DecodeOption \/ DecodePayload

Spec     == Init /\ [][Next]_vars
FairSpec == Spec /\ WF_vars(Code)

------------------------------------------------------------------------------
(* Properties.                                                             *)

TypeOK ==
  /\ phase \in {"idle", "write", "sent", "read", "handled", "refused"}
  /\ IsMessage(msg)
  /\ pdu \in Seq(Byte)
  /\ IsOptionsSet(left)
  /\ lastNo \in Known \cup {0}
  /\ IsMessage(got)
  /\ idx \in 0..Len(pdu)
  /\ gotNo \in Word16

\* Every option number is at most 60, and no segment is longer than 268 bytes: no
\* delta and no length takes an extension of two bytes.
Short(m) ==
  \A no \in Known :
    /\ m.options[no] # <<>> => no <= 60
    /\ no \in Strings => \A i \in 1..Len(m.options[no]) : Len(m.options[no][i]) <= 268

ShortMessages == MaxOption >= 268 /\ \A m \in Messages : Short(m)

\* The message the receiver handles is the message that was sent, options,
\* values and payload (encode_coap_msg against decode_coap_msg).
DecodedIsSent == phase = "handled" => got = msg

\* The option the decoder stands at is one the encoder wrote: the delta that
\* follows an option byte is read as it was written.
NumberReadWasWritten == gotNo # 0 => gotNo \in Known /\ msg.options[gotNo] # <<>>

\* A message with a token that is no message of a reserved code is handled as it
\* was sent, whatever its options are: both loops end, and at the same byte.
HandledEventually ==
  phase = "write" /\ msg.token # <<>> ~> phase = "handled" /\ got = msg

==============================================================================
