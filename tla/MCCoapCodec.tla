---------------------------- MODULE MCCoapCodec ----------------------------
EXTENDS CoapCodec

\* Strings on both sides of the limits of the length field: 12 and 13, 268 and
\* 269 bytes.  255 is also the payload marker.
Text(n, b) == [i \in 1..n |-> b]
ShortTexts == {Text(1, 255), Text(12, 97), Text(13, 255), Text(14, 97), Text(268, 97)}
Numbers16  == {0, 1, 255, 256, 60, 65534}
Numbers32  == {1, 255, 256, 65535, 65536, 16777215}
BlockNums  == {0, 1, 15, 16, 4095, 4096, 1048575}

Message(type, code, token, options, payload) ==
  [type |-> type, code |-> code, id |-> 65281, token |-> token,
   options |-> options, payload |-> payload]

Get(options, payload) == Message(0, 1, <<16, 255>>, options, payload)

With(no, vs) == [NoOptions EXCEPT ![no] = vs]

\* Every value of one option alone, before a payload and before nothing.
OneOption ==
  {Get(o, p) : p \in {<<>>, <<255>>},
     o \in {With(no, <<t>>) : no \in Strings, t \in ShortTexts}
           \cup {With(no, <<n>>) : no \in {7, 12, 17}, n \in Numbers16}
           \cup {With(no, <<n>>) : no \in Longs, n \in Numbers32}
           \cup {With(no, <<[num |-> n, m |-> m, szx |-> s]>>) :
                   no \in Blocks, n \in BlockNums, m \in BOOLEAN, s \in {0, 6}}}

\* Several options, and segments of one number behind each other.
Segments == {<<>>, <<Text(1, 97)>>, <<Text(1, 97), Text(13, 98)>>,
             <<Text(2, 97), Text(1, 98), Text(2, 97)>>}
Optional(v) == {<<>>, <<v>>}
ManyOptions ==
  {Message(1, 69, <<1, 2, 3, 4, 5, 6, 7, 8>>,
           [NoOptions EXCEPT ![3] = h, ![11] = p, ![12] = c, ![15] = q,
                             ![23] = b, ![60] = s], d) :
     h \in Optional(Text(13, 104)), p \in Segments, c \in Optional(60), q \in Segments,
     b \in Optional([num |-> 16, m |-> TRUE, szx |-> 2]), s \in Optional(300),
     d \in {<<>>, <<1, 255>>}}

\* Messages without options: answered, refused, empty.
Bare == {Message(t, c, k, NoOptions, p) : t \in 0..3, c \in {1, 69}, k \in {<<>>, <<7>>},
                                          p \in {<<>>, <<255>>}}
        \cup {Message(t, 0, <<>>, NoOptions, <<>>) : t \in 0..3}

MCMessages == OneOption \cup ManyOptions \cup Bare

\* None of them needs a field of 16 bits.
ASSUME MCShort == \A m \in MCMessages : Short(m)

\* The fields of 16 bits: the options of the OCF versions, and long segments.
LongMessages ==
  {Get(o, <<>>) : o \in {With(no, <<2048>>) : no \in {2049, 2053}}
                        \cup {With(no, <<Text(n, 97)>>) : no \in {3, 11}, n \in {268, 269, 300, 526}}}
MCPastEnd == {0, 97}
=============================================================================
