-------------------------- MODULE PacketCodecProofs --------------------------
(***************************************************************************)
(* For every set of packets, every size of their structures, of a byte and *)
(* of a buffer: getData meets the field it expects with every recv when it *)
(* starts at a packet, and the connection carries whole packets in their   *)
(* order, to a reader that has lost its place whatever it finds.           *)
(***************************************************************************)
EXTENDS PacketCodec, SequenceLemmas

-----------------------------------------------------------------------------
(* The inductive invariant.                                                *)

RowBytes(rows) == FlattenSeq([i \in DOMAIN rows |-> EncodeRow(rows[i])])

\* What follows the structures that were read.
Remaining(rows) == RowBytes(rows) \o <<Eof>>

Count(m) == IF m.type \in Lists THEN Len(m.rows) % (2 * Half) ELSE 0

\* Messages are whole packets, but for what was read of the first.
StreamInv ==
  /\ Len(net) = Len(flight)
  /\ \A i \in 2 .. Len(net) : net[i] = Encode(flight[i])

\* The reader is in a packet that it wants, and at the field it reads next.
CountInv(m) ==
  pc = "count" => data = <<>> /\ net[1] = <<Count(m)>> \o Remaining(m.rows)

RowInv(m) ==
  pc = "row" =>
    LET i == Len(data) + 1
    IN  /\ i \in DOMAIN m.rows
        /\ data = SubSeq(m.rows, 1, i - 1)
        /\ net[1] = Remaining(SubSeq(m.rows, i, Len(m.rows)))
        /\ type \in Lists => count = Len(m.rows)

EndInv(m) == pc = "end" => data = m.rows /\ net[1] = <<Eof>>

FieldInv ==
  pc # "header" /\ start = "packet" =>
    /\ net # <<>>
    /\ Len(net[1]) < Len(Encode(flight[1]))
    /\ type = flight[1].type
    /\ CountInv(flight[1])
    /\ RowInv(flight[1])
    /\ EndInv(flight[1])

\* With the header of an earlier packet the server expects one structure, and there is
\* none.
LeftoverInv ==
  pc # "header" /\ start = "nothing" =>
    /\ ~ open /\ net = <<>>
    /\ pc # "end" /\ type \notin Lists

CodecInv == TypeOK /\ StreamInv /\ FieldInv /\ LeftoverInv /\ NoHalfRead

-----------------------------------------------------------------------------
(* What a packet consists of.                                              *)

LEMMA Constants ==
  /\ Half \in Nat /\ Half >= 1 /\ MaxCount \in Nat /\ MaxCount < Half
  /\ Byte \subseteq Nat /\ Types \subseteq Byte /\ Lists \subseteq Types
  /\ Eof \in Byte /\ Payload \subseteq Byte /\ 0 .. MaxCount \subseteq Byte
  /\ \A t \in Types : Size[t] \in Byte /\ Size[t] \in Nat /\ Size[t] >= 1
<1>1. Half \in Nat /\ Half >= 1 /\ MaxCount \in Nat /\ MaxCount < Half
  BY CodecAssumption
<1>2. Byte \subseteq Nat /\ Types \subseteq Byte /\ Lists \subseteq Types
      /\ Eof \in Byte /\ Payload \subseteq Byte /\ 0 .. MaxCount \subseteq Byte
  BY <1>1, CodecAssumption DEF Byte
<1>3. ASSUME NEW t \in Types PROVE Size[t] \in Byte /\ Size[t] \in Nat /\ Size[t] >= 1
  <2>1. Size[t] \in Byte /\ Size[t] # 0
    BY CodecAssumption
  <2>2. QED BY <1>1, <2>1 DEF Byte
<1>4. QED BY <1>1, <1>2, <1>3

Row(t) == [1 .. Size[t] -> Payload]

LEMMA PacketRows ==
  ASSUME NEW m \in Packets
  PROVE  /\ m.type \in Types /\ m = [type |-> m.type, rows |-> m.rows]
         /\ m.rows \in Seq(Row(m.type)) /\ Len(m.rows) \in Nat
         /\ DOMAIN m.rows = 1 .. Len(m.rows) /\ Len(m.rows) <= MaxCount + 1
         /\ IF m.type \in Lists THEN Len(m.rows) <= MaxCount ELSE Len(m.rows) = 1
<1>1. PICK t \in Types : m \in [type : {t}, rows : Rows(t)]
  BY DEF Packets
<1>2. m.type = t /\ m.rows \in Rows(t) /\ m = [type |-> m.type, rows |-> m.rows]
  BY <1>1
<1>3. MaxCount \in Nat
  BY Constants
<1>4. CASE t \in Lists
  <2>1. PICK n \in 0 .. MaxCount : m.rows \in [1 .. n -> Row(t)]
    BY <1>2, <1>4 DEF Rows, Row, BoundedSeq, SeqOf
  <2>2. m.rows \in Seq(Row(t)) /\ Len(m.rows) = n /\ n \in Nat
    BY <1>3, <2>1, SeqDef
  <2>3. QED BY <1>2, <1>3, <1>4, <2>1, <2>2
<1>5. CASE t \notin Lists
  <2>1. m.rows \in [{1} -> Row(t)]
    BY <1>2, <1>5 DEF Rows, Row
  <2>2. {1} = 1 .. 1
    OBVIOUS
  <2>3. m.rows \in Seq(Row(t)) /\ Len(m.rows) = 1
    <3> DEFINE r == m.rows
    <3>1. r \in [1 .. 1 -> Row(t)] /\ DOMAIN r = 1 .. 1
      BY <2>1, <2>2
    <3> HIDE DEF r
    <3>2. r \in Seq(Row(t))
      BY <3>1, SeqDef
    <3>3. Len(r) \in Nat /\ DOMAIN r = 1 .. Len(r)
      BY <3>2, LenProperties
    <3>4. Len(r) = 1
      BY <3>1, <3>3
    <3>5. QED BY <3>2, <3>4 DEF r
  <2>4. QED BY <1>2, <1>3, <1>5, <2>1, <2>2, <2>3
<1>6. QED BY <1>4, <1>5

LEMMA RowEncoded ==
  ASSUME NEW t \in Types, NEW r \in Row(t)
  PROVE  /\ r \in Seq(Byte) /\ Len(r) = Size[t]
         /\ EncodeRow(r) = <<Size[t]>> \o r /\ EncodeRow(r) \in Seq(Byte)
         /\ <<Size[t]>> \in Seq(Byte)
<1>1. Size[t] \in Nat /\ Size[t] \in Byte /\ Payload \subseteq Byte
  BY Constants
<1>2. r \in [1 .. Size[t] -> Payload]
  BY DEF Row
<1>3. r \in Seq(Payload) /\ Len(r) = Size[t]
  BY <1>1, <1>2, SeqDef
<1>4. r \in Seq(Byte)
  BY <1>1, <1>3, SeqMonotonic
<1>5. <<Size[t]>> \in Seq(Byte)
  BY <1>1
<1>6. <<Size[t]>> \o r \in Seq(Byte)
  BY <1>4, <1>5, ConcatProperties
<1>7. QED BY <1>3, <1>4, <1>5, <1>6 DEF EncodeRow

LEMMA RowBytesProperties ==
  ASSUME NEW t \in Types, NEW rows \in Seq(Row(t))
  PROVE  /\ RowBytes(rows) \in Seq(Byte)
         /\ rows = <<>> => RowBytes(rows) = <<>>
         /\ rows # <<>> => RowBytes(rows) = EncodeRow(rows[1]) \o RowBytes(Tail(rows))
<1> DEFINE s == [i \in DOMAIN rows |-> EncodeRow(rows[i])]
<1>1. /\ Len(rows) \in Nat /\ DOMAIN rows = 1 .. Len(rows) /\ (rows = <<>> <=> Len(rows) = 0)
      /\ \A i \in 1 .. Len(rows) : rows[i] \in Row(t)
  BY LenProperties, ToSetProperties, ElementOfSeq
<1>2. s \in [1 .. Len(rows) -> Seq(Byte)]
  <2>1. \A i \in 1 .. Len(rows) : EncodeRow(rows[i]) \in Seq(Byte)
    BY <1>1, RowEncoded
  <2>2. QED BY <1>1, <2>1
<1>3. s \in Seq(Seq(Byte)) /\ Len(s) = Len(rows) /\ RowBytes(rows) = FlattenSeq(s)
      /\ \A i \in 1 .. Len(rows) : s[i] = EncodeRow(rows[i])
  <2>1. s \in Seq(Seq(Byte))
    BY <1>1, <1>2, SeqDef
  <2>2. Len(s) = Len(rows)
    BY <1>1, <1>2, <2>1, LenProperties
  <2>3. QED BY <1>1, <2>1, <2>2 DEF RowBytes
<1> HIDE DEF s
<1>4. s = <<>> <=> rows = <<>>
  BY <1>1, <1>3, ToSetProperties
<1>5. FlattenSeq(s) \in Seq(Byte) /\ (s = <<>> => FlattenSeq(s) = <<>>)
  BY <1>3, FlattenType
<1>6. ASSUME rows # <<>>
      PROVE  RowBytes(rows) = EncodeRow(rows[1]) \o RowBytes(Tail(rows))
  <2> DEFINE u == Tail(rows)
             v == [i \in DOMAIN u |-> EncodeRow(u[i])]
  <2>1. /\ u \in Seq(Row(t)) /\ Len(u) = Len(rows) - 1 /\ DOMAIN u = 1 .. Len(rows) - 1
        /\ \A i \in 1 .. Len(u) : u[i] = rows[i + 1]
    BY <1>6, HeadTailProperties, LenProperties
  <2>2. /\ Tail(s) \in Seq(Seq(Byte)) /\ Len(Tail(s)) = Len(rows) - 1
        /\ DOMAIN Tail(s) = 1 .. Len(rows) - 1
        /\ \A i \in 1 .. Len(rows) - 1 : Tail(s)[i] = s[i + 1]
    BY <1>3, <1>4, <1>6, HeadTailProperties, LenProperties
  <2>3. Tail(s) = v
    <3> DEFINE w == Tail(s)
    <3>1. w \in Seq(Seq(Byte)) /\ DOMAIN w = 1 .. Len(rows) - 1
      BY <2>2
    <3>2. \A i \in 1 .. Len(rows) - 1 : w[i] = EncodeRow(u[i])
      <4> SUFFICES ASSUME NEW i \in 1 .. Len(rows) - 1 PROVE w[i] = EncodeRow(u[i])
        OBVIOUS
      <4>1. i + 1 \in 1 .. Len(rows) /\ i \in 1 .. Len(u)
        BY <1>1, <2>1
      <4>2. QED BY <1>3, <2>1, <2>2, <4>1
    <3> HIDE DEF u, w
    <3>3. QED BY <2>1, <3>1, <3>2, LenProperties DEF w
  <2>4. FlattenSeq(s) = s[1] \o FlattenSeq(Tail(s))
    BY <1>3, <1>4, <1>6, FlattenFirst
  <2>5. s[1] = EncodeRow(rows[1])
    BY <1>1, <1>3, <1>6
  <2>6. QED BY <1>3, <2>3, <2>4, <2>5 DEF RowBytes
<1>7. QED BY <1>3, <1>4, <1>5, <1>6

LEMMA RemainingProperties ==
  ASSUME NEW t \in Types, NEW rows \in Seq(Row(t))
  PROVE  /\ Remaining(rows) \in Seq(Byte) /\ Remaining(rows) # <<>>
         /\ rows = <<>> => Remaining(rows) = <<Eof>>
         /\ rows # <<>> =>
              Remaining(rows) = <<Size[t]>> \o (rows[1] \o Remaining(Tail(rows)))
<1>1. RowBytes(rows) \in Seq(Byte) /\ <<Eof>> \in Seq(Byte) /\ Len(<<Eof>>) = 1
  BY RowBytesProperties, Constants
<1>2. Remaining(rows) \in Seq(Byte) /\ Remaining(rows) # <<>>
  <2>1. RowBytes(rows) \o <<Eof>> = <<>> => <<Eof>> = <<>>
    BY ONLY <1>1, ConcatEqualIffEmpty
  <2>2. QED BY <1>1, <2>1, ConcatProperties DEF Remaining
<1>3. rows = <<>> => Remaining(rows) = <<Eof>>
  <2>1. <<>> \o <<Eof>> = <<Eof>>
    BY <1>1, ConcatEmptySeq
  <2>2. QED BY <2>1, RowBytesProperties DEF Remaining
<1>4. ASSUME rows # <<>>
      PROVE  Remaining(rows) = <<Size[t]>> \o (rows[1] \o Remaining(Tail(rows)))
  <2> DEFINE a == <<Size[t]>>
             b == rows[1]
             c == RowBytes(Tail(rows))
             d == <<Eof>>
  <2>1. Tail(rows) \in Seq(Row(t)) /\ rows[1] \in Row(t)
    BY <1>4, HeadTailProperties, ToSetProperties
  <2>2. a \in Seq(Byte) /\ b \in Seq(Byte) /\ EncodeRow(rows[1]) = a \o b
    BY <2>1, RowEncoded
  <2>3. c \in Seq(Byte) /\ d \in Seq(Byte)
    BY <1>1, <2>1, RowBytesProperties
  <2>4. RowBytes(rows) = (a \o b) \o c
    BY <1>4, <2>2, RowBytesProperties
  <2>5. Remaining(rows) = ((a \o b) \o c) \o d /\ Remaining(Tail(rows)) = c \o d
    BY <2>4 DEF Remaining
  <2> HIDE DEF a, b, c, d
  <2>6. a \in Seq(Byte) /\ b \in Seq(Byte) /\ c \in Seq(Byte)
    BY <2>2, <2>3
  <2>7. (a \o b) \o c = a \o (b \o c)
    BY ONLY <2>6, ConcatAssociative, SMTT(30)
  <2>8. a \in Seq(Byte) /\ b \o c \in Seq(Byte) /\ d \in Seq(Byte)
    BY <2>3, <2>6, ConcatProperties
  <2>9. (a \o (b \o c)) \o d = a \o ((b \o c) \o d)
    BY ONLY <2>8, ConcatAssociative, SMTT(30)
  <2>10. b \in Seq(Byte) /\ c \in Seq(Byte) /\ d \in Seq(Byte)
    BY <2>2, <2>3
  <2>11. (b \o c) \o d = b \o (c \o d)
    BY ONLY <2>10, ConcatAssociative, SMTT(30)
  <2>12. QED BY <2>5, <2>7, <2>9, <2>11 DEF a, b
<1>5. QED BY <1>2, <1>3, <1>4

LEMMA CountRead ==
  ASSUME NEW m \in Packets
  PROVE  /\ Count(m) \in Byte /\ Count(m) \in 0 .. MaxCount
         /\ Signed(Count(m)) = IF m.type \in Lists THEN Len(m.rows) ELSE 0
<1>1. /\ Half \in Nat /\ MaxCount \in Nat /\ MaxCount < Half /\ 0 .. MaxCount \subseteq Byte
      /\ Len(m.rows) \in Nat /\ (m.type \in Lists => Len(m.rows) <= MaxCount)
  BY Constants, PacketRows
<1>2. \A n \in Nat : n < Half => n % (2 * Half) = n
  BY <1>1
<1>3. Count(m) = IF m.type \in Lists THEN Len(m.rows) ELSE 0
  <2> DEFINE n == Len(m.rows)
  <2>1. n \in Nat /\ (m.type \in Lists => n < Half)
    BY <1>1
  <2>2. Count(m) = IF m.type \in Lists THEN n % (2 * Half) ELSE 0
    BY DEF Count
  <2> HIDE DEF n
  <2>3. Count(m) = IF m.type \in Lists THEN n ELSE 0
    BY <1>2, <2>1, <2>2
  <2>4. QED BY <2>3 DEF n
<1>4. Count(m) \in 0 .. MaxCount
  BY <1>1, <1>3
<1>5. Count(m) < Half
  BY <1>1, <1>4
<1>6. QED BY <1>1, <1>3, <1>4, <1>5 DEF Signed

\* A header, and the rest.
LEMMA EncodedPacket ==
  ASSUME NEW m \in Packets
  PROVE  /\ Encode(m) = <<m.type>> \o (<<Count(m)>> \o Remaining(m.rows))
         /\ Remaining(m.rows) \in Seq(Byte) /\ Remaining(m.rows) # <<>>
         /\ <<Count(m)>> \o Remaining(m.rows) \in Seq(Byte)
         /\ <<Count(m)>> \o Remaining(m.rows) # <<>>
         /\ Encode(m) \in Seq(Byte) /\ Encode(m) # <<>>
<1> DEFINE a == <<m.type>>
           b == <<Count(m)>>
           c == RowBytes(m.rows)
           d == <<Eof>>
<1>1. /\ m.type \in Types /\ Types \subseteq Byte /\ Eof \in Byte
      /\ m.rows \in Seq(Row(m.type)) /\ Count(m) \in Byte
  BY Constants, PacketRows, CountRead
<1>2. a \in Seq(Byte) /\ b \in Seq(Byte) /\ d \in Seq(Byte) /\ Len(a) = 1 /\ Len(b) = 1
      /\ a[1] = m.type
  BY <1>1
<1>3. c \in Seq(Byte) /\ Remaining(m.rows) = c \o d /\ Remaining(m.rows) # <<>>
      /\ Remaining(m.rows) \in Seq(Byte)
  BY <1>1, RowBytesProperties, RemainingProperties DEF Remaining
<1>4. Encode(m) = (<<m.type, Count(m)>> \o c) \o d
  BY DEF Encode, Count, RowBytes
<1>5. <<m.type, Count(m)>> = a \o b
  OBVIOUS
<1> HIDE DEF a, b, c, d
<1>6. b \in Seq(Byte) /\ c \in Seq(Byte) /\ d \in Seq(Byte)
  BY <1>2, <1>3
<1>7. ((a \o b) \o c) \o d = a \o (b \o (c \o d))
  <2>1. a \in Seq(Byte) /\ b \in Seq(Byte) /\ c \in Seq(Byte)
    BY <1>2, <1>6
  <2>2. (a \o b) \o c = a \o (b \o c)
    BY ONLY <2>1, ConcatAssociative, SMTT(30)
  <2>3. a \in Seq(Byte) /\ b \o c \in Seq(Byte) /\ d \in Seq(Byte)
    BY <1>6, <2>1, ConcatProperties
  <2>4. (a \o (b \o c)) \o d = a \o ((b \o c) \o d)
    BY ONLY <2>3, ConcatAssociative, SMTT(30)
  <2>5. b \in Seq(Byte) /\ c \in Seq(Byte) /\ d \in Seq(Byte)
    BY <1>6
  <2>6. (b \o c) \o d = b \o (c \o d)
    BY ONLY <2>5, ConcatAssociative, SMTT(30)
  <2>7. QED BY <2>2, <2>4, <2>6
<1> DEFINE r == b \o (c \o d)
<1>11. Encode(m) = a \o r
  BY <1>4, <1>5, <1>7
<1>12. c \o d \in Seq(Byte) /\ r \in Seq(Byte) /\ Len(r) = Len(b) + Len(c \o d)
       /\ Len(c \o d) \in Nat
  <2>1. c \o d \in Seq(Byte)
    BY <1>3
  <2>2. QED BY <1>2, <2>1, ConcatProperties, LenProperties
<1> HIDE DEF r
<1>13. r # <<>>
  <2>1. Len(r) # 0
    BY <1>2, <1>12
  <2>2. QED BY <1>12, <2>1, ToSetProperties
<1>14. a \o r \in Seq(Byte) /\ Len(a \o r) = Len(a) + Len(r) /\ Len(r) \in Nat
  BY <1>2, <1>12, ConcatProperties, LenProperties
<1>15. a \o r # <<>>
  <2>1. Len(a \o r) # 0
    BY <1>2, <1>14
  <2>2. QED BY <1>14, <2>1, ToSetProperties
<1>16. r = <<Count(m)>> \o Remaining(m.rows) /\ a = <<m.type>>
  <2>1. r = b \o Remaining(m.rows)
    BY <1>3 DEF r
  <2>2. QED BY <2>1 DEF a, b
<1>17. QED BY <1>3, <1>11, <1>12, <1>13, <1>14, <1>15, <1>16

-----------------------------------------------------------------------------
(* A recv, and what is left after it.                                      *)

LEMMA Parts ==
  ASSUME NEW S, NEW a \in Seq(S), NEW b \in Seq(S)
  PROVE  /\ Len(a \o b) = Len(a) + Len(b) /\ Len(a) \in Nat /\ Len(b) \in Nat
         /\ SubSeq(a \o b, 1, Len(a)) = a
         /\ SubSeq(a \o b, Len(a) + 1, Len(a \o b)) = b
<1> DEFINE c == a \o b
<1>1. /\ c \in Seq(S) /\ Len(c) = Len(a) + Len(b) /\ Len(a) \in Nat /\ Len(b) \in Nat
      /\ \A i \in 1 .. Len(a) + Len(b) : c[i] = IF i <= Len(a) THEN a[i] ELSE b[i - Len(a)]
  BY ConcatProperties, LenProperties
<1> HIDE DEF c
<1>2. \A i \in 1 .. Len(a) + Len(b) : c[i] \in S
  BY <1>1, ElementOfSeq
<1>3. SubSeq(c, 1, Len(a)) = a
  <2> DEFINE d == SubSeq(c, 1, Len(a))
  <2>1. \A i \in 1 .. Len(a) : c[i] = a[i] /\ c[i] \in S
    BY <1>1, <1>2
  <2>2. /\ d \in Seq(S) /\ Len(d) = IF 1 <= Len(a) THEN Len(a) - 1 + 1 ELSE 0
        /\ \A i \in 1 .. Len(a) - 1 + 1 : d[i] = c[1 + i - 1]
    BY <1>1, <2>1, SubSeqProperties
  <2>3. \A i \in 1 .. Len(a) : i \in 1 .. Len(a) - 1 + 1 /\ 1 + i - 1 = i
    BY <1>1
  <2> HIDE DEF d
  <2>4. Len(d) = Len(a) /\ \A i \in 1 .. Len(d) : d[i] = a[i]
    BY <1>1, <2>1, <2>2, <2>3
  <2>5. d = a
    BY <2>2, <2>4, SeqEqual
  <2>6. QED BY <2>5 DEF d
<1>4. SubSeq(c, Len(a) + 1, Len(c)) = b
  <2> DEFINE d == SubSeq(c, Len(a) + 1, Len(c))
             n == Len(a)
             k == Len(c)
  <2>1. n \in Nat /\ k \in Nat /\ n + 1 \in Int /\ k = n + Len(b)
        /\ \A i \in n + 1 .. k : c[i] \in S
    BY <1>1, <1>2
  <2>2. /\ d \in Seq(S) /\ Len(d) = IF n + 1 <= k THEN k - (n + 1) + 1 ELSE 0
        /\ \A i \in 1 .. k - (n + 1) + 1 : d[i] = c[(n + 1) + i - 1]
    BY <2>1, SubSeqProperties
  <2> HIDE DEF d, n, k
  <2>3. Len(d) = Len(b)
    BY <1>1, <2>1, <2>2
  <2>4. ASSUME NEW i \in 1 .. Len(b) PROVE d[i] = b[i]
    <3>1. i \in 1 .. k - (n + 1) + 1 /\ (n + 1) + i - 1 = n + i
      BY <1>1, <2>1
    <3>2. n + i \in 1 .. n + Len(b) /\ ~ (n + i <= n) /\ (n + i) - n = i
      BY <1>1, <2>1
    <3>3. c[n + i] = b[i]
      BY <1>1, <3>2 DEF n
    <3>4. d[i] = c[n + i]
      BY <2>2, <3>1
    <3>5. QED BY <3>3, <3>4
  <2>5. d = b
    BY <2>2, <2>3, <2>4, SeqEqual
  <2>6. QED BY <2>5 DEF d, n, k
<1>5. QED BY <1>1, <1>3, <1>4 DEF c

\* A recv of as many bytes as the next field has returns the field.
LEMMA Recv ==
  ASSUME NEW ms \in Seq(Seq(Byte)), ms # <<>>, NEW a \in Seq(Byte), a # <<>>,
         NEW b \in Seq(Byte), ms[1] = a \o b
  PROVE  /\ Head(Head(ms)) = a[1] /\ Chunk(ms, Len(a)) = a
         /\ After(ms, Len(a)) = IF b = <<>> THEN Tail(ms) ELSE <<b>> \o Tail(ms)
<1> DEFINE c == a \o b
<1>1. /\ Len(c) = Len(a) + Len(b) /\ Len(a) \in Nat /\ Len(b) \in Nat
      /\ SubSeq(c, 1, Len(a)) = a /\ SubSeq(c, Len(a) + 1, Len(c)) = b
  BY Parts
<1>2. Len(a) # 0 /\ (b = <<>> <=> Len(b) = 0)
  BY ToSetProperties
<1>3. Head(ms) = c /\ c \in Seq(Byte)
  BY ConcatProperties
<1>4. Head(c) = a[1]
  <2>1. 1 \in 1 .. Len(a) + Len(b) /\ 1 <= Len(a)
    BY <1>1, <1>2
  <2>2. c[1] = a[1]
    BY <2>1, ConcatProperties
  <2>3. QED BY <1>1, <1>2, <1>3, <2>2
<1> HIDE DEF c
<1>5. Chunk(ms, Len(a)) = a
  <2>1. Chunk(ms, Len(a)) = SubSeq(c, 1, IF Len(a) < Len(c) THEN Len(a) ELSE Len(c))
    BY <1>3 DEF Chunk
  <2>2. Len(a) < Len(c) \/ Len(c) = Len(a)
    <3>1. \A x, y \in Nat : x < x + y \/ x + y = x
      OBVIOUS
    <3>2. Len(c) = Len(a) + Len(b) /\ Len(a) \in Nat /\ Len(b) \in Nat
      BY <1>1
    <3>3. QED BY ONLY <3>1, <3>2
  <2>3. QED BY <1>1, <2>1, <2>2
<1>6. CASE b = <<>>
  <2>1. ~ (Len(a) < Len(c))
    BY <1>1, <1>2, <1>6
  <2>2. QED BY <1>3, <1>4, <1>5, <1>6, <2>1 DEF After
<1>7. CASE b # <<>>
  <2>1. Len(a) < Len(c)
    BY <1>1, <1>2, <1>7
  <2>2. QED BY <1>1, <1>3, <1>4, <1>5, <1>7, <2>1 DEF After
<1>8. QED BY <1>6, <1>7

\* One message in front of the others.
LEMMA InFront ==
  ASSUME NEW S, NEW ms \in Seq(S), ms # <<>>, NEW b \in S
  PROVE  LET r == <<b>> \o Tail(ms)
         IN  /\ r \in Seq(S) /\ Len(r) = Len(ms) /\ r # <<>> /\ r[1] = b /\ Tail(r) = Tail(ms)
             /\ \A i \in 2 .. Len(ms) : r[i] = ms[i]
<1> DEFINE r == <<b>> \o Tail(ms)
           u == Tail(ms)
<1>1. /\ Len(ms) \in Nat /\ Len(ms) # 0 /\ u \in Seq(S) /\ Len(u) = Len(ms) - 1
      /\ \A i \in 1 .. Len(u) : u[i] = ms[i + 1]
  BY HeadTailProperties, LenProperties, ToSetProperties
<1>2. <<b>> \in Seq(S) /\ Len(<<b>>) = 1 /\ <<b>>[1] = b
  OBVIOUS
<1>3. /\ r \in Seq(S) /\ Len(r) = 1 + Len(u)
      /\ \A i \in 1 .. 1 + Len(u) : r[i] = IF i <= 1 THEN b ELSE u[i - 1]
  BY <1>1, <1>2, ConcatProperties
<1> HIDE DEF r, u
<1>4. Len(r) = Len(ms) /\ r # <<>>
  BY <1>1, <1>3, ToSetProperties
<1>5. r[1] = b
  <2>1. 1 \in 1 .. 1 + Len(u) /\ 1 <= 1
    BY <1>1
  <2>2. QED BY <1>3, <2>1
<1>6. ASSUME NEW i \in 2 .. Len(ms) PROVE r[i] = ms[i]
  <2>1. i \in 1 .. 1 + Len(u) /\ ~ (i <= 1) /\ i - 1 \in 1 .. Len(u) /\ (i - 1) + 1 = i
    BY <1>1
  <2>2. r[i] = u[i - 1] /\ u[i - 1] = ms[(i - 1) + 1]
    BY <1>1, <1>3, <2>1
  <2>3. QED BY <2>1, <2>2
<1>7. Tail(r) = u
  <2> DEFINE v == Tail(r)
  <2>1. /\ v \in Seq(S) /\ Len(v) = Len(u)
        /\ \A i \in 1 .. Len(v) : v[i] = r[i + 1]
    BY <1>1, <1>3, <1>4, HeadTailProperties
  <2> HIDE DEF v
  <2>2. ASSUME NEW i \in 1 .. Len(v) PROVE v[i] = u[i]
    <3>1. i + 1 \in 2 .. Len(ms) /\ i \in 1 .. Len(u)
      BY <1>1, <2>1
    <3>2. QED BY <1>1, <1>6, <2>1, <3>1
  <2>3. v = u
    BY <1>1, <2>1, <2>2, SeqEqual
  <2>4. QED BY <2>3 DEF v
<1>8. QED BY <1>3, <1>4, <1>5, <1>6, <1>7 DEF r, u

LEMMA FirstOnes ==
  ASSUME NEW S, NEW s \in Seq(S), NEW n \in 0 .. Len(s)
  PROVE  /\ SubSeq(s, 1, n) \in Seq(S) /\ Len(SubSeq(s, 1, n)) = n
         /\ \A i \in 1 .. n : SubSeq(s, 1, n)[i] = s[i]
<1> DEFINE d == SubSeq(s, 1, n)
<1>1. Len(s) \in Nat /\ n \in Nat /\ \A i \in 1 .. n : s[i] \in S
  BY LenProperties, ElementOfSeq
<1>2. /\ d \in Seq(S) /\ Len(d) = IF 1 <= n THEN n - 1 + 1 ELSE 0
      /\ \A i \in 1 .. n - 1 + 1 : d[i] = s[1 + i - 1]
  BY <1>1, SubSeqProperties
<1>3. \A i \in 1 .. n : i \in 1 .. n - 1 + 1 /\ 1 + i - 1 = i
  BY <1>1
<1> HIDE DEF d
<1>4. Len(d) = n /\ \A i \in 1 .. n : d[i] = s[i]
  BY <1>1, <1>2, <1>3
<1>5. QED BY <1>2, <1>4 DEF d

\* What reading may leave of messages: of the first that is left perhaps a part.
Rest(ms, r) ==
  /\ r \in Seq(Seq(Byte) \ {<<>>})
  /\ Len(r) <= Len(ms)
  /\ \A i \in 2 .. Len(r) : r[i] = ms[Len(ms) - Len(r) + i]

LEMMA AfterRest ==
  ASSUME NEW ms \in Seq(Seq(Byte) \ {<<>>}), NEW n \in Nat
  PROVE  Rest(ms, After(ms, n)) /\ Chunk(ms, n) \in Seq(Byte)
<1>1. CASE ms = <<>>
  <2>1. After(ms, n) = <<>> /\ Chunk(ms, n) = <<>> /\ Len(<<>>) = 0
    BY <1>1 DEF After, Chunk
  <2>2. <<>> \in Seq(Byte) /\ <<>> \in Seq(Seq(Byte) \ {<<>>}) /\ Len(ms) = 0
    BY <1>1
  <2>3. \A i \in 2 .. 0 : FALSE
    OBVIOUS
  <2>4. QED BY <2>1, <2>2, <2>3 DEF Rest
<1>2. CASE ms # <<>>
  <2> DEFINE S == Seq(Byte) \ {<<>>}
             h == Head(ms)
  <2>1. h \in S /\ Len(ms) \in Nat /\ Len(ms) # 0
    BY <1>2, LenProperties, ToSetProperties
  <2>2. h \in Seq(Byte) /\ Len(h) \in Nat /\ Len(h) # 0
    BY <2>1, LenProperties, ToSetProperties
  <2> HIDE DEF h
  <2>3. Chunk(ms, n) \in Seq(Byte)
    <3>1. ASSUME NEW k \in 0 .. Len(h) PROVE SubSeq(h, 1, k) \in Seq(Byte)
      BY <2>2, FirstOnes
    <3>2. (IF n < Len(h) THEN n ELSE Len(h)) \in 0 .. Len(h)
      BY <2>2
    <3>3. Chunk(ms, n) = SubSeq(h, 1, IF n < Len(h) THEN n ELSE Len(h))
      BY <1>2 DEF Chunk, h
    <3>4. QED BY <3>1, <3>2, <3>3
  <2>4. CASE n < Len(h)
    <3> DEFINE d == SubSeq(h, n + 1, Len(h))
    <3>1. \A i \in n + 1 .. Len(h) : h[i] \in Byte
      BY <2>2, ElementOfSeq
    <3>2. d \in Seq(Byte) /\ Len(d) = IF n + 1 <= Len(h) THEN Len(h) - (n + 1) + 1 ELSE 0
      BY <2>2, <3>1, SubSeqProperties
    <3> HIDE DEF d
    <3>3. Len(d) # 0
      BY <2>2, <2>4, <3>2
    <3>4. d \in S
      BY <3>2, <3>3, ToSetProperties
    <3> DEFINE r == <<d>> \o Tail(ms)
    <3> HIDE DEF S
    <3>5. ms \in Seq(S)
      BY DEF S
    <3>6. r \in Seq(S) /\ Len(r) = Len(ms) /\ \A i \in 2 .. Len(ms) : r[i] = ms[i]
      BY <1>2, <3>4, <3>5, InFront
    <3> HIDE DEF r
    <3>7. \A i \in 2 .. Len(r) : Len(ms) - Len(r) + i = i
      BY <2>1, <3>6
    <3>8. Rest(ms, r)
      BY <2>1, <3>6, <3>7 DEF Rest, S
    <3>9. After(ms, n) = r
      BY <1>2, <2>4 DEF After, r, d, h
    <3>10. QED BY <2>3, <3>8, <3>9
  <2>5. CASE ~ (n < Len(h))
    <3> DEFINE r == Tail(ms)
    <3>1. /\ r \in Seq(S) /\ Len(r) = Len(ms) - 1
          /\ \A i \in 1 .. Len(r) : r[i] = ms[i + 1]
      BY <1>2, HeadTailProperties
    <3> HIDE DEF r, S
    <3>2. \A i \in 2 .. Len(r) : i \in 1 .. Len(r) /\ Len(ms) - Len(r) + i = i + 1
      BY <2>1, <3>1
    <3>3. Rest(ms, r)
      BY <2>1, <3>1, <3>2 DEF Rest, S
    <3>4. After(ms, n) = r
      BY <1>2, <2>5 DEF After, r, h
    <3>5. QED BY <2>3, <3>3, <3>4
  <2>6. QED BY <2>4, <2>5
<1>3. QED BY <1>1, <1>2

LEMMA RestTransitive ==
  ASSUME NEW ms \in Seq(Seq(Byte) \ {<<>>}), NEW q, NEW r, Rest(ms, q), Rest(q, r)
  PROVE  Rest(ms, r)
<1>1. q \in Seq(Seq(Byte) \ {<<>>}) /\ r \in Seq(Seq(Byte) \ {<<>>})
  BY DEF Rest
<1>2. Len(ms) \in Nat /\ Len(q) \in Nat /\ Len(r) \in Nat
  BY <1>1, LenProperties
<1>3. Len(r) <= Len(q) /\ Len(q) <= Len(ms)
  BY DEF Rest
<1>4. ASSUME NEW i \in 2 .. Len(r) PROVE r[i] = ms[Len(ms) - Len(r) + i]
  <2> DEFINE j == Len(q) - Len(r) + i
  <2>1. j \in 2 .. Len(q) /\ Len(ms) - Len(q) + j = Len(ms) - Len(r) + i
    BY <1>2, <1>3
  <2>2. r[i] = q[j]
    BY DEF Rest
  <2> HIDE DEF j
  <2>3. q[j] = ms[Len(ms) - Len(q) + j]
    BY <2>1 DEF Rest
  <2>4. QED BY <2>1, <2>2, <2>3
<1>5. Len(r) <= Len(ms)
  BY <1>2, <1>3
<1>6. QED BY <1>1, <1>4, <1>5 DEF Rest

-----------------------------------------------------------------------------
(* The messages of which nothing is left are gone, the others stay.        *)

LEMMA CodecTypes ==
  ASSUME CodecInv
  PROVE  /\ net \in Seq(Seq(Byte) \ {<<>>}) /\ net \in Seq(Seq(Byte))
         /\ flight \in Seq(Packets) /\ Len(net) \in Nat /\ Len(net) = Len(flight)
         /\ Len(net) <= Buffer /\ (net = <<>> <=> Len(net) = 0)
         /\ flight = <<>> <=> Len(net) = 0
         /\ net # <<>> => /\ flight[1] \in Packets /\ net[1] \in Seq(Byte) /\ net[1] # <<>>
                          /\ Head(flight) = flight[1] /\ Head(net) = net[1]
<1>1. /\ net \in Seq(Seq(Byte) \ {<<>>}) /\ flight \in Seq(Packets) /\ Len(net) = Len(flight)
      /\ Len(net) <= Buffer
  BY DEF CodecInv, TypeOK, StreamInv
<1>2. net \in Seq(Seq(Byte))
  BY <1>1, SeqMonotonic
<1>3. Len(net) \in Nat /\ (net = <<>> <=> Len(net) = 0) /\ (flight = <<>> <=> Len(flight) = 0)
  BY <1>1, LenProperties, ToSetProperties
<1>4. ASSUME net # <<>>
      PROVE  /\ flight[1] \in Packets /\ net[1] \in Seq(Byte) \ {<<>>}
             /\ Head(flight) = flight[1] /\ Head(net) = net[1]
  <2>1. 1 \in 1 .. Len(net) /\ 1 \in 1 .. Len(flight)
    BY <1>1, <1>3, <1>4
  <2>2. QED BY <1>1, <1>3, <1>4, <2>1, ElementOfSeq
<1>5. QED BY <1>1, <1>2, <1>3, <1>4

\* A part of the first message is left.
LEMMA PartLeft ==
  ASSUME CodecInv, net # <<>>, NEW b \in Seq(Byte), b # <<>>, LeaveOf(<<b>> \o Tail(net))
  PROVE  /\ net' \in Seq(Seq(Byte) \ {<<>>}) /\ Len(net') <= Buffer /\ net' # <<>>
         /\ flight' = flight /\ net'[1] = b /\ StreamInv' /\ open' = open
<1> DEFINE r == <<b>> \o Tail(net)
<1>1. /\ net \in Seq(Seq(Byte) \ {<<>>}) /\ flight \in Seq(Packets) /\ Len(net) \in Nat
      /\ Len(net) = Len(flight) /\ Len(net) <= Buffer
  BY CodecTypes
<1>2. /\ r \in Seq(Seq(Byte) \ {<<>>}) /\ Len(r) = Len(net) /\ r # <<>> /\ r[1] = b
      /\ \A i \in 2 .. Len(net) : r[i] = net[i]
  BY <1>1, InFront
<1>3. net' = r /\ flight' = SubSeq(flight, 1 + Len(net) - Len(r), Len(flight)) /\ open' = open
  BY DEF LeaveOf
<1> HIDE DEF r
<1>4. 1 + Len(net) - Len(r) = 1
  BY <1>1, <1>2
<1>5. flight' = flight
  BY <1>1, <1>3, <1>4, SubSeqFull
<1>6. StreamInv'
  BY <1>1, <1>2, <1>3, <1>5 DEF CodecInv, StreamInv
<1>7. QED BY <1>1, <1>2, <1>3, <1>5, <1>6

\* Nothing of the first message is left.
LEMMA NothingLeft ==
  ASSUME CodecInv, net # <<>>, LeaveOf(Tail(net))
  PROVE  /\ net' \in Seq(Seq(Byte) \ {<<>>}) /\ Len(net') <= Buffer
         /\ flight' = Tail(flight) /\ flight' \in Seq(Packets) /\ StreamInv' /\ open' = open
         /\ net' # <<>> => net'[1] = Encode(flight'[1])
<1> DEFINE r == Tail(net)
           g == Tail(flight)
<1>1. /\ net \in Seq(Seq(Byte) \ {<<>>}) /\ flight \in Seq(Packets) /\ Len(net) \in Nat
      /\ Len(net) = Len(flight) /\ Len(net) <= Buffer /\ Len(net) # 0 /\ flight # <<>>
      /\ Buffer \in Nat
  BY CodecTypes, CodecAssumption
<1>2. /\ r \in Seq(Seq(Byte) \ {<<>>}) /\ Len(r) = Len(net) - 1
      /\ \A i \in 1 .. Len(r) : r[i] = net[i + 1]
  BY <1>1, HeadTailProperties
<1>3. /\ g \in Seq(Packets) /\ Len(g) = Len(net) - 1 /\ g = SubSeq(flight, 2, Len(flight))
      /\ \A i \in 1 .. Len(g) : g[i] = flight[i + 1]
  BY <1>1, HeadTailProperties, TailIsSubSeq
<1>4. net' = r /\ flight' = SubSeq(flight, 1 + Len(net) - Len(r), Len(flight)) /\ open' = open
  BY DEF LeaveOf
<1> HIDE DEF r, g
<1>5. 1 + Len(net) - Len(r) = 2
  BY <1>1, <1>2
<1>6. flight' = g
  BY <1>3, <1>4, <1>5
<1>7. ASSUME NEW i \in 1 .. Len(r) PROVE r[i] = Encode(g[i])
  <2>1. i + 1 \in 2 .. Len(net) /\ i \in 1 .. Len(g)
    BY <1>1, <1>2, <1>3
  <2>2. net[i + 1] = Encode(flight[i + 1])
    BY <2>1 DEF CodecInv, StreamInv
  <2>3. QED BY <1>2, <1>3, <2>1, <2>2
<1>8. StreamInv'
  <2>1. \A i \in 2 .. Len(r) : i \in 1 .. Len(r)
    BY <1>1, <1>2
  <2>2. QED BY <1>2, <1>3, <1>4, <1>6, <1>7, <2>1 DEF StreamInv
<1>9. r # <<>> => r[1] = Encode(g[1])
  <2>1. r # <<>> => 1 \in 1 .. Len(r)
    BY <1>1, <1>2, ToSetProperties
  <2>2. QED BY <1>7, <2>1
<1>10. Len(r) <= Buffer
  BY <1>1, <1>2
<1>11. QED BY <1>2, <1>3, <1>4, <1>6, <1>8, <1>9, <1>10 DEF g

\* Whatever is read, whole packets follow what is left of the first message.
LEMMA RestLeft ==
  ASSUME CodecInv, NEW r, Rest(net, r), LeaveOf(r)
  PROVE  /\ net' \in Seq(Seq(Byte) \ {<<>>}) /\ Len(net') <= Buffer
         /\ flight' \in Seq(Packets) /\ StreamInv' /\ open' = open
         /\ \E n \in 0 .. Len(flight) : flight' = SubSeq(flight, n + 1, Len(flight))
<1>1. /\ net \in Seq(Seq(Byte) \ {<<>>}) /\ flight \in Seq(Packets) /\ Len(net) \in Nat
      /\ Len(net) = Len(flight) /\ Len(net) <= Buffer /\ Buffer \in Nat
  BY CodecTypes, CodecAssumption
<1>2. /\ r \in Seq(Seq(Byte) \ {<<>>}) /\ Len(r) <= Len(net)
      /\ \A i \in 2 .. Len(r) : r[i] = net[Len(net) - Len(r) + i]
  BY DEF Rest
<1>3. Len(r) \in Nat
  BY <1>2, LenProperties
<1> DEFINE n == Len(net) - Len(r)
           f == SubSeq(flight, n + 1, Len(flight))
<1>4. n \in 0 .. Len(flight) /\ n \in Nat /\ Len(r) = Len(flight) - n
      /\ 1 + Len(net) - Len(r) = n + 1
  BY <1>1, <1>2, <1>3
<1>5. net' = r /\ flight' = f /\ open' = open
  BY <1>4 DEF LeaveOf
<1> HIDE DEF n
<1>6. \A i \in n + 1 .. Len(flight) : flight[i] \in Packets
  <2>1. \A i \in n + 1 .. Len(flight) : i \in 1 .. Len(flight)
    BY <1>1, <1>4
  <2>2. QED BY <1>1, <2>1, ElementOfSeq
<1>7. /\ f \in Seq(Packets)
      /\ Len(f) = IF n + 1 <= Len(flight) THEN Len(flight) - (n + 1) + 1 ELSE 0
      /\ \A i \in 1 .. Len(flight) - (n + 1) + 1 : f[i] = flight[(n + 1) + i - 1]
  BY <1>1, <1>4, <1>6, SubSeqProperties
<1> HIDE DEF f
<1>8. Len(f) = Len(r)
  BY <1>1, <1>3, <1>4, <1>7
<1>9. ASSUME NEW i \in 2 .. Len(r) PROVE r[i] = Encode(f[i])
  <2>1. /\ i \in 1 .. Len(flight) - (n + 1) + 1 /\ (n + 1) + i - 1 = n + i
        /\ n + i \in 2 .. Len(net)
    BY <1>1, <1>3, <1>4
  <2>2. f[i] = flight[n + i]
    BY <1>7, <2>1
  <2>3. r[i] = net[n + i]
    BY <1>2 DEF n
  <2>4. net[n + i] = Encode(flight[n + i])
    BY <2>1 DEF CodecInv, StreamInv
  <2>5. QED BY <2>2, <2>3, <2>4
<1>10. StreamInv'
  BY <1>5, <1>8, <1>9 DEF StreamInv
<1>11. Len(r) <= Buffer
  BY <1>1, <1>2, <1>3
<1>12. QED BY <1>2, <1>4, <1>5, <1>7, <1>10, <1>11 DEF f

-----------------------------------------------------------------------------
(* The steps: the invariant is kept, and PacketChannel takes a step too.   *)

\* The reader is in a packet that was left.
Stray == IF pc = "header" THEN Begun ELSE start = "middle"

ChannelStep == Channel!Next \/ UNCHANGED <<flight, taken, Stray>>

LEMMA WanderStep ==
  ASSUME Stray, NEW n \in 0 .. Len(flight), flight' = SubSeq(flight, n + 1, Len(flight)),
         taken' = taken \/ taken' \in Seq(Forged)
  PROVE  ChannelStep
<1>1. Channel!Wander
  BY DEF Channel!Wander, Stray, Begun
<1>2. QED BY <1>1 DEF ChannelStep, Channel!Next

LEMMA SendStep ==
  ASSUME CodecInv, NEW m \in Packets, Send(m)
  PROVE  CodecInv' /\ ChannelStep
<1> DEFINE e == Encode(m)
<1>1. /\ net \in Seq(Seq(Byte) \ {<<>>}) /\ flight \in Seq(Packets) /\ Len(net) \in Nat
      /\ Len(net) = Len(flight) /\ Len(net) < Buffer /\ (net = <<>> <=> Len(net) = 0)
      /\ Buffer \in Nat
  BY CodecTypes, CodecAssumption DEF Send
<1>2. e \in Seq(Byte) \ {<<>>}
  BY EncodedPacket
<1>3. /\ net' = Append(net, e) /\ flight' = Append(flight, m) /\ open /\ open' = open
      /\ UNCHANGED readVars
  BY DEF Send
<1> HIDE DEF e
<1>4. /\ net' \in Seq(Seq(Byte) \ {<<>>}) /\ Len(net') = Len(net) + 1
      /\ \A i \in 1 .. Len(net) : net'[i] = net[i]
      /\ net'[Len(net) + 1] = e
  BY <1>1, <1>2, <1>3, AppendProperties
<1>5. /\ flight' \in Seq(Packets) /\ Len(flight') = Len(net) + 1
      /\ \A i \in 1 .. Len(net) : flight'[i] = flight[i]
      /\ flight'[Len(net) + 1] = m
  BY <1>1, <1>3, AppendProperties
<1>6. Len(net') <= Buffer
  BY <1>1, <1>4
<1>7. TypeOK'
  BY <1>3, <1>4, <1>5, <1>6 DEF CodecInv, TypeOK, readVars
<1>8. StreamInv'
  <2>1. ASSUME NEW i \in 2 .. Len(net) + 1 PROVE net'[i] = Encode(flight'[i])
    <3>1. CASE i \in 2 .. Len(net)
      <4>1. i \in 1 .. Len(net) /\ net[i] = Encode(flight[i])
        BY <3>1 DEF CodecInv, StreamInv
      <4>2. QED BY <1>4, <1>5, <4>1
    <3>2. CASE i = Len(net) + 1
      BY <1>4, <1>5, <3>2 DEF e
    <3>3. QED BY <1>1, <3>1, <3>2
  <2>2. QED BY <1>4, <1>5, <2>1 DEF StreamInv
<1>9. net # <<>> => net'[1] = net[1] /\ flight'[1] = flight[1] /\ net' # <<>>
                    /\ Head(net') = Head(net) /\ Head(flight') = Head(flight)
  <2> HAVE net # <<>>
  <2>1. 1 \in 1 .. Len(net) /\ Len(net') # 0 /\ Len(flight') # 0 /\ Len(flight) # 0
    BY <1>1, <1>4, <1>5
  <2>2. net'[1] = net[1] /\ flight'[1] = flight[1] /\ net' # <<>> /\ flight' # <<>>
    BY <1>4, <1>5, <2>1, ToSetProperties
  <2>3. QED BY <1>1, <1>4, <1>5, <2>1, <2>2
<1>10. FieldInv' /\ LeftoverInv' /\ NoHalfRead'
  <2>1. FieldInv'
    BY <1>3, <1>9 DEF CodecInv, FieldInv, CountInv, RowInv, EndInv, readVars
  <2>2. LeftoverInv' /\ NoHalfRead'
    BY <1>3 DEF CodecInv, LeftoverInv, NoHalfRead, readVars
  <2>3. QED BY <2>1, <2>2
<1>11. Begun' = Begun
  <2>1. CASE net # <<>>
    BY <1>9, <2>1 DEF Begun
  <2>2. CASE net = <<>>
    <3>1. Head(net') = Encode(Head(flight'))
      <4>1. Head(net') = net'[1] /\ Head(flight') = flight'[1]
        BY <1>1, <1>4, <1>5, <2>2
      <4>2. QED BY <1>1, <1>4, <1>5, <2>2, <4>1 DEF e
    <3>2. QED BY <2>2, <3>1 DEF Begun
  <2>3. QED BY <2>1, <2>2
<1>12. Channel!Send
  <2>1. (IF pc' = "header" THEN Begun' ELSE start' = "middle")
        = (IF pc = "header" THEN Begun ELSE start = "middle")
    BY <1>3, <1>11 DEF readVars
  <2>2. QED BY <1>1, <1>3, <2>1 DEF Channel!Send, readVars
<1>13. QED BY <1>7, <1>8, <1>10, <1>12 DEF CodecInv, ChannelStep, Channel!Next

LEMMA CloseStep ==
  ASSUME CodecInv, Close
  PROVE  CodecInv' /\ ChannelStep
<1>1. /\ net \in Seq(Seq(Byte) \ {<<>>}) /\ flight \in Seq(Packets) /\ Len(net) \in Nat
      /\ Len(net) = Len(flight) /\ Len(net) <= Buffer /\ (net = <<>> <=> Len(net) = 0)
      /\ Buffer \in Nat
  BY CodecTypes, CodecAssumption
<1>2. PICK n \in (IF Begun THEN 1 ELSE 0) .. Len(net) :
        net' = SubSeq(net, 1, n) /\ flight' = SubSeq(flight, 1, n)
  BY DEF Close
<1>3. n \in 0 .. Len(net) /\ n \in 0 .. Len(flight) /\ (Begun => n # 0)
  BY <1>1, <1>2
<1>4. open /\ open' = FALSE /\ UNCHANGED readVars
  BY DEF Close
<1>5. /\ net' \in Seq(Seq(Byte) \ {<<>>}) /\ Len(net') = n
      /\ \A i \in 1 .. n : net'[i] = net[i]
  BY <1>1, <1>2, <1>3, FirstOnes
<1>6. /\ flight' \in Seq(Packets) /\ Len(flight') = n
      /\ \A i \in 1 .. n : flight'[i] = flight[i]
  BY <1>1, <1>2, <1>3, FirstOnes
<1>7. TypeOK'
  <2>1. Len(net') <= Buffer
    BY <1>1, <1>3, <1>5
  <2>2. QED BY <1>4, <1>5, <1>6, <2>1 DEF CodecInv, TypeOK, readVars
<1>8. StreamInv'
  <2>1. \A i \in 2 .. n : i \in 2 .. Len(net) /\ i \in 1 .. n
    BY <1>1, <1>3
  <2>2. QED BY <1>5, <1>6, <2>1 DEF CodecInv, StreamInv
<1>9. net' # <<>> => /\ net'[1] = net[1] /\ flight'[1] = flight[1] /\ net # <<>>
                     /\ Head(net') = Head(net) /\ Head(flight') = Head(flight)
  <2> HAVE net' # <<>>
  <2>1. 1 \in 1 .. n /\ Len(net) # 0 /\ Len(flight) # 0 /\ Len(flight') # 0
    BY <1>1, <1>3, <1>5, <1>6, ToSetProperties
  <2>2. net'[1] = net[1] /\ flight'[1] = flight[1] /\ net # <<>>
    BY <1>1, <1>5, <1>6, <2>1
  <2>3. QED BY <1>1, <1>5, <1>6, <2>1, <2>2
<1>10. pc # "header" /\ start = "packet" => net' # <<>>
  <2> HAVE pc # "header" /\ start = "packet"
  <2>1. net # <<>> /\ Len(net[1]) < Len(Encode(flight[1]))
    BY DEF CodecInv, FieldInv
  <2>2. Encode(flight[1]) \in Seq(Byte) /\ net[1] \in Seq(Byte)
    BY <2>1, CodecTypes, EncodedPacket
  <2>3. Len(Encode(flight[1])) \in Nat /\ Len(net[1]) \in Nat
    BY <2>2, LenProperties
  <2>4. Head(net) # Encode(Head(flight))
    BY <2>1, <2>3, CodecTypes
  <2>5. n # 0
    BY <1>3, <2>1, <2>4 DEF Begun
  <2>6. QED BY <1>5, <2>5, EmptySeq
<1>11. FieldInv' /\ LeftoverInv' /\ NoHalfRead'
  <2>1. FieldInv'
    BY <1>4, <1>9, <1>10 DEF CodecInv, FieldInv, CountInv, RowInv, EndInv, readVars
  <2>2. pc # "header" => start # "nothing"
    BY <1>4 DEF CodecInv, LeftoverInv
  <2>3. LeftoverInv' /\ NoHalfRead'
    BY <1>4, <2>2 DEF CodecInv, LeftoverInv, NoHalfRead, readVars
  <2>4. QED BY <2>1, <2>3
<1>12. Begun' = Begun
  <2>1. CASE net' # <<>>
    BY <1>9, <2>1 DEF Begun
  <2>2. CASE net' = <<>>
    <3>1. n = 0
      BY <1>5, <2>2
    <3>2. QED BY <1>3, <2>2, <3>1 DEF Begun
  <2>3. QED BY <2>1, <2>2
<1>13. Channel!Lose
  <2>1. (IF pc' = "header" THEN Begun' ELSE start' = "middle")
        = (IF pc = "header" THEN Begun ELSE start = "middle")
    BY <1>4, <1>12 DEF readVars
  <2>2. QED BY <1>2, <1>3, <1>4, <2>1 DEF Channel!Lose, readVars
<1>14. QED BY <1>7, <1>8, <1>11, <1>13 DEF CodecInv, ChannelStep, Channel!Next

-----------------------------------------------------------------------------
(* A field of one byte.                                                    *)

LEMMA RecvByte ==
  ASSUME NEW ms \in Seq(Seq(Byte)), ms # <<>>, NEW x \in Byte, NEW b \in Seq(Byte),
         ms[1] = <<x>> \o b
  PROVE  /\ Head(Head(ms)) = x /\ ToSet(Chunk(ms, 1)) = {x}
         /\ After(ms, 1) = IF b = <<>> THEN Tail(ms) ELSE <<b>> \o Tail(ms)
<1>1. <<x>> \in Seq(Byte) /\ <<x>> # <<>> /\ Len(<<x>>) = 1 /\ <<x>>[1] = x
  OBVIOUS
<1>2. /\ Head(Head(ms)) = <<x>>[1] /\ Chunk(ms, Len(<<x>>)) = <<x>>
      /\ After(ms, Len(<<x>>)) = IF b = <<>> THEN Tail(ms) ELSE <<b>> \o Tail(ms)
  BY <1>1, Recv
<1>3. Chunk(ms, 1) = <<x>> /\ ToSet(<<x>>) = {x}
  <2>1. ToSet(<<x>>) = {<<x>>[i] : i \in 1 .. 1}
    BY <1>1, ToSetProperties
  <2>2. 1 .. 1 = {1}
    OBVIOUS
  <2>3. QED BY <1>1, <1>2, <2>1, <2>2
<1>4. QED BY <1>1, <1>2, <1>3

-----------------------------------------------------------------------------
(* A reader that has lost its place, and one at the end of a connection.   *)

LEMMA WhatIsRead ==
  ASSUME CodecInv
  PROVE  /\ Rest(net, After(net, 1)) /\ ByteRead \subseteq Byte
         /\ net # <<>> => Head(Head(net)) \in Byte
<1>1. net \in Seq(Seq(Byte) \ {<<>>})
  BY CodecTypes
<1>2. Rest(net, After(net, 1)) /\ Chunk(net, 1) \in Seq(Byte)
  BY <1>1, AfterRest
<1>3. ByteRead \subseteq Byte
  <2>1. \A q \in Seq(Byte) : ToSet(q) \subseteq Byte
    BY ToSetProperties, ElementOfSeq
  <2>2. QED BY <1>2, <2>1 DEF ByteRead
<1>4. ASSUME net # <<>> PROVE Head(Head(net)) \in Byte
  <2>1. Head(net) \in Seq(Byte) /\ Head(net) # <<>>
    BY <1>4, CodecTypes
  <2>2. QED BY <2>1
<1>5. QED BY <1>2, <1>3, <1>4

\* Nothing is promised of what a reader that is astray makes of the bytes.
LEMMA AstrayStep ==
  ASSUME CodecInv, pc # "header", start = "middle", start' = "middle",
         NEW r, Rest(net, r), LeaveOf(r),
         pc' \in {"header", "count", "row", "end"}, type' = type,
         count' \in - Half .. Half - 1, broken' \in BOOLEAN,
         data' \in Seq(Seq(Byte)), Len(data') <= Half,
         \/ taken' = taken
         \/ taken' \in Seq(Forged) /\ Len(taken') <= 1
  PROVE  CodecInv' /\ ChannelStep
<1>1. /\ net' \in Seq(Seq(Byte) \ {<<>>}) /\ Len(net') <= Buffer
      /\ flight' \in Seq(Packets) /\ StreamInv' /\ open' = open
      /\ \E n \in 0 .. Len(flight) : flight' = SubSeq(flight, n + 1, Len(flight))
  BY RestLeft
<1>2. TypeOK'
  BY <1>1 DEF CodecInv, TypeOK
<1>3. FieldInv' /\ LeftoverInv' /\ NoHalfRead'
  BY DEF FieldInv, LeftoverInv, NoHalfRead
<1>4. ChannelStep
  <2>1. Stray
    BY DEF Stray
  <2>2. QED BY <1>1, <2>1, WanderStep
<1>5. QED BY <1>1, <1>2, <1>3, <1>4 DEF CodecInv

LEMMA AstrayReads ==
  ASSUME CodecInv, start = "middle", ReadCount \/ ReadRow \/ ReadEnd
  PROVE  CodecInv' /\ ChannelStep
<1>1. /\ type \in Types /\ count \in - Half .. Half - 1 /\ data \in Seq(Seq(Byte))
      /\ Len(data) <= Half /\ broken \in BOOLEAN /\ Half \in Nat
  BY Constants DEF CodecInv, TypeOK
<1>2. /\ Rest(net, After(net, 1)) /\ ByteRead \subseteq Byte
      /\ net # <<>> => Head(Head(net)) \in Byte
  BY WhatIsRead
<1>3. CASE ReadCount
  <2>1. PICK b \in Byte : count' = Signed(b)
    BY <1>2, <1>3 DEF ReadCount
  <2>2. count' \in - Half .. Half - 1
    BY <1>1, <2>1 DEF Signed, Byte
  <2>3. pc # "header" /\ LeaveOf(After(net, 1)) /\ pc' = NextRow(type, count', 0)
        /\ UNCHANGED <<type, start, data, taken, broken>>
    BY <1>3 DEF ReadCount
  <2>4. pc' \in {"header", "count", "row", "end"}
    BY <2>3 DEF NextRow
  <2>5. QED BY <1>1, <1>2, <2>2, <2>3, <2>4, AstrayStep
<1>4. CASE ReadRow
  <2> DEFINE size == IF net = <<>> THEN 0 ELSE Head(Head(net))
             q    == After(net, 1)
             row  == Chunk(q, size)
  <2>1. size \in Nat
    BY <1>2, Constants
  <2>2. net \in Seq(Seq(Byte) \ {<<>>}) /\ q \in Seq(Seq(Byte) \ {<<>>})
    BY <1>2, CodecTypes DEF Rest
  <2> HIDE DEF size, q
  <2>3. Rest(q, After(q, size)) /\ row \in Seq(Byte)
    BY <2>1, <2>2, AfterRest
  <2>4. Rest(net, After(q, size))
    BY <1>2, <2>2, <2>3, RestTransitive DEF q
  <2>5. /\ LeaveOf(After(q, size)) /\ pc # "header" /\ UNCHANGED <<type, start, count, taken>>
        /\ \/ pc' = "header" /\ broken' = TRUE /\ data' = data
           \/ /\ data' = IF Len(data) < Half THEN Append(data, row) ELSE data
              /\ pc' = NextRow(type, count, Len(data')) /\ broken' = broken
    BY <1>4 DEF ReadRow, Fail, size, q
  <2> HIDE DEF row
  <2>6. data' \in Seq(Seq(Byte)) /\ Len(data') <= Half
    <3>1. CASE data' = data
      BY <1>1, <3>1
    <3>2. CASE Len(data) < Half /\ data' = Append(data, row)
      <4>1. data' \in Seq(Seq(Byte)) /\ Len(data') = Len(data) + 1 /\ Len(data) \in Nat
        BY <1>1, <2>3, <3>2, AppendProperties, LenProperties
      <4>2. QED BY <1>1, <3>2, <4>1
    <3>3. QED BY <2>5, <3>1, <3>2
  <2>7. pc' \in {"header", "count", "row", "end"} /\ broken' \in BOOLEAN
    BY <1>1, <2>5 DEF NextRow
  <2>8. QED BY <1>1, <2>4, <2>5, <2>6, <2>7, AstrayStep
<1>5. CASE ReadEnd
  <2>1. /\ LeaveOf(After(net, 1)) /\ pc # "header" /\ pc' = "header"
        /\ UNCHANGED <<type, start, count, data>>
        /\ \/ broken' = TRUE /\ taken' = taken
           \/ broken' = broken /\ taken' = <<[type |-> type, rows |-> data]>>
    BY <1>5 DEF ReadEnd, Fail
  <2>2. <<[type |-> type, rows |-> data]>> \in Seq(Forged)
        /\ Len(<<[type |-> type, rows |-> data]>>) <= 1
    BY <1>1 DEF Forged
  <2>3. taken' = taken \/ (taken' \in Seq(Forged) /\ Len(taken') <= 1)
    BY <2>1, <2>2
  <2>4. broken' \in BOOLEAN
    BY <1>1, <2>1
  <2>5. QED BY <1>1, <1>2, <2>1, <2>3, <2>4, AstrayStep
<1>6. QED BY <1>3, <1>4, <1>5

LEMMA LeaveNothing ==
  ASSUME CodecInv, net = <<>>
  PROVE  After(net, 1) = <<>> /\ (LeaveOf(<<>>) => UNCHANGED <<open, net, flight>>)
<1>1. flight = <<>> /\ Len(flight) = 0 /\ Len(<<>>) = 0
  BY CodecTypes
<1>2. SubSeq(flight, 1 + Len(net) - Len(<<>>), Len(flight)) = <<>>
  <2>1. 1 + Len(net) - Len(<<>>) = 1 /\ 0 < 1
    BY <1>1
  <2>2. QED BY <1>1, <2>1, SubSeqEmpty
<1>3. QED BY <1>1, <1>2 DEF After, LeaveOf

LEMMA ReadLeftoverStep ==
  ASSUME CodecInv, ReadLeftover
  PROVE  CodecInv' /\ ChannelStep
<1>1. /\ pc = "header" /\ ~ open /\ net = <<>>
      /\ UNCHANGED <<open, net, flight, count, taken>>
      /\ type' \in Types \ Lists /\ start' = "nothing" /\ pc' = "count" /\ data' = <<>>
      /\ broken' = FALSE
  BY DEF ReadLeftover, Begin
<1>2. TypeOK'
  <2>1. data' \in Seq(Seq(Byte)) /\ Len(data') <= Half
    BY <1>1, Constants
  <2>2. QED BY <1>1, <2>1 DEF CodecInv, TypeOK
<1>3. StreamInv'
  BY <1>1 DEF CodecInv, StreamInv
<1>4. FieldInv' /\ LeftoverInv' /\ NoHalfRead'
  BY <1>1 DEF FieldInv, LeftoverInv, NoHalfRead
<1>5. ChannelStep
  BY <1>1 DEF ChannelStep, Stray, Begun
<1>6. QED BY <1>2, <1>3, <1>4, <1>5 DEF CodecInv

\* getData with the header of an earlier packet fails, and takes nothing.
LEMMA LeftoverReads ==
  ASSUME CodecInv, start = "nothing", ReadCount \/ ReadRow \/ ReadEnd
  PROVE  CodecInv' /\ ChannelStep
<1>1. pc # "header"
  BY DEF ReadCount, ReadRow, ReadEnd
<1>2. ~ open /\ net = <<>> /\ pc # "end" /\ type \notin Lists
  BY <1>1 DEF CodecInv, LeftoverInv
<1>3. After(net, 1) = <<>> /\ (LeaveOf(<<>>) => UNCHANGED <<open, net, flight>>)
  BY <1>2, LeaveNothing
<1>4. /\ type \in Types /\ Half \in Nat /\ Size[type] \in Nat /\ Size[type] >= 1
  BY Constants DEF CodecInv, TypeOK
<1>5. CASE ReadCount
  <2>1. UNCHANGED <<open, net, flight>> /\ UNCHANGED <<type, start, data, taken, broken>>
    BY <1>3, <1>5 DEF ReadCount
  <2>2. pc' = "row"
    BY <1>2, <1>5 DEF ReadCount, NextRow
  <2>3. count' \in - Half .. Half - 1
    <3>1. PICK b \in Byte : count' = Signed(b)
      BY <1>5, WhatIsRead DEF ReadCount
    <3>2. QED BY <1>4, <3>1 DEF Signed, Byte
  <2>4. TypeOK'
    BY <2>1, <2>2, <2>3 DEF CodecInv, TypeOK
  <2>5. StreamInv'
    BY <2>1 DEF CodecInv, StreamInv
  <2>6. FieldInv' /\ LeftoverInv' /\ NoHalfRead'
    BY <1>2, <2>1, <2>2 DEF CodecInv, FieldInv, LeftoverInv, NoHalfRead
  <2>7. ChannelStep
    BY <1>1, <2>1, <2>2 DEF ChannelStep, Stray
  <2>8. QED BY <2>4, <2>5, <2>6, <2>7 DEF CodecInv
<1>6. CASE ReadRow
  <2>1. Chunk(<<>>, 0) = <<>> /\ After(<<>>, 0) = <<>> /\ Len(<<>>) = 0
    BY DEF Chunk, After
  <2>2. Len(Chunk(<<>>, 0)) # Size[type]
    BY <1>4, <2>1
  <2>3. LeaveOf(<<>>) /\ Fail /\ UNCHANGED <<type, start>>
    BY <1>2, <1>3, <1>6, <2>1, <2>2 DEF ReadRow
  <2>4. UNCHANGED <<open, net, flight>> /\ pc' = "header" /\ broken' = TRUE
        /\ UNCHANGED <<type, start, count, data, taken>>
    BY <1>3, <2>3 DEF Fail
  <2>5. TypeOK'
    BY <2>4 DEF CodecInv, TypeOK
  <2>6. StreamInv'
    BY <2>4 DEF CodecInv, StreamInv
  <2>7. FieldInv' /\ LeftoverInv' /\ NoHalfRead'
    BY <2>4 DEF FieldInv, LeftoverInv, NoHalfRead
  <2>8. ChannelStep
    BY <1>1, <1>2, <2>4 DEF ChannelStep, Stray, Begun
  <2>9. QED BY <2>5, <2>6, <2>7, <2>8 DEF CodecInv
<1>7. QED BY <1>2, <1>5, <1>6 DEF ReadEnd

-----------------------------------------------------------------------------
(* A reader in its place.                                                  *)

LEMMA ReadHeaderStep ==
  ASSUME CodecInv, ReadHeader
  PROVE  CodecInv' /\ ChannelStep
<1>1. /\ pc = "header" /\ net # <<>> /\ net \in Seq(Seq(Byte)) /\ net[1] \in Seq(Byte)
      /\ net[1] # <<>> /\ flight # <<>> /\ flight[1] \in Packets /\ flight \in Seq(Packets)
      /\ Head(net) = net[1] /\ Head(flight) = flight[1]
  BY CodecTypes DEF ReadHeader
<1>2. /\ LeaveOf(After(net, 1)) /\ UNCHANGED <<count, taken>>
      /\ \/ /\ Head(Head(net)) \in Types /\ type' = Head(Head(net)) /\ pc' = "count"
            /\ start' = (IF Begun THEN "middle" ELSE "packet")
            /\ data' = <<>> /\ broken' = FALSE
         \/ UNCHANGED <<pc, type, start, data, broken>>
  BY DEF ReadHeader, Begin
<1>3. /\ net' \in Seq(Seq(Byte) \ {<<>>}) /\ Len(net') <= Buffer
      /\ flight' \in Seq(Packets) /\ StreamInv' /\ open' = open
      /\ \E n \in 0 .. Len(flight) : flight' = SubSeq(flight, n + 1, Len(flight))
  BY <1>2, WhatIsRead, RestLeft
<1>4. TypeOK'
  <2>1. <<>> \in Seq(Seq(Byte)) /\ Len(<<>>) <= Half
    BY Constants
  <2>2. CASE UNCHANGED <<pc, type, start, data, broken>>
    BY <1>2, <1>3, <2>2 DEF CodecInv, TypeOK
  <2>3. CASE /\ type' \in Types /\ pc' = "count" /\ start' \in {"middle", "packet"}
             /\ data' = <<>> /\ broken' = FALSE
    BY <1>2, <1>3, <2>1, <2>3 DEF CodecInv, TypeOK
  <2>4. QED BY <1>2, <2>2, <2>3
<1>5. LeftoverInv' /\ NoHalfRead'
  BY <1>1, <1>2 DEF CodecInv, LeftoverInv, NoHalfRead
<1>6. CASE Begun
  <2>1. FieldInv'
    BY <1>1, <1>2, <1>6 DEF FieldInv
  <2>2. ChannelStep
    <3>1. Stray
      BY <1>1, <1>6 DEF Stray
    <3>2. QED BY <1>2, <1>3, <3>1, WanderStep
  <2>3. QED BY <1>3, <1>4, <1>5, <2>1, <2>2 DEF CodecInv
<1>7. CASE ~ Begun
  <2>1. PICK m \in Packets : m = flight[1]
    BY <1>1
  <2>2. net[1] = Encode(m)
    BY <1>1, <1>7, <2>1 DEF Begun
  <2> DEFINE b == <<Count(m)>> \o Remaining(m.rows)
  <2>3. /\ m.type \in Byte /\ m.type \in Types /\ net[1] = <<m.type>> \o b
        /\ b \in Seq(Byte) /\ b # <<>>
    BY <2>2, EncodedPacket, PacketRows, Constants
  <2> HIDE DEF b
  <2>4. Head(Head(net)) = m.type /\ After(net, 1) = <<b>> \o Tail(net)
    BY <1>1, <2>3, RecvByte
  <2>5. net' # <<>> /\ flight' = flight /\ net'[1] = b
    BY <1>1, <1>2, <2>3, <2>4, PartLeft
  <2>6. Len(b) < Len(Encode(m))
    <3>1. <<m.type>> \in Seq(Byte) /\ Len(<<m.type>>) = 1
      BY <2>3
    <3>2. Len(<<m.type>> \o b) = 1 + Len(b) /\ Len(b) \in Nat
      BY <2>3, <3>1, Parts
    <3>3. QED BY <2>2, <2>3, <3>2
  <2>7. flight'[1] = m
    BY <2>1, <2>5
  <2>8. CASE type' = m.type /\ pc' = "count" /\ start' = "packet" /\ data' = <<>>
    <3>1. FieldInv'
      BY <2>5, <2>6, <2>7, <2>8 DEF FieldInv, CountInv, RowInv, EndInv, b
    <3>2. ChannelStep
      <4>1. Begun = FALSE
        BY <1>7 DEF Begun
      <4>2. QED BY <1>1, <1>2, <2>5, <2>8, <4>1 DEF ChannelStep, Stray
    <3>3. QED BY <1>3, <1>4, <1>5, <3>1, <3>2 DEF CodecInv
  <2>9. CASE UNCHANGED <<pc, type, start, data, broken>>
    <3>1. FieldInv'
      BY <1>1, <2>9 DEF FieldInv
    <3>2. Begun'
      <4>1. Head(net') = b /\ Head(flight') = m
        BY <1>1, <1>3, <2>1, <2>5
      <4>2. b # Encode(m)
        <5>1. Len(b) \in Nat
          BY <2>3, LenProperties
        <5>2. QED BY <2>6, <5>1
      <4>3. QED BY <2>5, <4>1, <4>2 DEF Begun
    <3>3. Channel!Leave
      BY <1>1, <1>2, <1>7, <2>5, <2>9, <3>2 DEF Channel!Leave
    <3>4. QED BY <1>3, <1>4, <1>5, <3>1, <3>3 DEF CodecInv, ChannelStep, Channel!Next
  <2>10. QED BY <1>2, <1>7, <2>4, <2>8, <2>9
<1>8. QED BY <1>6, <1>7

\* The structure that is read now, and those after it.
LEMMA RowsFrom ==
  ASSUME NEW m \in Packets, NEW i \in 1 .. Len(m.rows)
  PROVE  /\ m.rows[i] \in Row(m.type)
         /\ SubSeq(m.rows, i, Len(m.rows)) \in Seq(Row(m.type))
         /\ SubSeq(m.rows, i + 1, Len(m.rows)) \in Seq(Row(m.type))
         /\ Remaining(SubSeq(m.rows, i, Len(m.rows))) =
              <<Size[m.type]>>
                \o (m.rows[i] \o Remaining(SubSeq(m.rows, i + 1, Len(m.rows))))
         /\ i = Len(m.rows) => SubSeq(m.rows, i + 1, Len(m.rows)) = <<>>
         /\ SubSeq(m.rows, 1, i) = Append(SubSeq(m.rows, 1, i - 1), m.rows[i])
         /\ SubSeq(m.rows, 1, i) \in Seq(Row(m.type))
         /\ SubSeq(m.rows, 1, i - 1) \in Seq(Row(m.type))
         /\ Len(SubSeq(m.rows, 1, i)) = i /\ Len(SubSeq(m.rows, 1, i - 1)) = i - 1
<1> DEFINE s == m.rows
           k == Len(m.rows)
           S == Row(m.type)
<1>1. m.type \in Types /\ s \in Seq(S) /\ k \in Nat /\ k = Len(s)
  BY PacketRows
<1> HIDE DEF s, k, S
<1> USE DEF s, k
<1>2. i \in 1 .. k /\ 1 \in 1 .. k /\ k \in i .. k /\ i \in 1 .. k /\ i \in Int /\ i + 1 \in Int
      /\ i \in 0 .. k /\ i - 1 \in 0 .. k /\ k \in Int
  BY <1>1
<1>3. \A j \in 1 .. k : s[j] \in S
  BY <1>1, ElementOfSeq
<1>4. SubSeq(s, i, k) \in Seq(S) /\ Len(SubSeq(s, i, k)) # 0
  <2>1. \A j \in i .. k : s[j] \in S
    BY <1>2, <1>3
  <2>2. SubSeq(s, i, k) \in Seq(S) /\ Len(SubSeq(s, i, k)) = IF i <= k THEN k - i + 1 ELSE 0
    BY <1>2, <2>1, SubSeqProperties
  <2>3. k - i + 1 # 0 /\ i <= k
    BY <1>1, <1>2
  <2>4. QED BY <2>2, <2>3
<1>5. SubSeq(s, i + 1, k) \in Seq(S)
  <2>1. \A j \in i + 1 .. k : s[j] \in S
    BY <1>2, <1>3
  <2>2. QED BY <1>2, <2>1, SubSeqProperties
<1>6. SubSeq(s, 1, i) \in Seq(S) /\ Len(SubSeq(s, 1, i)) = i
      /\ SubSeq(s, 1, i - 1) \in Seq(S) /\ Len(SubSeq(s, 1, i - 1)) = i - 1
  BY <1>1, <1>2, FirstOnes
<1>7. SubSeq(s, 1, i) = Append(SubSeq(s, 1, i - 1), s[i])
  <2>1. i \in 1 .. Len(s) /\ 1 \in 1 .. Len(s) /\ i \in 1 .. Len(s)
    BY <1>1, <1>2
  <2>2. SubSeq(s, 1, i) = SubSeq(s, 1, i - 1) \o <<s[i]>>
    BY <1>1, <2>1, SubSeqRecursiveSecond
  <2>3. QED BY <1>2, <1>3, <1>6, <2>2, AppendIsConcat
<1>8. Remaining(SubSeq(s, i, k)) = <<Size[m.type]>> \o (s[i] \o Remaining(SubSeq(s, i + 1, k)))
  <2> DEFINE r == SubSeq(s, i, k)
  <2>1. i \in 1 .. Len(s) /\ k \in i .. Len(s)
    BY <1>1, <1>2
  <2>2. Head(r) = s[i] /\ Tail(r) = SubSeq(s, i + 1, k)
    BY <1>1, <2>1, HeadTailOfSubSeq
  <2>3. r \in Seq(S) /\ Len(r) # 0 /\ r[1] = Head(r)
    BY <1>4
  <2> HIDE DEF r
  <2>4. r # <<>>
    BY <2>3, ToSetProperties
  <2>5. Remaining(r) = <<Size[m.type]>> \o (r[1] \o Remaining(Tail(r)))
    BY <1>1, <2>3, <2>4, RemainingProperties DEF S
  <2>6. QED BY <2>2, <2>3, <2>5 DEF r
<1>9. i = k => SubSeq(s, i + 1, k) = <<>>
  <2> HAVE i = k
  <2>1. k < i + 1
    BY <1>2
  <2>2. QED BY <1>2, <2>1, SubSeqEmpty
<1>10. QED BY <1>2, <1>3, <1>4, <1>5, <1>6, <1>7, <1>8, <1>9 DEF S

LEMMA ReadCountStep ==
  ASSUME CodecInv, start = "packet", ReadCount
  PROVE  CodecInv' /\ ChannelStep
<1>1. /\ pc = "count" /\ net # <<>> /\ type = flight[1].type
      /\ data = <<>> /\ net[1] = <<Count(flight[1])>> \o Remaining(flight[1].rows)
      /\ Len(net[1]) < Len(Encode(flight[1]))
  BY DEF ReadCount, CodecInv, FieldInv, CountInv
<1>2. net \in Seq(Seq(Byte)) /\ flight[1] \in Packets
  BY <1>1, CodecTypes
<1>3. PICK m \in Packets : m = flight[1]
  BY <1>2
<1> DEFINE b == Remaining(m.rows)
           n == Signed(Count(m))
<1>4. /\ type = m.type /\ m.type \in Types /\ net[1] = <<Count(m)>> \o b /\ b \in Seq(Byte)
      /\ b # <<>> /\ Count(m) \in Byte
      /\ n = IF m.type \in Lists THEN Len(m.rows) ELSE 0
      /\ m.rows \in Seq(Row(m.type)) /\ Len(m.rows) \in Nat
      /\ IF m.type \in Lists THEN Len(m.rows) <= MaxCount ELSE Len(m.rows) = 1
  BY <1>1, <1>3, EncodedPacket, PacketRows, CountRead, Constants
<1>5. m.rows = <<>> => b = <<Eof>>
  BY <1>4, RemainingProperties
<1> HIDE DEF b, n
<1>6. Len(b) < Len(Encode(m))
  <2>1. <<Count(m)>> \in Seq(Byte) /\ Len(<<Count(m)>>) = 1
    BY <1>4
  <2>2. Len(net[1]) = 1 + Len(b) /\ Len(b) \in Nat
    BY <1>4, <2>1, Parts
  <2>3. Len(Encode(m)) \in Nat
    BY EncodedPacket, LenProperties
  <2>4. QED BY <1>1, <1>3, <2>2, <2>3
<1>7. After(net, 1) = <<b>> \o Tail(net) /\ ToSet(Chunk(net, 1)) = {Count(m)}
  BY <1>1, <1>2, <1>4, RecvByte
<1>8. LeaveOf(<<b>> \o Tail(net))
  BY <1>7 DEF ReadCount
<1>9. /\ net' \in Seq(Seq(Byte) \ {<<>>}) /\ Len(net') <= Buffer /\ net' # <<>>
      /\ flight' = flight /\ net'[1] = b /\ StreamInv' /\ open' = open
  BY <1>1, <1>4, <1>8, PartLeft
<1>10. count' = n
  BY <1>1, <1>7 DEF ReadCount, ByteRead, n
<1>11. pc' = NextRow(m.type, n, 0) /\ UNCHANGED <<type, start, data, taken, broken>>
  BY <1>4, <1>10 DEF ReadCount
<1>12. n \in - Half .. Half - 1
  BY <1>4, Constants
<1>13. TypeOK'
  BY <1>9, <1>10, <1>11, <1>12 DEF CodecInv, TypeOK, NextRow
<1>14. flight'[1] = m /\ data' = <<>> /\ type' = m.type
  BY <1>1, <1>3, <1>4, <1>9, <1>11
<1>15. Len(<<>>) = 0 /\ (m.rows = <<>> <=> Len(m.rows) = 0)
  BY <1>4, ToSetProperties
<1>16. pc' = "row" \/ pc' = "end"
  BY <1>11 DEF NextRow
<1>17. LeftoverInv' /\ NoHalfRead' /\ ChannelStep
  <2>1. LeftoverInv' /\ NoHalfRead'
    BY <1>11 DEF CodecInv, LeftoverInv, NoHalfRead
  <2>2. ChannelStep
    BY <1>1, <1>9, <1>11, <1>16 DEF ChannelStep, Stray
  <2>3. QED BY <2>1, <2>2
<1>18. CASE pc' = "row"
  <2>1. Len(m.rows) # 0 /\ (m.type \in Lists => n = Len(m.rows))
    <3>1. CASE m.type \in Lists
      <4>1. n = Len(m.rows) /\ n # 0
        BY <1>4, <1>11, <1>18, <3>1 DEF NextRow
      <4>2. QED BY <4>1
    <3>2. CASE m.type \notin Lists
      <4>1. Len(m.rows) = 1
        BY <1>4, <3>2
      <4>2. QED BY <3>2, <4>1
    <3>3. QED BY <3>1, <3>2
  <2>2. /\ Len(<<>>) + 1 = 1 /\ 1 \in DOMAIN m.rows /\ SubSeq(m.rows, 1, Len(m.rows)) = m.rows
        /\ SubSeq(m.rows, 1, 1 - 1) = <<>>
    <3>1. 1 \in 1 .. Len(m.rows) /\ 1 - 1 = 0 /\ 0 < 1
      BY <1>4, <2>1
    <3>2. QED BY <1>4, <3>1, LenProperties, SubSeqFull, SubSeqEmpty
  <2>3. RowInv(m)'
    <3> DEFINE i == Len(data') + 1
    <3>1. i = 1
      BY <1>14, <1>15
    <3>2. net'[1] = Remaining(SubSeq(m.rows, 1, Len(m.rows)))
      BY <1>9, <2>2 DEF b
    <3>3. /\ 1 \in DOMAIN m.rows /\ data' = SubSeq(m.rows, 1, 1 - 1)
          /\ type' \in Lists => count' = Len(m.rows)
      BY <1>10, <1>14, <2>1, <2>2
    <3>4. QED BY <3>1, <3>2, <3>3 DEF RowInv
  <2>4. FieldInv'
    BY <1>6, <1>9, <1>14, <1>18, <2>3 DEF FieldInv, CountInv, RowInv, EndInv
  <2>5. QED BY <1>9, <1>13, <1>17, <2>4 DEF CodecInv
<1>19. CASE pc' = "end"
  <2>1. m.rows = <<>>
    BY <1>4, <1>11, <1>15, <1>19 DEF NextRow
  <2>2. FieldInv'
    BY <1>5, <1>6, <1>9, <1>14, <1>19, <2>1 DEF FieldInv, CountInv, RowInv, EndInv
  <2>3. QED BY <1>9, <1>13, <1>17, <2>2 DEF CodecInv
<1>20. QED BY <1>16, <1>18, <1>19

LEMMA ReadEndStep ==
  ASSUME CodecInv, start = "packet", ReadEnd
  PROVE  CodecInv' /\ ChannelStep
<1>1. /\ pc = "end" /\ net # <<>> /\ type = flight[1].type
      /\ data = flight[1].rows /\ net[1] = <<Eof>>
  BY DEF ReadEnd, CodecInv, FieldInv, EndInv
<1>2. /\ net \in Seq(Seq(Byte)) /\ flight[1] \in Packets /\ flight # <<>>
      /\ Head(flight) = flight[1]
  BY <1>1, CodecTypes
<1>3. PICK m \in Packets : m = flight[1]
  BY <1>2
<1>4. m = [type |-> m.type, rows |-> m.rows]
  BY PacketRows
<1>5. Eof \in Byte /\ <<>> \in Seq(Byte) /\ <<Eof>> \in Seq(Byte)
  BY Constants
<1>6. net[1] = <<Eof>> \o <<>>
  BY <1>1, <1>5, ConcatEmptySeq
<1>7. After(net, 1) = Tail(net) /\ ToSet(Chunk(net, 1)) = {Eof}
  BY <1>1, <1>2, <1>5, <1>6, RecvByte
<1>8. LeaveOf(Tail(net))
  BY <1>7 DEF ReadEnd
<1>9. /\ net' \in Seq(Seq(Byte) \ {<<>>}) /\ Len(net') <= Buffer
      /\ flight' = Tail(flight) /\ flight' \in Seq(Packets) /\ StreamInv' /\ open' = open
      /\ net' # <<>> => net'[1] = Encode(flight'[1])
  BY <1>1, <1>8, NothingLeft
<1>10. /\ taken' = <<[type |-> type, rows |-> data]>> /\ pc' = "header"
       /\ UNCHANGED <<count, data, broken>> /\ type' = type /\ start' = start
  BY <1>1, <1>7 DEF ReadEnd, ByteRead
<1>11. taken' = <<m>>
  BY <1>1, <1>3, <1>4, <1>10
<1>12. TypeOK'
  <2>1. taken' \in Seq(Forged) /\ Len(taken') <= 1
    BY <1>10 DEF CodecInv, TypeOK, Forged
  <2>2. QED BY <1>9, <1>10, <2>1 DEF CodecInv, TypeOK
<1>13. FieldInv' /\ LeftoverInv' /\ NoHalfRead'
  BY <1>10 DEF CodecInv, FieldInv, LeftoverInv, NoHalfRead
<1>14. Begun' = FALSE
  <2>1. net' # <<>> => Head(net') = net'[1] /\ Head(flight') = flight'[1]
    <3>1. net' # <<>> => flight' # <<>>
      BY <1>9, EmptySeq, ToSetProperties DEF StreamInv
    <3>2. QED BY <1>9, <3>1
  <2>2. QED BY <1>9, <2>1 DEF Begun
<1>15. Channel!Take
  <2>1. start = "packet" /\ pc = "end" /\ pc' = "header"
    BY <1>1, <1>10
  <2>2. /\ ~ (IF pc = "header" THEN Begun ELSE start = "middle")
        /\ (IF pc' = "header" THEN Begun' ELSE start' = "middle")
             = (IF pc = "header" THEN Begun ELSE start = "middle")
    BY <1>14, <2>1
  <2>3. QED BY <1>2, <1>3, <1>9, <1>11, <2>2 DEF Channel!Take
<1>16. QED BY <1>9, <1>12, <1>13, <1>15 DEF CodecInv, ChannelStep, Channel!Next

\* The size and the structure: two recvs, and both meet their field.
LEMMA ReadRowStep ==
  ASSUME CodecInv, start = "packet", ReadRow
  PROVE  CodecInv' /\ ChannelStep
<1>1. /\ pc = "row" /\ net # <<>> /\ type = flight[1].type /\ RowInv(flight[1])
      /\ Len(net[1]) < Len(Encode(flight[1]))
  BY DEF ReadRow, CodecInv, FieldInv
<1>2. net \in Seq(Seq(Byte)) /\ flight[1] \in Packets
  BY <1>1, CodecTypes
<1>3. PICK m \in Packets : m = flight[1]
  BY <1>2
<1>4. /\ m.type \in Types /\ m.rows \in Seq(Row(m.type)) /\ Len(m.rows) \in Nat
      /\ DOMAIN m.rows = 1 .. Len(m.rows) /\ Len(m.rows) <= MaxCount + 1
      /\ (m.type \notin Lists => Len(m.rows) = 1)
  BY PacketRows
<1>5. PICK i \in 1 .. Len(m.rows) :
        /\ i = Len(data) + 1 /\ data = SubSeq(m.rows, 1, i - 1)
        /\ net[1] = Remaining(SubSeq(m.rows, i, Len(m.rows)))
        /\ type \in Lists => count = Len(m.rows)
  BY <1>1, <1>3, <1>4 DEF RowInv
<1> DEFINE k == Len(m.rows)
           row == m.rows[i]
           q == Remaining(SubSeq(m.rows, i + 1, k))
           b == row \o q
           z == Size[m.type]
<1>6. /\ row \in Row(m.type) /\ SubSeq(m.rows, i + 1, k) \in Seq(Row(m.type))
      /\ net[1] = <<z>> \o b
      /\ i = k => SubSeq(m.rows, i + 1, k) = <<>>
      /\ SubSeq(m.rows, 1, i) = Append(data, row)
      /\ SubSeq(m.rows, 1, i) \in Seq(Row(m.type)) /\ Len(SubSeq(m.rows, 1, i)) = i
  BY <1>5, RowsFrom
<1>7. q \in Seq(Byte) /\ q # <<>> /\ (i = k => q = <<Eof>>)
  BY <1>4, <1>6, RemainingProperties
<1>8. row \in Seq(Byte) /\ Len(row) = z /\ z \in Byte /\ z >= 1
  BY <1>4, <1>6, RowEncoded, Constants
<1>9. q \in Seq(Byte)
  BY <1>7
<1> HIDE DEF k, row, q, z
<1>10. row # <<>>
  <2>1. Len(row) # 0
    BY <1>8
  <2>2. QED BY <1>8, <2>1, ToSetProperties
<1>11. b \in Seq(Byte) /\ b # <<>>
  <2>1. b = <<>> => q = <<>>
    BY ONLY <1>8, <1>9, ConcatEqualIffEmpty
  <2>2. QED BY <1>7, <1>8, <1>9, <2>1, ConcatProperties
<1> DEFINE r == <<b>> \o Tail(net)
<1> HIDE DEF b
<1>12. Head(Head(net)) = z /\ After(net, 1) = r
  BY <1>1, <1>2, <1>6, <1>8, <1>11, RecvByte
<1>13. r \in Seq(Seq(Byte)) /\ r # <<>> /\ r[1] = b /\ Tail(r) = Tail(net)
  <2> DEFINE S == Seq(Byte)
  <2>1. net \in Seq(S) /\ net # <<>> /\ b \in S
    BY <1>1, <1>2, <1>11
  <2> HIDE DEF S
  <2>2. r \in Seq(S) /\ r # <<>> /\ r[1] = b /\ Tail(r) = Tail(net)
    BY ONLY <2>1, InFront
  <2>3. QED BY <2>2 DEF S
<1> HIDE DEF r
<1>14. Chunk(r, z) = row /\ After(r, z) = <<q>> \o Tail(net)
  <2>1. r[1] = row \o q
    BY <1>13 DEF b
  <2>2. /\ Chunk(r, Len(row)) = row
        /\ After(r, Len(row)) = IF q = <<>> THEN Tail(r) ELSE <<q>> \o Tail(r)
    BY <1>8, <1>9, <1>10, <1>13, <2>1, Recv
  <2>3. QED BY <1>7, <1>8, <1>13, <2>2
<1>15. type = m.type
  BY <1>1, <1>3
<1>16. /\ LeaveOf(<<q>> \o Tail(net)) /\ data' = Append(data, row)
       /\ pc' = NextRow(m.type, count, Len(data'))
       /\ UNCHANGED <<type, start, count, taken, broken>>
  <2> DEFINE size == IF net = <<>> THEN 0 ELSE Head(Head(net))
             due == IF type \in Lists THEN size ELSE Size[type]
  <2>1. size = z /\ due = z
    BY <1>1, <1>12, <1>15 DEF z
  <2>2. /\ LeaveOf(After(After(net, 1), size))
        /\ \/ ~ (Len(Chunk(After(net, 1), size)) = due /\ (After(net, 1) # <<>> \/ ~ open))
           \/ /\ data' = IF Len(data) < Half THEN Append(data, Chunk(After(net, 1), size))
                        ELSE data
              /\ pc' = NextRow(type, count, Len(data'))
              /\ UNCHANGED <<count, taken, broken>>
        /\ UNCHANGED <<type, start>>
    BY DEF ReadRow
  <2> HIDE DEF size, due
  <2>3. Len(data) < Half
    BY <1>4, <1>5, <1>6, Constants
  <2>4. Len(Chunk(After(net, 1), size)) = due
    BY <1>8, <1>12, <1>14, <2>1
  <2>5. QED BY <2>3, <2>4, <1>8, <1>12, <1>13, <1>14, <1>15, <2>1, <2>2
<1>17. /\ net' \in Seq(Seq(Byte) \ {<<>>}) /\ Len(net') <= Buffer /\ net' # <<>>
       /\ flight' = flight /\ net'[1] = q /\ StreamInv' /\ open' = open
  BY <1>1, <1>7, <1>9, <1>16, PartLeft
<1>18. data' = SubSeq(m.rows, 1, i) /\ Len(data') = i
  BY <1>6, <1>16
<1>19. TypeOK'
  <2>1. Row(m.type) \subseteq Seq(Byte)
    BY <1>4, RowEncoded
  <2>2. data' \in Seq(Seq(Byte))
    BY <1>6, <1>18, <2>1, SeqMonotonic
  <2>3. Len(data') <= Half
    BY <1>4, <1>18, Constants
  <2>4. QED BY <1>16, <1>17, <2>2, <2>3 DEF CodecInv, TypeOK, NextRow
<1>20. flight'[1] = m /\ type' = m.type
  BY <1>3, <1>15, <1>16, <1>17
<1>21. m.type \in Lists => count' = k
  BY <1>5, <1>15, <1>16 DEF k
<1>22. pc' = IF m.type \notin Lists \/ i = k THEN "end" ELSE "row"
  <2>1. pc' = NextRow(m.type, count', i)
    BY <1>16, <1>18
  <2>2. i # 0 /\ i \in Nat
    BY <1>4
  <2>3. QED BY <1>21, <2>1, <2>2 DEF NextRow
<1>23. Len(q) < Len(Encode(m))
  <2>1. /\ Len(<<z>>) = 1 /\ <<z>> \in Seq(Byte) /\ Len(b) \in Nat
        /\ Len(net[1]) = Len(<<z>>) + Len(b)
    BY <1>6, <1>8, <1>11, Parts
  <2>2. Len(b) = Len(row) + Len(q) /\ Len(row) \in Nat /\ Len(q) \in Nat
    BY <1>8, <1>9, Parts DEF b
  <2>3. Len(Encode(m)) \in Nat
    BY EncodedPacket, LenProperties
  <2>4. QED BY <1>1, <1>3, <2>1, <2>2, <2>3
<1>24. LeftoverInv' /\ NoHalfRead' /\ ChannelStep
  <2>1. LeftoverInv' /\ NoHalfRead'
    BY <1>16 DEF CodecInv, LeftoverInv, NoHalfRead
  <2>2. ChannelStep
    BY <1>1, <1>16, <1>17, <1>22 DEF ChannelStep, Stray
  <2>3. QED BY <2>1, <2>2
<1>25. CASE m.type \notin Lists \/ i = k
  <2>1. i = k
    <3>1. m.type \notin Lists => k = 1
      BY <1>4 DEF k
    <3>2. i \in 1 .. k
      BY DEF k
    <3>3. QED BY <1>25, <3>1, <3>2
  <2>2. data' = m.rows /\ q = <<Eof>>
    BY <1>4, <1>7, <1>18, <2>1, SubSeqFull DEF k
  <2>3. pc' = "end"
    BY <1>22, <1>25
  <2>4. FieldInv'
    BY <1>17, <1>20, <1>23, <2>2, <2>3 DEF FieldInv, CountInv, RowInv, EndInv
  <2>5. QED BY <1>17, <1>19, <1>24, <2>4 DEF CodecInv
<1>26. CASE ~ (m.type \notin Lists \/ i = k)
  <2>1. pc' = "row" /\ m.type \in Lists /\ i # k
    BY <1>22, <1>26
  <2>2. i + 1 \in 1 .. k /\ (i + 1) - 1 = i
    BY <1>4, <2>1 DEF k
  <2>3. RowInv(m)'
    <3>1. /\ i + 1 \in DOMAIN m.rows /\ data' = SubSeq(m.rows, 1, (i + 1) - 1)
          /\ net'[1] = Remaining(SubSeq(m.rows, i + 1, Len(m.rows)))
          /\ count' = Len(m.rows)
      BY <1>4, <1>17, <1>18, <1>21, <2>1, <2>2 DEF k, q
    <3>2. Len(data') + 1 = i + 1
      BY <1>18
    <3>3. QED BY <3>1, <3>2 DEF RowInv
  <2>4. FieldInv'
    BY <1>17, <1>20, <1>23, <2>1, <2>3 DEF FieldInv, CountInv, RowInv, EndInv
  <2>5. QED BY <1>17, <1>19, <1>24, <2>4 DEF CodecInv
<1>27. QED BY <1>25, <1>26

-----------------------------------------------------------------------------
(* The theorems.                                                           *)

LEMMA InitCodec == Init => CodecInv /\ Channel!Init
<1> SUFFICES ASSUME Init PROVE CodecInv /\ Channel!Init
  OBVIOUS
<1>1. /\ net = <<>> /\ flight = <<>> /\ pc = "header" /\ data = <<>> /\ taken = <<>>
      /\ count = 0 /\ broken = FALSE /\ open = TRUE /\ type \in Types /\ start = "packet"
  BY DEF Init
<1>2. /\ net \in Seq(Seq(Byte) \ {<<>>}) /\ Len(net) = 0 /\ flight \in Seq(Packets)
      /\ Len(flight) = 0 /\ data \in Seq(Seq(Byte)) /\ Len(data) = 0
      /\ taken \in Seq(Forged) /\ Len(taken) = 0
  BY <1>1, EmptySeq
<1>3. 0 <= Buffer /\ 0 <= Half /\ 0 \in - Half .. Half - 1
  BY Constants, CodecAssumption
<1>4. TypeOK
  <2>1. Len(net) <= Buffer /\ Len(data) <= Half /\ Len(taken) <= 1
    BY <1>2, <1>3
  <2>2. open \in BOOLEAN /\ broken \in BOOLEAN /\ pc \in {"header", "count", "row", "end"}
        /\ count \in - Half .. Half - 1
    BY <1>1, <1>3
  <2>3. QED BY <1>1, <1>2, <2>1, <2>2 DEF TypeOK
<1>5. StreamInv
  BY <1>2 DEF StreamInv
<1>6. FieldInv /\ LeftoverInv /\ NoHalfRead
  BY <1>1 DEF FieldInv, LeftoverInv, NoHalfRead
<1>7. Channel!Init
  BY <1>1 DEF Channel!Init, Begun
<1>8. QED BY <1>4, <1>5, <1>6, <1>7 DEF CodecInv

LEMMA NextCodec == CodecInv /\ [Next]_vars => CodecInv' /\ ChannelStep
<1> SUFFICES ASSUME CodecInv, [Next]_vars PROVE CodecInv' /\ ChannelStep
  OBVIOUS
<1>1. CASE \E m \in Packets : Send(m)
  BY <1>1, SendStep
<1>2. CASE Close
  BY <1>2, CloseStep
<1>3. CASE ReadHeader
  BY <1>3, ReadHeaderStep
<1>4. CASE ReadLeftover
  BY <1>4, ReadLeftoverStep
<1>5. CASE ReadCount \/ ReadRow \/ ReadEnd
  <2>1. CASE start = "packet"
    BY <1>5, <2>1, ReadCountStep, ReadRowStep, ReadEndStep
  <2>2. CASE start = "middle"
    BY <1>5, <2>2, AstrayReads
  <2>3. CASE start = "nothing"
    BY <1>5, <2>3, LeftoverReads
  <2>4. QED BY <2>1, <2>2, <2>3 DEF CodecInv, TypeOK
<1>6. CASE UNCHANGED vars
  <2>1. TypeOK' /\ StreamInv'
    BY <1>6 DEF vars, readVars, CodecInv, TypeOK, StreamInv
  <2>2. FieldInv' /\ LeftoverInv' /\ NoHalfRead'
    BY <1>6 DEF vars, readVars, CodecInv, FieldInv, CountInv, RowInv, EndInv, LeftoverInv,
                NoHalfRead
  <2>3. ChannelStep
    BY <1>6 DEF vars, readVars, ChannelStep, Stray, Begun
  <2>4. QED BY <2>1, <2>2, <2>3 DEF CodecInv
<1>7. QED BY <1>1, <1>2, <1>3, <1>4, <1>5, <1>6 DEF Next, Read

\* The inductive invariant of the connection: in every reachable state what is on its
\* way are whole packets, but for what was read of the first.  When getData started at
\* a packet, what remains of it is just what sendData wrote from the field on that is
\* read next; with the header of an earlier packet getData has nothing to read.
THEOREM CodecInvariance == Spec => []CodecInv
BY InitCodec, NextCodec, PTL DEF Spec

\* Every variable of the connection has its type, whatever bytes are read for a packet.
THEOREM CodecTyped == Spec => []TypeOK
<1>1. CodecInv => TypeOK
  BY DEF CodecInv
<1>2. QED BY <1>1, CodecInvariance, PTL

\* getData never reports that it has read in half a message whose header was read from
\* its first byte, whatever was skipped before and whenever the sender closes the
\* connection.
THEOREM NeverHalfRead == Spec => []NoHalfRead
<1>1. CodecInv => NoHalfRead
  BY DEF CodecInv
<1>2. QED BY <1>1, CodecInvariance, PTL

\* The connection implements PacketChannel: sendData appends a packet; the last step of
\* getData takes the first packet as it was sent; a reader that leaves a packet is astray
\* until it is at the first byte of one again, and only then takes anything else.
THEOREM ChannelRefinement == Spec => ImplementsChannel
<1>1. CodecInv /\ [Next]_vars => [Channel!Next]_(Channel!vars)
  BY NextCodec DEF ChannelStep, Stray, Channel!vars
<1>2. QED BY <1>1, InitCodec, CodecInvariance, PTL
             DEF Spec, ImplementsChannel, Channel!Spec
=============================================================================
