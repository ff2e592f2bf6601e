----------------------------- MODULE PacketCodec -----------------------------
(***************************************************************************)
(* sendData and getData (Packets.h): one direction of a connection.  A     *)
(* packet is written as a whole: its header, how many structures follow    *)
(* (zero for one that is no vector), the size and the bytes of each, and   *)
(* an end sign.  It is read field by field, each with a recv of its own.   *)
(*                                                                         *)
(* SCTP keeps the boundaries of messages: a recv returns bytes of one      *)
(* message only, and what it leaves is returned by the next recv.          *)
(*                                                                         *)
(* A header (3 bytes) and a size (2 bytes) are one byte here.              *)
(***************************************************************************)
EXTENDS Integers, Sequences, SequencesExt

CONSTANTS
  Half,      \* half the values of a byte (128); char is signed
  Types,     \* headers
  Lists,     \* headers of the packets that are vectors
  Size,      \* sizeof the structure of each type
  Payload,   \* bytes of structures
  Eof,       \* '#'
  MaxCount,  \* structures in a vector; a match has Capacity players (LobbyQueue)
  Buffer     \* packets a connection holds

Byte == 0 .. 2 * Half - 1

\* Any byte of a packet may look like a header, should it be read as one.
ASSUME CodecAssumption ==
  /\ Half \in Nat /\ Buffer \in Nat \ {0}
  /\ MaxCount \in 0 .. Half - 1
  /\ Types \subseteq Byte /\ Lists \subseteq Types
  /\ Eof \in Byte /\ Payload \subseteq Byte
  /\ Size \in [Types -> Byte \ {0}]

VARIABLES
  open,    \* the sender has not closed the connection
  net,     \* messages on their way, the first without what was read of it
  flight,  \* the packets they were (history)
  pc,      \* what is read next
  type,    \* the header that was read
  start,   \* where it was read: first byte of a packet, middle of one, no byte (history)
  count,   \* numberOfStructures
  data,    \* structures read so far
  taken,   \* the last packet that was read (<<>> before)
  broken   \* the last getData returned -1 or 0

readVars == <<pc, type, start, count, data, taken, broken>>
vars == <<open, net, flight, readVars>>

Rows(t) ==
  LET row == [1 .. Size[t] -> Payload]
  IN  IF t \in Lists THEN BoundedSeq(row, MaxCount) ELSE [{1} -> row]

Packets == UNION {[type : {t}, rows : Rows(t)] : t \in Types}

\* What getData can make of any bytes.
Forged == [type : Types, rows : Seq(Seq(Byte))]

TypeOK ==
  /\ open \in BOOLEAN
  /\ net \in Seq(Seq(Byte) \ {<<>>})
  /\ Len(net) <= Buffer
  /\ flight \in Seq(Packets)
  /\ pc \in {"header", "count", "row", "end"}
  /\ type \in Types
  /\ start \in {"packet", "middle", "nothing"}
  /\ count \in -Half .. Half - 1
  /\ data \in Seq(Seq(Byte)) /\ Len(data) <= Half
  /\ taken \in Seq(Forged) /\ Len(taken) <= 1
  /\ broken \in BOOLEAN

Init ==
  /\ open = TRUE
  /\ net = <<>>
  /\ flight = <<>>
  /\ pc = "header"
  /\ type \in Types
  /\ start = "packet"
  /\ count = 0
  /\ data = <<>>
  /\ taken = <<>>
  /\ broken = FALSE

-----------------------------------------------------------------------------
(* sendData                                                                *)

\* A size of uint16_t, and the structure.
EncodeRow(row) == <<Len(row)>> \o row

\* Mutant: the last structure of a vector is not sent.
EncodeAllButLast(m) ==
  LET rows == IF m.type \in Lists /\ m.rows # <<>> THEN Front(m.rows) ELSE m.rows
      n    == IF m.type \in Lists THEN Len(rows) % (2 * Half) ELSE 0
  IN  <<m.type, n>> \o FlattenSeq([i \in DOMAIN rows |-> EncodeRow(rows[i])]) \o <<Eof>>

Encode(m) ==
  LET n == IF m.type \in Lists THEN Len(m.rows) % (2 * Half) ELSE 0
  IN  <<m.type, n>>
        \o FlattenSeq([i \in DOMAIN m.rows |-> EncodeRow(m.rows[i])]) \o <<Eof>>

\* Mutant: nothing bounds what is sent.
SendAnyway(m) ==
  /\ open
  /\ net' = Append(net, Encode(m))
  /\ flight' = Append(flight, m)
  /\ UNCHANGED <<open, readVars>>

\* send takes a message as a whole, or fails.
Send(m) ==
  /\ open
  /\ Len(net) < Buffer
  /\ net' = Append(net, Encode(m))
  /\ flight' = Append(flight, m)
  /\ UNCHANGED <<open, readVars>>

\* Of the first message a part has been read.
Begun == net # <<>> /\ Head(net) # Encode(Head(flight))

\* The sender closes the connection: what has not arrived may be lost, but not a
\* message that is being read.
Close ==
  /\ open
  /\ open' = FALSE
  /\ \E n \in (IF Begun THEN 1 ELSE 0) .. Len(net) :
       /\ net' = SubSeq(net, 1, n)
       /\ flight' = SubSeq(flight, 1, n)
  /\ UNCHANGED readVars

-----------------------------------------------------------------------------
(* getData                                                                 *)

\* What a recv of n bytes returns, and what is left after it.
Chunk(ms, n) ==
  IF ms = <<>> THEN <<>>
  ELSE SubSeq(Head(ms), 1, IF n < Len(Head(ms)) THEN n ELSE Len(Head(ms)))

After(ms, n) ==
  IF ms = <<>> THEN <<>>
  ELSE IF n < Len(Head(ms)) THEN <<SubSeq(Head(ms), n + 1, Len(Head(ms)))>> \o Tail(ms)
  ELSE Tail(ms)

\* A byte that is read, or what the variable for it happens to hold when there is
\* nothing to read.
ByteRead == IF net = <<>> THEN Byte ELSE ToSet(Chunk(net, 1))

\* Messages of which nothing is left are gone.
LeaveOf(rest) ==
  /\ net' = rest
  /\ flight' = SubSeq(flight, 1 + Len(net) - Len(rest), Len(flight))
  /\ UNCHANGED open

\* Mutant: the largest count is taken for a negative one.
SignedEarly(b) == IF b < Half - 1 THEN b ELSE b - 2 * Half

Signed(b) == IF b < Half THEN b ELSE b - 2 * Half

\* -1 or 0 is returned, at which no caller looks.
Fail ==
  /\ broken' = TRUE
  /\ pc' = "header"
  /\ UNCHANGED <<count, data, taken>>

\* The caller wants the packet that has this header.
Begin(h, from) ==
  /\ type' = h
  /\ start' = from
  /\ pc' = "count"
  /\ data' = <<>>
  /\ broken' = FALSE

\* Mutant: what is no header stays in the connection.
ReadHeaderKeepTrash ==
  /\ pc = "header"
  /\ net # <<>>
  /\ LET h == Head(Head(net))
     IN  \/ /\ h \in Types
            /\ LeaveOf(After(net, 1))
            /\ Begin(h, IF Begun THEN "middle" ELSE "packet")
         \/ /\ LeaveOf(IF h \in Types THEN After(net, 1) ELSE net)
            /\ UNCHANGED <<pc, type, start, data, broken>>
  /\ UNCHANGED <<count, taken>>

\* getNetMessageType, GetPacketHeader.  The caller wants the packet, or does not and
\* comes back for the next header: it reads the rest of the message as headers, and
\* may find one there.
ReadHeader ==
  /\ pc = "header"
  /\ net # <<>>
  /\ LeaveOf(After(net, 1))
  /\ LET h == Head(Head(net))
     IN  \/ /\ h \in Types
            /\ Begin(h, IF Begun THEN "middle" ELSE "packet")
         \/ UNCHANGED <<pc, type, start, data, broken>>
  /\ UNCHANGED <<count, taken>>

\* GetPacketHeader returns a header that nothing was read into, such as the last one,
\* when the connection is closed and empty.  The server wants no vectors.
ReadLeftover ==
  /\ pc = "header"
  /\ ~ open
  /\ net = <<>>
  /\ \E h \in Types \ Lists : Begin(h, "nothing")
  /\ UNCHANGED <<open, net, flight, count, taken>>

\* What the loop over the structures does next.
NextRow(t, n, i) == IF t \notin Lists THEN IF i = 0 THEN "row" ELSE "end"
                    ELSE IF i # n THEN "row" ELSE "end"

ReadCount ==
  /\ pc = "count"
  /\ LeaveOf(After(net, 1))
  /\ \E b \in ByteRead : count' = Signed(b)
  /\ pc' = NextRow(type, count', 0)
  /\ UNCHANGED <<type, start, data, taken, broken>>

\* The size and the structure.  In a vector it has to be as long as its size says,
\* else as long as the structure that is expected; to receive nothing is an error
\* while the connection is open, and a structure of no size after that.  Half
\* structures are kept: the loop does not end at a negative count.
ReadRow ==
  /\ pc = "row"
  /\ LET size == IF net = <<>> THEN 0 ELSE Head(Head(net))
         rest == After(net, 1)
         row  == Chunk(rest, size)
         due  == IF type \in Lists THEN size ELSE Size[type]
         got  == Len(row) = due /\ (rest # <<>> \/ ~ open)
     IN  /\ LeaveOf(After(rest, size))
         /\ \/ /\ ~ got
               /\ Fail
            \/ /\ got
               /\ data' = IF Len(data) < Half THEN Append(data, row) ELSE data
               /\ pc' = NextRow(type, count, Len(data'))
               /\ UNCHANGED <<count, taken, broken>>
  /\ UNCHANGED <<type, start>>

ReadEnd ==
  /\ pc = "end"
  /\ LeaveOf(After(net, 1))
  /\ \E b \in ByteRead :
       \/ /\ b # Eof
          /\ Fail
       \/ /\ b = Eof
          /\ taken' = <<[type |-> type, rows |-> data]>>
          /\ pc' = "header"
          /\ UNCHANGED <<count, data, broken>>
  /\ UNCHANGED <<type, start>>

Read == ReadHeader \/ ReadLeftover \/ ReadCount \/ ReadRow \/ ReadEnd

Next == (\E m \in Packets : Send(m)) \/ Close \/ Read

Spec == Init /\ [][Next]_vars

\* Both programs come back for headers, in every frame or round.
FairSpec == Spec /\ WF_vars(Read)

-----------------------------------------------------------------------------
(* Properties                                                              *)

\* "Wiadomosc zostala odczytana w polowie" (Packets.h:303, 329: the message was read
\* in half) never happens to a message whose header was read from its first byte,
\* whatever was skipped before it and whenever the sender closes the connection: every
\* recv of getData then meets the field that it is meant for.
NoHalfRead == broken => start # "packet"

Channel == INSTANCE PacketChannel
  WITH stray <- IF pc = "header" THEN Begun ELSE start = "middle"

\* Packets are taken as they were sent, and in their order.  Only a reader that skips
\* a packet loses its place, and takes then what it finds in the rest of it; in its
\* place it takes nothing that was not sent, also when it goes on at the end of a
\* closed connection with the header of an earlier packet.
ImplementsChannel == Channel!Spec

\* After the sender has closed the connection the reader gets to its end: neither the
\* rest of a message that nobody wanted nor a false header in it holds it up.
ConnectionDrained == ~ open ~> net = <<>>
=============================================================================
