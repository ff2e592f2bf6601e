---------------------------- MODULE MCPacketCodec ----------------------------
EXTENDS PacketCodec

\* Two types of packets: vectors of short structures, and a longer structure.
MCSize == [t \in Types |-> IF t \in Lists THEN 1 ELSE 2]
=============================================================================
