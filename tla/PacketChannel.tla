---------------------------- MODULE PacketChannel ----------------------------
(***************************************************************************)
(* What sendData and getData promise to their callers: a connection        *)
(* carries whole packets in their order.  The reader takes one as it was   *)
(* sent, or leaves it at its header and is astray until it is at the first *)
(* byte of a packet again: what it takes before that may be anything.  The *)
(* module PacketCodec implements this one.                                 *)
(***************************************************************************)
EXTENDS Integers, Sequences

CONSTANTS
  Packets,  \* what may be sent
  Forged,   \* what a reader that is astray may take for a packet
  Buffer    \* packets a connection holds

VARIABLES
  flight,   \* packets on their way
  taken,    \* the last packet that was read, if any
  stray     \* the reader is in the middle of a packet that was left

vars == <<flight, taken, stray>>

Init == flight = <<>> /\ taken = <<>> /\ stray = FALSE

Send ==
  /\ Len(flight) < Buffer
  /\ \E m \in Packets : flight' = Append(flight, m)
  /\ UNCHANGED <<taken, stray>>

Take ==
  /\ flight # <<>> /\ ~ stray
  /\ taken' = <<Head(flight)>>
  /\ flight' = Tail(flight)
  /\ UNCHANGED stray

\* The reader does not want the packet whose header it has read.
Leave ==
  /\ flight # <<>> /\ ~ stray
  /\ stray' = TRUE
  /\ UNCHANGED <<flight, taken>>

\* What is left of packets, and the next ones perhaps, is read for what it is not.
Wander ==
  /\ stray
  /\ stray' \in BOOLEAN
  /\ \E n \in 0 .. Len(flight) : flight' = SubSeq(flight, n + 1, Len(flight))
  /\ UNCHANGED taken \/ taken' \in Seq(Forged)

\* The connection ends, and with it what has not arrived.
Lose ==
  /\ \E n \in 0 .. Len(flight) : flight' = SubSeq(flight, 1, n)
  /\ UNCHANGED <<taken, stray>>

Next == Send \/ Take \/ Leave \/ Wander \/ Lose

Spec == Init /\ [][Next]_vars
=============================================================================
