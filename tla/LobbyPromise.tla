---------------------------- MODULE LobbyPromise ----------------------------
(***************************************************************************)
(* What the lobby promises to one connection, whatever queue it sits in: it *)
(* is accepted, chooses an avatar, waits, and then plays in a match whose   *)
(* players all waited and start together; or it is dropped on the way.  The *)
(* module LobbyQueue implements this one.                                   *)
(***************************************************************************)
EXTENDS Integers, FiniteSets

CONSTANTS
  Conns,      \* the connections a client may open
  StartSize,  \* least number of players of a match
  Capacity    \* most players of a match

VARIABLE place

Places == {"outside", "choosing", "waiting", "playing", "dropped"}

At(s) == {c \in Conns : place[c] = s}

Init == place = [c \in Conns |-> "outside"]

Move(S, s) == [c \in Conns |-> IF c \in S THEN s ELSE place[c]]

Accept == \E c \in At("outside") : place' = Move({c}, "choosing")

\* One look at the clients without an avatar: some have one now, some left.
Choose ==
  \E N, D \in SUBSET At("choosing") :
    /\ N \cap D = {}
    /\ place' = [c \in Conns |-> IF c \in N THEN "waiting"
                                 ELSE IF c \in D THEN "dropped" ELSE place[c]]

Drop == \E D \in SUBSET At("waiting") : place' = Move(D, "dropped")

Start ==
  \E G \in SUBSET At("waiting") :
    /\ Cardinality(G) \in StartSize .. Capacity
    /\ place' = Move(G, "playing")

Next == Accept \/ Choose \/ Drop \/ Start

Spec == Init /\ [][Next]_place
=============================================================================
