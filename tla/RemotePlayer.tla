---------------------------- MODULE RemotePlayer ----------------------------
(***************************************************************************)
(* The shots of SelfPlayer as the server sees them: one update per frame   *)
(* of the client, one read per round of the server, and what the server's  *)
(* copy does to others until the player is removed.  The copies that the   *)
(* other clients draw are not modelled.                                    *)
(*                                                                         *)
(* One player thread (GameMain) is cut at the barriers of LockStep: the    *)
(* read of phase 1, and the rest of the round, in which nobody writes the  *)
(* copy.  Where the player itself stands is in the updates too, and is     *)
(* left out: any place on the board is taken as that of a victim.          *)
(***************************************************************************)
EXTENDS SelfPlayer, Sequences, Functions

CONSTANTS
  UpBuffer,   \* updates on their way to the server, unread ones included
  Limit,      \* rounds without an update after which a player is removed
  HitRadius   \* the sizes of a shot and a player together

Backlog == UpBuffer * Limit

ASSUME RemoteAssumption ==
  /\ UpBuffer \in Nat /\ Limit \in Nat /\ Limit > 0 /\ HitRadius \in Nat
  /\ MaxAge > HalfLife + Backlog + Limit

VARIABLES
  open,      \* the client keeps the connection
  up,        \* the updates in it
  copy,      \* projectiles in GameInfo::players
  phase,     \* what the server does next: "receive", "rest", or "out" of the match
  silence,   \* rounds since the last update
  killed     \* the end of the connection was seen in this round

remoteVars == <<open, up, copy, phase, silence, killed>>
vars == <<playerVars, remoteVars>>

NetProjectile == [age : 0 .. MaxAge, at : Vector]

IsUpdate(u) == DOMAIN u \subseteq Slot /\ u \in [DOMAIN u -> NetProjectile]

TypeOK ==
  /\ PlayerTypeOK
  /\ open \in BOOLEAN
  /\ up \in Seq(Range(up)) /\ Len(up) <= UpBuffer
  /\ \A u \in Range(up) \union {copy} : IsUpdate(u)
  /\ phase \in {"receive", "rest", "out"}
  /\ silence \in 0 .. Limit
  /\ killed \in BOOLEAN

Origin == [k \in Axis |-> 0]
NoShots == [j \in {} |-> 0]

\* createPlayer: a player without shots.
Init ==
  /\ PlayerInit
  /\ open = TRUE
  /\ up = <<>>
  /\ copy = NoShots
  /\ phase = "receive"
  /\ silence = 0
  /\ killed = FALSE

-----------------------------------------------------------------------------
(* The client                                                              *)

\* Empty slots are sent empty; the speed is serialised as zero and used by nobody.
Serialize == [j \in DOMAIN shots' |-> [age |-> shots'[j].age, at |-> shots'[j].at]]

\* A frame of the game stage: the move, and an update to the server.  When the
\* buffer is full it is lost, which nobody notices.
Frame ==
  /\ open
  /\ Move
  /\ up' = IF Len(up) < UpBuffer THEN Append(up, Serialize) ELSE up
  /\ UNCHANGED <<open, copy, phase, silence, killed>>

\* The game stage is deleted, and the player with it.
Discard ==
  /\ open' = FALSE
  /\ pos' = Origin
  /\ speed' = Origin
  /\ shots' = NoShots
  /\ projectileid' = 0
  /\ sinceShot' = ShootCd + 1

\* The client is defeated, has won, or is closed by its user.
Leave ==
  /\ open
  /\ Discard
  /\ UNCHANGED <<up, copy, phase, silence, killed>>

-----------------------------------------------------------------------------
(* The server                                                              *)

\* updatePlayer, with the oldest update if it has arrived.
ReadUpdate ==
  /\ up # <<>>
  /\ up' = [n \in 1 .. Len(up) - 1 |-> Aged(up[n + 1])]
  /\ copy' = Aged(up[1])
  /\ silence' = 0
  /\ UNCHANGED killed

\* Nothing has arrived within 9 ms, or the end of the connection is read as trash.
NoUpdate ==
  /\ up' = [n \in DOMAIN up |-> Aged(up[n])]
  /\ copy' = Aged(copy)
  /\ silence' = silence + 1
  /\ UNCHANGED killed

\* poll reports that the connection is closed.
HangUp ==
  /\ ~ open
  /\ up' = [n \in DOMAIN up |-> Aged(up[n])]
  /\ copy' = Aged(copy)
  /\ silence' = silence + 1
  /\ killed' = TRUE

\* Mutant: the update is not applied when its data could not be read.
ReadHeaderOnly ==
  /\ ~ open
  /\ up = <<>>
  /\ copy' = Aged(copy)
  /\ silence' = 0
  /\ UNCHANGED <<up, killed>>

\* The connection is closed, and what is left in the buffer for the header looks
\* like an update: it is as the constructor has made it, without shots.
ReadLeftover ==
  /\ ~ open
  /\ up = <<>>
  /\ copy' = NoShots
  /\ silence' = 0
  /\ UNCHANGED <<up, killed>>

\* Phase 1, in which a round's time passes.  An update that arrived is recognised
\* and read as a whole: SCTP keeps the boundaries of messages.
Receive ==
  /\ phase = "receive"
  /\ phase' = "rest"
  /\ PlayerAges
  /\ ReadUpdate \/ NoUpdate \/ HangUp \/ ReadLeftover
  /\ UNCHANGED open

\* Three seconds without an update.
TooLong == silence >= Limit

\* Phases 2 to 4: the others are validated against the copy, and sent it.  The
\* player itself stays ...
Rest ==
  /\ phase = "rest"
  /\ ~ killed /\ ~ TooLong
  /\ phase' = "receive"
  /\ UNCHANGED <<playerVars, open, up, copy, silence, killed>>

\* ... or is removed: it is hit, cannot be reached, or is silent for too long, which
\* may be up to a second early (time(NULL) is in seconds).  The clean-up closes the
\* connection and erases the player; what its client still does reaches nobody.
Remove ==
  /\ phase = "rest"
  /\ phase' = "out"
  /\ up' = <<>>
  /\ copy' = NoShots
  /\ silence' = 0
  /\ killed' = FALSE
  /\ Discard

Next == Frame \/ Leave \/ Receive \/ Rest \/ Remove

Spec == Init /\ [][Next]_vars

\* The match goes on; nothing about the client.
FairSpec == Spec /\ WF_vars(Receive) /\ WF_vars(Rest \/ Remove)

-----------------------------------------------------------------------------
(* What the copy does                                                      *)

\* The square of the distance.
Distance2(a, b) == FoldFunction(LAMBDA d, sum : d * d + sum, 0, [k \in Axis |-> a[k] - b[k]])

\* validatePlayer: the shot in slot j hits a player that stands at "victim"; one that is
\* exactly at the origin is skipped.  The code looks into the empty slots too, without
\* asking: what it then reads is undefined, and not modelled.
Hits(j, victim) ==
  /\ copy[j].at # Origin
  /\ Distance2(copy[j].at, victim) <= HitRadius * HitRadius

-----------------------------------------------------------------------------
(* Properties                                                              *)

\* Where players can stand (NearBoard).
Places == [Axis -> -MaxSpeed .. Board + MaxSpeed]

\* A shot that the server takes for a hit was fired at most HalfLife ago, apart from
\* the time its update was on the way and the player has been silent.
OnlyRecentShotsCount ==
  \A j \in DOMAIN copy :
    (\E victim \in Places : Hits(j, victim)) =>
      copy[j].age <= HalfLife + Backlog + silence

\* The shots of a player who has left come to an end, though the player itself may
\* stay: a leftover header that looks like an update again and again restarts its
\* three seconds every time.
LeftShotsEnd == ~ open ~> copy = NoShots
=============================================================================
