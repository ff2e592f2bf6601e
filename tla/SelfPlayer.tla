----------------------------- MODULE SelfPlayer -----------------------------
(***************************************************************************)
(* The player that a client program controls (SelfPlayer::move): steering, *)
(* shooting, and the array of its shots, which is used as a ring.          *)
(*                                                                         *)
(* Positions and speeds are integers (floats in the code, rounding is left *)
(* out), time is counted in rounds of the server.  An empty optional is a  *)
(* slot outside the domain of "shots".                                     *)
(***************************************************************************)
EXTENDS Integers

CONSTANTS
  Axis,        \* x and y
  Board,       \* size of the board along each of them
  Spawn,       \* where the server lets players start
  Accel,       \* Speed::acceleration
  MaxSpeed,    \* Speed::maxSpeed
  Directions,  \* unit vectors of the gun's rotation
  Muzzle,      \* from the middle of the player to where its shots start
  Ring,        \* slots in use, numbered from 0; one slot more is never used
  ShootCd,     \* Player::shootCd
  HalfLife,    \* Projectile::halfLife
  MaxAge       \* bound: ages from here on are not told apart

Vector == [Axis -> Int]

ASSUME PlayerAssumption ==
  /\ Axis # {}
  /\ Board \in Nat /\ Accel \in Nat /\ MaxSpeed \in Nat /\ Muzzle \in Nat
  /\ Spawn \subseteq 0 .. Board
  /\ Directions \subseteq Vector
  /\ Ring \in Nat /\ Ring > 0
  /\ ShootCd \in Nat /\ HalfLife \in Nat /\ MaxAge \in Nat
  /\ MaxAge > ShootCd /\ MaxAge > HalfLife

VARIABLES
  pos,           \* x, y
  speed,         \* currentSpeed
  shots,         \* projectiles
  projectileid,  \* the slot of the next shot
  sinceShot      \* GetTime() - lastTimeShoot, up to just above ShootCd

playerVars == <<pos, speed, shots, projectileid, sinceShot>>

Slot == 0 .. Ring
Shot == [age : 0 .. MaxAge, at : Vector, vel : Vector]

PlayerTypeOK ==
  /\ pos \in Vector
  /\ speed \in Vector
  /\ DOMAIN shots \subseteq 0 .. Ring - 1
  /\ shots \in [DOMAIN shots -> Shot]
  /\ projectileid \in 0 .. Ring - 1
  /\ sinceShot \in 0 .. ShootCd + 1

\* The player's own program has been running for longer than ShootCd.
PlayerInit ==
  /\ pos \in [Axis -> Spawn]
  /\ speed = [k \in Axis |-> 0]
  /\ shots = [j \in {} |-> 0]
  /\ projectileid = 0
  /\ sinceShot = ShootCd + 1

Lower(a, b)  == IF a < b THEN a ELSE b
Higher(a, b) == IF a > b THEN a ELSE b

-----------------------------------------------------------------------------
(* Steering                                                                *)

\* Mutant: only the far side is clamped.
ClampBelow(x) == Lower(x, Board)

\* std::clamp to the board.
Clamp(x) == Higher(0, Lower(x, Board))

\* Both keys of an axis may be down: first the one, then the other.
Pushed(v, minus, plus) ==
  LET w == IF minus THEN Higher(-MaxSpeed, v - Accel) ELSE v
  IN  IF plus THEN Lower(MaxSpeed, w + Accel) ELSE w

Slowed(v) == IF v < 0 THEN Lower(0, v + Accel) ELSE Higher(0, v - Accel)

NewSpeed(v, minus, plus) ==
  IF minus \/ plus THEN Pushed(v, minus, plus) ELSE Slowed(v)

\* "minus" and "plus" are the axes with A or W, and with D or S, held down.
\* The speed is added, the sum clamped, and the speed added once more.
Steer(minus, plus) ==
  /\ speed' = [k \in Axis |-> NewSpeed(speed[k], k \in minus, k \in plus)]
  /\ pos' = [k \in Axis |-> Clamp(pos[k] + speed'[k]) + speed'[k]]

-----------------------------------------------------------------------------
(* Shots                                                                   *)

\* A shot leaves the gun with twice the sum of the gun's and the player's speed.
Fired(d) ==
  [age |-> 0,
   at  |-> [k \in Axis |-> pos'[k] + Muzzle * d[k]],
   vel |-> [k \in Axis |-> 2 * (MaxSpeed * d[k] + speed'[k])]]

\* Mutant: shots do not expire.
OffBoard(s) == \E k \in Axis : s.at[k] - s.vel[k] \notin 0 .. Board - 1

\* Its time is over, or it was outside the board a step ago
\* (CheckCollisionPointRec).
Gone(s) ==
  \/ s.age > HalfLife
  \/ \E k \in Axis : s.at[k] - s.vel[k] \notin 0 .. Board - 1

\* What is left after a frame.  The check that follows a step in the code asks for
\* a coordinate that is both below 0 and beyond the board, so it never applies.
Flown(ss) ==
  [j \in {j \in DOMAIN ss : ~ Gone(ss[j])} |->
     [ss[j] EXCEPT !.at = [k \in Axis |-> @[k] + ss[j].vel[k]]]]

\* Mutant: the last slot of the array is used as well.
NextSlotOfAll == IF projectileid < Ring THEN projectileid + 1 ELSE 0

\* One slot of the array is never reached (projectileid < 14).
NextSlot == IF projectileid < Ring - 1 THEN projectileid + 1 ELSE 0

\* Mutant: lastTimeShoot is not set.
ShootUntimed(d) ==
  /\ sinceShot > ShootCd
  /\ shots' = Flown([j \in DOMAIN shots \union {projectileid} |->
                       IF j = projectileid THEN Fired(d) ELSE shots[j]])
  /\ projectileid' = NextSlot
  /\ UNCHANGED sinceShot

\* Space is held and the last shot is long enough ago.  The shot before the
\* previous turn of the ring is overwritten, whether it has expired or not.
Shoot(d) ==
  /\ sinceShot > ShootCd
  /\ shots' = Flown([j \in DOMAIN shots \union {projectileid} |->
                       IF j = projectileid THEN Fired(d) ELSE shots[j]])
  /\ projectileid' = NextSlot
  /\ sinceShot' = 0

\* Space is not held, or it is too early.
HoldFire ==
  /\ shots' = Flown(shots)
  /\ UNCHANGED <<projectileid, sinceShot>>

\* SelfPlayer::move, called once per frame.  A shot takes the rotation of the frame
\* before, which may be any.
Move ==
  \E minus, plus \in SUBSET Axis :
    /\ Steer(minus, plus)
    /\ HoldFire \/ \E d \in Directions : Shoot(d)

Older(age) == Lower(age + 1, MaxAge)
Aged(ss) == [j \in DOMAIN ss |-> [ss[j] EXCEPT !.age = Older(@)]]

\* Time passes.  There may be any number of frames before it does so again.
PlayerAges ==
  /\ shots' = Aged(shots)
  /\ sinceShot' = Lower(sinceShot + 1, ShootCd + 1)
  /\ UNCHANGED <<pos, speed, projectileid>>

-----------------------------------------------------------------------------
(* Properties                                                              *)

\* The board holds its players: clamping before the last addition of the speed
\* lets a player stand outside of it, but never by more than one step.
NearBoard ==
  \A k \in Axis :
    /\ speed[k] \in -MaxSpeed .. MaxSpeed
    /\ pos[k] \in -MaxSpeed .. Board + MaxSpeed

\* The shots fired after the one in slot j, whether they are still there or not.
Behind(j) == IF j < projectileid THEN projectileid - 1 - j ELSE projectileid - 1 - j + Ring

\* The slots are a ring in the order of firing, and shots are more than ShootCd
\* apart: so the slot written next holds the oldest shot, if any, whatever the
\* order in which shots expired or left the board.
RingOrder ==
  \A j \in DOMAIN shots :
    /\ shots[j].age >= sinceShot
    /\ \A i \in DOMAIN shots :
         Behind(i) > Behind(j) =>
           shots[i].age = MaxAge \/ shots[i].age - shots[j].age > ShootCd
=============================================================================
