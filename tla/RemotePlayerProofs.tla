------------------------- MODULE RemotePlayerProofs -------------------------
(***************************************************************************)
(* For every size of the board, the ring and the buffers: the types of     *)
(* RemotePlayer, where a player can be, the order of its shots, and how    *)
(* old a shot can be that the server takes for a hit.                      *)
(***************************************************************************)
EXTENDS RemotePlayer, TLAPS

-----------------------------------------------------------------------------
(* Steering                                                                *)

\* Clamping returns a coordinate of the board.
LEMMA Clamped ==
  ASSUME NEW x \in Int
  PROVE  Clamp(x) \in 0 .. Board
BY PlayerAssumption DEF Clamp, Higher, Lower

\* A speed within the limit stays within it.
LEMMA SpeedLimited ==
  ASSUME NEW v \in -MaxSpeed .. MaxSpeed, NEW minus \in BOOLEAN, NEW plus \in BOOLEAN
  PROVE  NewSpeed(v, minus, plus) \in -MaxSpeed .. MaxSpeed
<1>1. Slowed(v) \in -MaxSpeed .. MaxSpeed
  BY PlayerAssumption DEF Slowed, Higher, Lower
<1>2. Pushed(v, minus, plus) \in -MaxSpeed .. MaxSpeed
  <2> DEFINE w == IF minus THEN Higher(-MaxSpeed, v - Accel) ELSE v
  <2>1. w \in -MaxSpeed .. MaxSpeed
    BY PlayerAssumption DEF Higher
  <2>2. (IF plus THEN Lower(MaxSpeed, w + Accel) ELSE w) \in -MaxSpeed .. MaxSpeed
    <3> HIDE DEF w
    <3> QED BY <2>1, PlayerAssumption DEF Lower
  <2> QED BY <2>2 DEF Pushed
<1> QED BY <1>1, <1>2 DEF NewSpeed

\* The new speed and position, and that they stay near the board.
LEMMA Steered ==
  ASSUME PlayerTypeOK, NearBoard, NEW minus, NEW plus, Steer(minus, plus)
  PROVE  speed' \in Vector /\ pos' \in Vector /\ NearBoard'
<1>1. \A k \in Axis : speed'[k] \in -MaxSpeed .. MaxSpeed
  <2> SUFFICES ASSUME NEW k \in Axis PROVE speed'[k] \in -MaxSpeed .. MaxSpeed
    OBVIOUS
  <2>1. speed'[k] = NewSpeed(speed[k], k \in minus, k \in plus)
    BY DEF Steer
  <2>2. speed[k] \in -MaxSpeed .. MaxSpeed
    BY DEF NearBoard
  <2>3. (k \in minus) \in BOOLEAN /\ (k \in plus) \in BOOLEAN
    OBVIOUS
  <2> QED BY <2>1, <2>2, <2>3, SpeedLimited
<1>2. \A k \in Axis : pos'[k] \in -MaxSpeed .. Board + MaxSpeed
  <2> SUFFICES ASSUME NEW k \in Axis PROVE pos'[k] \in -MaxSpeed .. Board + MaxSpeed
    OBVIOUS
  <2>1. pos'[k] = Clamp(pos[k] + speed'[k]) + speed'[k]
    BY DEF Steer
  <2>2. pos[k] \in Int /\ speed'[k] \in -MaxSpeed .. MaxSpeed
    BY <1>1 DEF PlayerTypeOK, Vector
  <2>3. pos[k] + speed'[k] \in Int
    BY <2>2, PlayerAssumption
  <2>4. Clamp(pos[k] + speed'[k]) \in 0 .. Board
    BY <2>3, Clamped
  <2> QED BY <2>1, <2>2, <2>4, PlayerAssumption
<1>3. speed' \in Vector
  <2>1. speed' = [k \in Axis |-> NewSpeed(speed[k], k \in minus, k \in plus)]
    BY DEF Steer
  <2> QED BY <1>1, <2>1, PlayerAssumption DEF Vector
<1>4. pos' \in Vector
  <2>1. pos' = [k \in Axis |-> Clamp(pos[k] + speed'[k]) + speed'[k]]
    BY DEF Steer
  <2> QED BY <1>2, <2>1, PlayerAssumption DEF Vector
<1> QED BY <1>1, <1>2, <1>3, <1>4 DEF NearBoard

-----------------------------------------------------------------------------
(* Shots                                                                   *)

ShotsIn(ss) == ss \in [DOMAIN ss -> Shot]

\* What is left after a frame: some of the shots, none of them too old.
LEMMA FlownShots ==
  ASSUME NEW ss, ShotsIn(ss)
  PROVE  /\ DOMAIN Flown(ss) \subseteq DOMAIN ss
         /\ ShotsIn(Flown(ss))
         /\ \A j \in DOMAIN Flown(ss) :
              Flown(ss)[j].age = ss[j].age /\ Flown(ss)[j].age <= HalfLife
<1> DEFINE left == {j \in DOMAIN ss : ~ Gone(ss[j])}
           new(j) == [ss[j] EXCEPT !.at = [k \in Axis |-> @[k] + ss[j].vel[k]]]
<1>1. Flown(ss) = [j \in left |-> new(j)]
  BY DEF Flown
<1>2. ASSUME NEW j \in left
      PROVE  /\ new(j) \in Shot
             /\ new(j).age = ss[j].age
             /\ ss[j].age <= HalfLife
  <2>1. ss[j] \in Shot /\ ~ Gone(ss[j])
    BY <1>2 DEF ShotsIn
  <2>2. ss[j].age \in 0 .. MaxAge /\ ss[j].at \in Vector /\ ss[j].vel \in Vector
    BY <2>1 DEF Shot
  <2>3. [k \in Axis |-> ss[j].at[k] + ss[j].vel[k]] \in Vector
    BY <2>2 DEF Vector
  <2>4. new(j) = [age |-> ss[j].age, vel |-> ss[j].vel,
                  at |-> [k \in Axis |-> ss[j].at[k] + ss[j].vel[k]]]
    BY <2>1 DEF Shot
  <2>5. ss[j].age <= HalfLife
    BY <2>1, <2>2, PlayerAssumption DEF Gone
  <2> QED BY <2>2, <2>3, <2>4, <2>5 DEF Shot
<1>3. DOMAIN Flown(ss) = left
  BY <1>1
<1>4. \A j \in left : Flown(ss)[j] = new(j)
  BY <1>1
<1> HIDE DEF new
<1>5. Flown(ss) \in [left -> Shot]
  BY <1>1, <1>2
<1> QED BY <1>2, <1>3, <1>4, <1>5 DEF ShotsIn

\* Time makes every age larger by one, up to MaxAge.
LEMMA AgedShots ==
  ASSUME NEW ss, ShotsIn(ss)
  PROVE  /\ DOMAIN Aged(ss) = DOMAIN ss
         /\ ShotsIn(Aged(ss))
         /\ \A j \in DOMAIN ss : Aged(ss)[j].age = Older(ss[j].age)
<1>1. ASSUME NEW j \in DOMAIN ss
      PROVE  /\ [ss[j] EXCEPT !.age = Older(@)] \in Shot
             /\ [ss[j] EXCEPT !.age = Older(@)].age = Older(ss[j].age)
  <2>1. ss[j] \in Shot
    BY DEF ShotsIn
  <2>2. Older(ss[j].age) \in 0 .. MaxAge
    BY <2>1, PlayerAssumption DEF Older, Lower, Shot
  <2> QED BY <2>1, <2>2 DEF Shot
<1> QED BY <1>1 DEF Aged, ShotsIn

\* The shot that is fired.
LEMMA FiredShot ==
  ASSUME NEW d \in Directions, pos' \in Vector, speed' \in Vector
  PROVE  Fired(d) \in Shot /\ Fired(d).age = 0
<1>1. d \in Vector
  BY PlayerAssumption
<1>2. \A k \in Axis : d[k] \in Int /\ pos'[k] \in Int /\ speed'[k] \in Int
  BY <1>1 DEF Vector
<1>3. \A k \in Axis : Muzzle * d[k] \in Int /\ MaxSpeed * d[k] \in Int
  BY <1>2, PlayerAssumption
<1>4. [k \in Axis |-> pos'[k] + Muzzle * d[k]] \in Vector
  BY <1>2, <1>3 DEF Vector
<1>5. [k \in Axis |-> 2 * (MaxSpeed * d[k] + speed'[k])] \in Vector
  BY <1>2, <1>3 DEF Vector
<1> QED BY <1>4, <1>5, PlayerAssumption DEF Fired, Shot

\* The shots after the one in slot j, as a number below Ring.
LEMMA BehindType ==
  ASSUME projectileid \in 0 .. Ring - 1, NEW j \in 0 .. Ring - 1
  PROVE  Behind(j) \in 0 .. Ring - 1
BY PlayerAssumption DEF Behind

\* A shot into the slot "projectileid" puts every other one behind by one more.
LEMMA BehindAfterShot ==
  ASSUME projectileid \in 0 .. Ring - 1, projectileid' = NextSlot, NEW j \in 0 .. Ring - 1
  PROVE  Behind(j)' = IF j = projectileid THEN 0 ELSE Behind(j) + 1
BY PlayerAssumption DEF Behind, NextSlot

\* The invariant of the player's own program.
PlayerInv == PlayerTypeOK /\ NearBoard /\ RingOrder

LEMMA HoldFireInv ==
  ASSUME PlayerInv, pos' \in Vector, speed' \in Vector, HoldFire
  PROVE  PlayerTypeOK' /\ RingOrder'
<1>1. shots' = Flown(shots) /\ projectileid' = projectileid /\ sinceShot' = sinceShot
  BY DEF HoldFire
<1>2. ShotsIn(shots)
  BY DEF PlayerInv, PlayerTypeOK, ShotsIn
<1>3. /\ DOMAIN shots' \subseteq DOMAIN shots
      /\ ShotsIn(shots')
      /\ \A j \in DOMAIN shots' : shots'[j].age = shots[j].age
  BY <1>1, <1>2, FlownShots
<1>4. PlayerTypeOK'
  BY <1>1, <1>3 DEF PlayerInv, PlayerTypeOK, ShotsIn
<1>5. \A j : Behind(j)' = Behind(j)
  BY <1>1 DEF Behind
<1>6. RingOrder'
  BY <1>1, <1>3, <1>5 DEF PlayerInv, RingOrder
<1> QED BY <1>4, <1>6

LEMMA ShootInv ==
  ASSUME PlayerInv, pos' \in Vector, speed' \in Vector, NEW d \in Directions, Shoot(d)
  PROVE  PlayerTypeOK' /\ RingOrder'
<1> DEFINE ss == [j \in DOMAIN shots \union {projectileid} |->
                    IF j = projectileid THEN Fired(d) ELSE shots[j]]
<1>1. shots' = Flown(ss) /\ projectileid' = NextSlot /\ sinceShot' = 0 /\ sinceShot > ShootCd
  BY DEF Shoot
<1>2. Fired(d) \in Shot /\ Fired(d).age = 0
  BY FiredShot
<1>3. /\ DOMAIN ss = DOMAIN shots \union {projectileid}
      /\ ss[projectileid].age = 0
      /\ \A j \in DOMAIN shots : j # projectileid => ss[j] = shots[j]
  BY <1>2
<1>4. ShotsIn(ss)
  <2>1. \A j \in DOMAIN shots : shots[j] \in Shot
    BY DEF PlayerInv, PlayerTypeOK
  <2> QED BY <1>2, <2>1 DEF ShotsIn
<1> HIDE DEF ss
<1>5. /\ DOMAIN shots' \subseteq DOMAIN ss
      /\ ShotsIn(shots')
      /\ \A j \in DOMAIN shots' : shots'[j].age = ss[j].age
  BY <1>1, <1>4, FlownShots
<1>6. /\ projectileid \in 0 .. Ring - 1 /\ DOMAIN shots \subseteq 0 .. Ring - 1
      /\ sinceShot \in 0 .. ShootCd + 1
  BY DEF PlayerInv, PlayerTypeOK
<1>7. DOMAIN shots' \subseteq 0 .. Ring - 1
  BY <1>3, <1>5, <1>6
<1>8. projectileid' \in 0 .. Ring - 1
  BY <1>1, <1>6, PlayerAssumption DEF NextSlot
<1>9. PlayerTypeOK'
  BY <1>1, <1>5, <1>7, <1>8, PlayerAssumption DEF PlayerTypeOK, ShotsIn
<1>10. ASSUME NEW j \in DOMAIN shots'
       PROVE  shots'[j].age >= sinceShot'
  BY <1>1, <1>5 DEF ShotsIn, Shot
<1>11. ASSUME NEW i \in DOMAIN shots', NEW j \in DOMAIN shots', Behind(i)' > Behind(j)'
       PROVE  shots'[i].age = MaxAge \/ shots'[i].age - shots'[j].age > ShootCd
  <2>1. /\ Behind(i)' = IF i = projectileid THEN 0 ELSE Behind(i) + 1
        /\ Behind(j)' = IF j = projectileid THEN 0 ELSE Behind(j) + 1
    BY <1>1, <1>6, <1>7, BehindAfterShot
  <2>2. Behind(i) \in 0 .. Ring - 1 /\ Behind(j) \in 0 .. Ring - 1
    BY <1>6, <1>7, BehindType
  <2>3. i # projectileid
    BY <1>11, <2>1, <2>2
  <2>4. i \in DOMAIN shots /\ shots'[i].age = shots[i].age
    BY <1>3, <1>5, <2>3
  <2>5. shots[i].age \in Int
    BY <2>4 DEF PlayerInv, PlayerTypeOK, Shot
  <2>6. CASE j = projectileid
    <3>1. shots'[j].age = 0
      BY <1>3, <1>5, <2>6
    <3>2. shots[i].age >= sinceShot
      BY <2>4 DEF PlayerInv, RingOrder
    <3> QED BY <1>1, <1>6, <2>4, <2>5, <3>1, <3>2, PlayerAssumption
  <2>7. CASE j # projectileid
    <3>1. j \in DOMAIN shots /\ shots'[j].age = shots[j].age
      BY <1>3, <1>5, <2>7
    <3>2. Behind(i) > Behind(j)
      BY <1>11, <2>1, <2>2, <2>3, <2>7
    <3> QED BY <2>4, <3>1, <3>2 DEF PlayerInv, RingOrder
  <2> QED BY <2>6, <2>7
<1>12. RingOrder'
  BY <1>10, <1>11 DEF RingOrder
<1> QED BY <1>9, <1>12

\* A whole frame.
LEMMA MoveInv ==
  ASSUME PlayerInv, Move
  PROVE  PlayerInv'
<1>1. PICK minus, plus \in SUBSET Axis :
        Steer(minus, plus) /\ (HoldFire \/ \E d \in Directions : Shoot(d))
  BY DEF Move
<1>2. speed' \in Vector /\ pos' \in Vector /\ NearBoard'
  BY <1>1, Steered DEF PlayerInv
<1>3. CASE HoldFire
  BY <1>2, <1>3, HoldFireInv DEF PlayerInv
<1>4. CASE \E d \in Directions : Shoot(d)
  BY <1>2, <1>4, ShootInv DEF PlayerInv
<1> QED BY <1>1, <1>3, <1>4

\* Time passing.
LEMMA PlayerAgesInv ==
  ASSUME PlayerInv, PlayerAges
  PROVE  PlayerInv'
<1>1. /\ shots' = Aged(shots) /\ sinceShot' = Lower(sinceShot + 1, ShootCd + 1)
      /\ pos' = pos /\ speed' = speed /\ projectileid' = projectileid
  BY DEF PlayerAges
<1>2. ShotsIn(shots)
  BY DEF PlayerInv, PlayerTypeOK, ShotsIn
<1>3. /\ DOMAIN shots' = DOMAIN shots
      /\ ShotsIn(shots')
      /\ \A j \in DOMAIN shots : shots'[j].age = Older(shots[j].age)
  BY <1>1, <1>2, AgedShots
<1>4. sinceShot \in 0 .. ShootCd + 1
  BY DEF PlayerInv, PlayerTypeOK
<1>5. /\ sinceShot' \in 0 .. ShootCd + 1
      /\ sinceShot' <= sinceShot + 1
  BY <1>1, <1>4, PlayerAssumption DEF Lower
<1>6. PlayerTypeOK'
  BY <1>1, <1>3, <1>5 DEF PlayerInv, PlayerTypeOK, ShotsIn
<1>7. \A j \in DOMAIN shots : shots[j].age \in 0 .. MaxAge
  BY <1>2 DEF ShotsIn, Shot
<1>8. ASSUME NEW j \in DOMAIN shots
      PROVE  shots'[j].age >= sinceShot'
  <2>1. shots[j].age >= sinceShot
    BY DEF PlayerInv, RingOrder
  <2> QED BY <1>3, <1>4, <1>5, <1>7, <2>1, PlayerAssumption DEF Older, Lower
<1>9. ASSUME NEW i \in DOMAIN shots, NEW j \in DOMAIN shots, Behind(i) > Behind(j)
      PROVE  shots'[i].age = MaxAge \/ shots'[i].age - shots'[j].age > ShootCd
  <2>1. shots[i].age = MaxAge \/ shots[i].age - shots[j].age > ShootCd
    BY <1>9 DEF PlayerInv, RingOrder
  <2> QED BY <1>3, <1>7, <2>1, PlayerAssumption DEF Older, Lower
<1>10. \A j : Behind(j)' = Behind(j)
  BY <1>1 DEF Behind
<1>11. RingOrder'
  BY <1>3, <1>8, <1>9, <1>10 DEF RingOrder
<1>12. NearBoard'
  BY <1>1 DEF PlayerInv, NearBoard
<1> QED BY <1>6, <1>11, <1>12 DEF PlayerInv

\* A new or a deleted player.
LEMMA FreshPlayerInv ==
  ASSUME pos' \in Vector, \A k \in Axis : pos'[k] \in 0 .. Board, speed' = Origin,
         shots' = NoShots, projectileid' = 0, sinceShot' = ShootCd + 1
  PROVE  PlayerInv'
<1>1. speed' \in Vector /\ \A k \in Axis : speed'[k] = 0
  BY DEF Origin, Vector
<1>2. DOMAIN shots' = {}
  BY DEF NoShots
<1>3. PlayerTypeOK'
  BY <1>1, <1>2, PlayerAssumption DEF PlayerTypeOK
<1>4. NearBoard'
  BY <1>1, PlayerAssumption DEF NearBoard
<1>5. RingOrder'
  BY <1>2 DEF RingOrder
<1> QED BY <1>3, <1>4, <1>5 DEF PlayerInv

LEMMA DiscardInv ==
  ASSUME Discard
  PROVE  PlayerInv'
<1>1. pos' \in Vector /\ \A k \in Axis : pos'[k] \in 0 .. Board
  BY PlayerAssumption DEF Discard, Origin, Vector
<1> QED BY <1>1, FreshPlayerInv DEF Discard

LEMMA InitialPlayerInv ==
  ASSUME PlayerInit
  PROVE  PlayerInv
<1>1. ASSUME NEW k \in Axis
      PROVE  pos[k] \in 0 .. Board /\ speed[k] \in {0}
  <2>1. speed[k] \in {0}
    BY DEF PlayerInit
  <2>2. pos[k] \in Spawn
    BY DEF PlayerInit
  <2>3. pos[k] \in 0 .. Board
    BY <2>2, PlayerAssumption
  <2> QED BY <2>1, <2>3
<1>2. pos \in Vector /\ speed \in Vector
  <2>1. pos \in [Axis -> Spawn]
    BY DEF PlayerInit
  <2>2. speed = [k \in Axis |-> 0]
    BY DEF PlayerInit
  <2> QED BY <1>1, <2>1, <2>2 DEF Vector
<1>3. DOMAIN shots = {}
  BY DEF PlayerInit
<1>4. PlayerTypeOK
  BY <1>2, <1>3, PlayerAssumption DEF PlayerTypeOK, PlayerInit
<1>5. NearBoard
  <2>1. ASSUME NEW k \in Axis
        PROVE  /\ speed[k] \in -MaxSpeed .. MaxSpeed
               /\ pos[k] \in -MaxSpeed .. Board + MaxSpeed
    <3>1. speed[k] \in {0} /\ pos[k] \in 0 .. Board
      BY <1>1
    <3>2. {0} \subseteq -MaxSpeed .. MaxSpeed
      BY PlayerAssumption
    <3>3. 0 .. Board \subseteq -MaxSpeed .. Board + MaxSpeed
      BY PlayerAssumption
    <3> QED BY <3>1, <3>2, <3>3
  <2> QED BY <2>1 DEF NearBoard
<1>6. RingOrder
  BY <1>3 DEF RingOrder
<1> QED BY <1>4, <1>5, <1>6 DEF PlayerInv

-----------------------------------------------------------------------------
(* Updates                                                                 *)

\* The time for which the update in place n may still wait.
Waiting(n) == (UpBuffer - n) * Limit

LEMMA WaitingFacts ==
  /\ Backlog \in Nat
  /\ \A n \in 1 .. UpBuffer : Waiting(n) \in Nat
  /\ \A n \in 1 .. UpBuffer : n > 1 => Waiting(n - 1) = Waiting(n) + Limit
  /\ UpBuffer >= 1 => Backlog = Waiting(1) + Limit
<1>1. Backlog \in Nat
  BY RemoteAssumption DEF Backlog
<1>2. ASSUME NEW n \in 1 .. UpBuffer
      PROVE  Waiting(n) \in Nat
  <2>1. UpBuffer - n \in Nat
    BY RemoteAssumption
  <2> QED BY <2>1, RemoteAssumption DEF Waiting
<1>3. ASSUME NEW n \in 1 .. UpBuffer, n > 1
      PROVE  Waiting(n - 1) = Waiting(n) + Limit
  BY RemoteAssumption DEF Waiting
<1>4. UpBuffer >= 1 => Backlog = Waiting(1) + Limit
  BY RemoteAssumption DEF Waiting, Backlog
<1> QED BY <1>1, <1>2, <1>3, <1>4

Update == UNION {[S -> NetProjectile] : S \in SUBSET Slot}

TypeInv ==
  /\ PlayerTypeOK
  /\ open \in BOOLEAN
  /\ up \in Seq(Update) /\ Len(up) <= UpBuffer
  /\ copy \in Update
  /\ phase \in {"receive", "rest", "out"}
  /\ silence \in 0 .. Limit
  /\ killed \in BOOLEAN

LEMMA UpdateType ==
  ASSUME NEW u
  PROVE  u \in Update <=> DOMAIN u \subseteq Slot /\ u \in [DOMAIN u -> NetProjectile]
BY DEF Update

LEMMA NoShotsType == NoShots \in Update /\ DOMAIN NoShots = {}
BY DEF NoShots, Update

\* Time passes for an update as for the shots themselves.
LEMMA AgedUpdate ==
  ASSUME NEW u \in Update
  PROVE  /\ Aged(u) \in Update
         /\ DOMAIN Aged(u) = DOMAIN u
         /\ \A j \in DOMAIN u : u[j].age \in Nat /\ Aged(u)[j].age <= u[j].age + 1
<1>1. DOMAIN u \subseteq Slot /\ u \in [DOMAIN u -> NetProjectile]
  BY UpdateType
<1>2. ASSUME NEW j \in DOMAIN u
      PROVE  /\ [u[j] EXCEPT !.age = Older(@)] \in NetProjectile
             /\ u[j].age \in Nat
             /\ [u[j] EXCEPT !.age = Older(@)].age <= u[j].age + 1
  <2>1. u[j] \in NetProjectile
    BY <1>1
  <2>2. u[j].age \in 0 .. MaxAge
    BY <2>1 DEF NetProjectile
  <2>3. Older(u[j].age) \in 0 .. MaxAge /\ Older(u[j].age) <= u[j].age + 1
    BY <2>2, PlayerAssumption DEF Older, Lower
  <2> QED BY <2>1, <2>2, <2>3 DEF NetProjectile
<1>3. DOMAIN Aged(u) = DOMAIN u
  BY DEF Aged
<1>4. \A j \in DOMAIN u : Aged(u)[j] = [u[j] EXCEPT !.age = Older(@)]
  BY DEF Aged
<1>5. Aged(u) \in [DOMAIN u -> NetProjectile]
  BY <1>2 DEF Aged
<1>6. Aged(u) \in Update
  BY <1>1, <1>3, <1>5, UpdateType
<1> QED BY <1>2, <1>3, <1>4, <1>6

\* What a frame sends: none of it is older than HalfLife.
LEMMA Serialized ==
  ASSUME PlayerInv, Move
  PROVE  /\ Serialize \in Update
         /\ \A j \in DOMAIN Serialize : Serialize[j].age <= HalfLife
<1>1. PlayerTypeOK'
  BY MoveInv DEF PlayerInv
<1>2. \A j \in DOMAIN shots' : shots'[j].age <= HalfLife
  <2>1. PICK minus, plus \in SUBSET Axis :
          Steer(minus, plus) /\ (HoldFire \/ \E d \in Directions : Shoot(d))
    BY DEF Move
  <2>2. CASE HoldFire
    <3>1. ShotsIn(shots) /\ shots' = Flown(shots)
      BY <2>2 DEF PlayerInv, PlayerTypeOK, ShotsIn, HoldFire
    <3> QED BY <3>1, FlownShots
  <2>3. ASSUME NEW d \in Directions, Shoot(d)
        PROVE  \A j \in DOMAIN shots' : shots'[j].age <= HalfLife
    <3> DEFINE ss == [j \in DOMAIN shots \union {projectileid} |->
                        IF j = projectileid THEN Fired(d) ELSE shots[j]]
    <3>1. shots' = Flown(ss)
      BY <2>3 DEF Shoot
    <3>2. speed' \in Vector /\ pos' \in Vector
      BY <2>1, Steered DEF PlayerInv
    <3>3. Fired(d) \in Shot
      BY <3>2, FiredShot
    <3>4. \A j \in DOMAIN shots : shots[j] \in Shot
      BY DEF PlayerInv, PlayerTypeOK
    <3>5. ShotsIn(ss)
      BY <3>3, <3>4 DEF ShotsIn
    <3> HIDE DEF ss
    <3> QED BY <3>1, <3>5, FlownShots
  <2> QED BY <2>1, <2>2, <2>3
<1>3. DOMAIN Serialize = DOMAIN shots'
  BY DEF Serialize
<1>4. \A j \in DOMAIN shots' : Serialize[j].age = shots'[j].age
  BY DEF Serialize
<1>5. Serialize \in [DOMAIN shots' -> NetProjectile]
  BY <1>1 DEF Serialize, PlayerTypeOK, Shot, NetProjectile
<1>6. DOMAIN shots' \subseteq Slot
  BY <1>1, PlayerAssumption DEF PlayerTypeOK, Slot
<1>7. Serialize \in Update
  BY <1>3, <1>5, <1>6, UpdateType
<1> QED BY <1>2, <1>3, <1>4, <1>7

-----------------------------------------------------------------------------
(* The inductive invariant                                                 *)

\* An update that waits in place n can wait for the places before it, Limit rounds
\* each; how long the foremost has been waiting already, "silence" tells.
OnTheWay ==
  \A n \in 1 .. Len(up) : \A j \in DOMAIN up[n] :
    up[n][j].age <= HalfLife + Waiting(n) + silence

InTheCopy == \A j \in DOMAIN copy : copy[j].age <= HalfLife + Backlog + silence

RemoteInv ==
  /\ TypeInv /\ NearBoard /\ RingOrder
  /\ OnTheWay /\ InTheCopy
  /\ phase = "receive" => silence < Limit

LEMMA RemoteInvTypes ==
  ASSUME RemoteInv
  PROVE  /\ PlayerInv
         /\ up \in Seq(Update) /\ Len(up) \in 0 .. UpBuffer
         /\ \A n \in 1 .. Len(up) : up[n] \in Update
         /\ copy \in Update
         /\ silence \in 0 .. Limit
BY RemoteAssumption DEF RemoteInv, TypeInv, PlayerInv

LEMMA InitInv == Init => RemoteInv
<1> SUFFICES ASSUME Init PROVE RemoteInv
  OBVIOUS
<1>1. PlayerInv
  BY InitialPlayerInv DEF Init
<1>2. up = <<>> /\ copy = NoShots /\ silence = 0
  BY DEF Init
<1>3. TypeInv
  <2>1. up \in Seq(Update) /\ Len(up) <= UpBuffer
    BY <1>2, RemoteAssumption
  <2>2. copy \in Update
    BY <1>2, NoShotsType
  <2>3. silence \in 0 .. Limit
    BY <1>2, RemoteAssumption
  <2>4. /\ open \in BOOLEAN /\ killed \in BOOLEAN
        /\ phase \in {"receive", "rest", "out"}
    BY DEF Init
  <2> QED BY <1>1, <2>1, <2>2, <2>3, <2>4 DEF TypeInv, PlayerInv
<1>4. OnTheWay /\ InTheCopy
  BY <1>2, NoShotsType DEF OnTheWay, InTheCopy
<1> QED BY <1>1, <1>2, <1>3, <1>4, RemoteAssumption DEF RemoteInv, PlayerInv

\* A frame appends an update that may wait for as long as its place says.
LEMMA FrameInv ==
  ASSUME RemoteInv, Frame
  PROVE  RemoteInv'
<1>1. /\ PlayerInv /\ up \in Seq(Update) /\ Len(up) \in 0 .. UpBuffer
      /\ \A n \in 1 .. Len(up) : up[n] \in Update
      /\ silence \in 0 .. Limit
  BY RemoteInvTypes
<1>2. PlayerInv'
  BY <1>1, MoveInv DEF Frame
<1>3. /\ Serialize \in Update
      /\ \A j \in DOMAIN Serialize : Serialize[j].age \in Nat /\ Serialize[j].age <= HalfLife
  <2>1. /\ Serialize \in Update
        /\ \A j \in DOMAIN Serialize : Serialize[j].age <= HalfLife
    BY <1>1, Serialized DEF Frame
  <2> QED BY <2>1, AgedUpdate
<1>4. /\ up' = IF Len(up) < UpBuffer THEN Append(up, Serialize) ELSE up
      /\ open' = open /\ copy' = copy /\ phase' = phase /\ silence' = silence
      /\ killed' = killed
  BY DEF Frame
<1> HIDE DEF Serialize
<1>5. up' \in Seq(Update) /\ Len(up') <= UpBuffer
  BY <1>1, <1>3, <1>4, RemoteAssumption
<1>6. TypeInv'
  BY <1>2, <1>4, <1>5 DEF RemoteInv, TypeInv, PlayerInv
<1>7. InTheCopy'
  BY <1>4 DEF RemoteInv, InTheCopy
<1>8. OnTheWay'
  <2>1. CASE Len(up) < UpBuffer
    <3>1. ASSUME NEW n \in 1 .. Len(up'), NEW j \in DOMAIN up'[n]
          PROVE  up'[n][j].age <= HalfLife + Waiting(n) + silence
      <4>1. CASE n <= Len(up)
        <5>1. n \in 1 .. Len(up) /\ up'[n] = up[n]
          BY <1>1, <1>3, <1>4, <2>1, <4>1
        <5> QED BY <3>1, <5>1 DEF RemoteInv, OnTheWay
      <4>2. CASE n > Len(up)
        <5>1. up'[n] = Serialize /\ n \in 1 .. UpBuffer
          BY <1>1, <1>3, <1>4, <1>5, <2>1, <4>2, RemoteAssumption
        <5>2. up'[n][j].age \in Nat /\ up'[n][j].age <= HalfLife
          BY <1>3, <3>1, <5>1
        <5>3. Waiting(n) \in Nat
          BY <5>1, WaitingFacts
        <5> QED BY <1>1, <5>2, <5>3, PlayerAssumption, RemoteAssumption
      <4>3. n \in Int /\ Len(up) \in Int
        BY <1>1, <3>1
      <4> QED BY <4>1, <4>2, <4>3
    <3> QED BY <1>4, <3>1 DEF OnTheWay, Waiting
  <2>2. CASE ~ (Len(up) < UpBuffer)
    BY <1>4, <2>2 DEF RemoteInv, OnTheWay, Waiting
  <2> QED BY <2>1, <2>2
<1> QED BY <1>2, <1>4, <1>6, <1>7, <1>8 DEF RemoteInv, PlayerInv

LEMMA LeaveInv ==
  ASSUME RemoteInv, Leave
  PROVE  RemoteInv'
<1>1. PlayerInv'
  BY DiscardInv DEF Leave
<1>2. /\ up' = up /\ copy' = copy /\ phase' = phase /\ silence' = silence
      /\ killed' = killed /\ open' = FALSE
  BY DEF Leave, Discard
<1>3. TypeInv'
  BY <1>1, <1>2 DEF RemoteInv, TypeInv, PlayerInv
<1>4. OnTheWay' /\ InTheCopy'
  BY <1>2 DEF RemoteInv, OnTheWay, InTheCopy, Waiting
<1> QED BY <1>1, <1>2, <1>3, <1>4 DEF RemoteInv, PlayerInv

\* A round in which no update is read.
LEMMA AgedQueue ==
  ASSUME RemoteInv, silence' = silence + 1,
         up' = [n \in DOMAIN up |-> Aged(up[n])]
  PROVE  up' \in Seq(Update) /\ Len(up') <= UpBuffer /\ OnTheWay'
<1>1. /\ up \in Seq(Update) /\ Len(up) \in 0 .. UpBuffer
      /\ \A n \in 1 .. Len(up) : up[n] \in Update
      /\ silence \in 0 .. Limit
  BY RemoteInvTypes
<1>2. /\ up' \in Seq(Update) /\ Len(up') = Len(up)
      /\ \A n \in 1 .. Len(up) : up'[n] = Aged(up[n])
  BY <1>1, AgedUpdate
<1>3. ASSUME NEW n \in 1 .. Len(up), NEW j \in DOMAIN up'[n]
      PROVE  up'[n][j].age <= HalfLife + Waiting(n) + silence'
  <2>1. j \in DOMAIN up[n] /\ up[n][j].age \in Nat /\ up'[n][j].age <= up[n][j].age + 1
    BY <1>1, <1>2, <1>3, AgedUpdate
  <2>2. up'[n][j].age \in Nat
    <3>1. up'[n] \in Update
      BY <1>2
    <3> QED BY <3>1, <1>3, AgedUpdate
  <2>3. up[n][j].age <= HalfLife + Waiting(n) + silence
    BY <2>1 DEF RemoteInv, OnTheWay
  <2>4. Waiting(n) \in Nat
    <3>1. n \in 1 .. UpBuffer
      BY <1>1, RemoteAssumption
    <3> QED BY <3>1, WaitingFacts
  <2> QED BY <1>1, <2>1, <2>2, <2>3, <2>4, PlayerAssumption, RemoteAssumption
<1>4. \A n \in 1 .. Len(up') : \A j \in DOMAIN up'[n] :
        up'[n][j].age <= HalfLife + Waiting(n) + silence'
  BY <1>2, <1>3
<1>5. OnTheWay'
  BY <1>4 DEF OnTheWay, Waiting
<1>6. Len(up') <= UpBuffer
  BY <1>1, <1>2, RemoteAssumption
<1> QED BY <1>2, <1>5, <1>6

LEMMA AgedCopy ==
  ASSUME RemoteInv, silence' = silence + 1, copy' = Aged(copy)
  PROVE  copy' \in Update /\ InTheCopy'
<1>1. copy \in Update /\ silence \in 0 .. Limit
  BY RemoteInvTypes
<1>2. /\ copy' \in Update /\ DOMAIN copy' = DOMAIN copy
      /\ \A j \in DOMAIN copy : copy[j].age \in Nat /\ copy'[j].age <= copy[j].age + 1
  BY <1>1, AgedUpdate
<1>3. ASSUME NEW j \in DOMAIN copy
      PROVE  copy'[j].age <= HalfLife + Backlog + silence'
  <2>1. copy[j].age <= HalfLife + Backlog + silence
    BY DEF RemoteInv, InTheCopy
  <2>2. copy'[j].age \in Nat
    BY <1>2, AgedUpdate
  <2> QED BY <1>1, <1>2, <2>1, <2>2, WaitingFacts, PlayerAssumption, RemoteAssumption
<1> QED BY <1>2, <1>3 DEF InTheCopy, Backlog

\* The foremost update becomes the copy, and every other one moves up by a place.
LEMMA ReadUpdateInv ==
  ASSUME RemoteInv, silence < Limit, ReadUpdate
  PROVE  /\ up' \in Seq(Update) /\ Len(up') <= UpBuffer /\ OnTheWay'
         /\ copy' \in Update /\ InTheCopy'
<1>1. /\ up \in Seq(Update) /\ Len(up) \in 0 .. UpBuffer
      /\ \A n \in 1 .. Len(up) : up[n] \in Update
      /\ silence \in 0 .. Limit
  BY RemoteInvTypes
<1>2. /\ up # <<>> /\ copy' = Aged(up[1]) /\ silence' = 0
      /\ up' = [n \in 1 .. Len(up) - 1 |-> Aged(up[n + 1])]
  BY DEF ReadUpdate
<1>3. Len(up) \in 1 .. UpBuffer
  BY <1>1, <1>2, RemoteAssumption
<1>4. ASSUME NEW n \in 1 .. Len(up), NEW j \in DOMAIN Aged(up[n])
      PROVE  /\ Aged(up[n])[j].age \in Nat
             /\ Aged(up[n])[j].age <= HalfLife + Waiting(n) + Limit
  <2>1. up[n] \in Update
    BY <1>1
  <2>2. j \in DOMAIN up[n] /\ up[n][j].age \in Nat /\ Aged(up[n])[j].age <= up[n][j].age + 1
    BY <2>1, <1>4, AgedUpdate
  <2>3. Aged(up[n])[j].age \in Nat
    BY <2>1, <1>4, AgedUpdate
  <2>4. up[n][j].age <= HalfLife + Waiting(n) + silence
    BY <2>2 DEF RemoteInv, OnTheWay
  <2>5. Waiting(n) \in Nat
    <3>1. n \in 1 .. UpBuffer
      BY <1>1, RemoteAssumption
    <3> QED BY <3>1, WaitingFacts
  <2> QED BY <1>1, <2>2, <2>3, <2>4, <2>5, PlayerAssumption, RemoteAssumption
<1>5. copy' \in Update
  BY <1>1, <1>2, <1>3, AgedUpdate
<1>6. ASSUME NEW j \in DOMAIN copy'
      PROVE  copy'[j].age <= HalfLife + Backlog + silence'
  <2>1. /\ copy'[j].age \in Nat
        /\ copy'[j].age <= HalfLife + Waiting(1) + Limit
    <3>1. 1 \in 1 .. Len(up) /\ copy' = Aged(up[1])
      BY <1>2, <1>3, RemoteAssumption
    <3>2. j \in DOMAIN Aged(up[1])
      BY <1>6, <3>1
    <3> QED BY <1>4, <3>1, <3>2
  <2>2. 1 \in 1 .. UpBuffer
    BY <1>3, RemoteAssumption
  <2>3. Waiting(1) \in Nat /\ Backlog = Waiting(1) + Limit
    BY <1>3, <2>2, WaitingFacts
  <2> QED BY <1>2, <2>1, <2>3, PlayerAssumption, RemoteAssumption
<1>7. InTheCopy'
  BY <1>6 DEF InTheCopy, Backlog
<1>8. /\ Len(up') = Len(up) - 1
      /\ \A n \in 1 .. Len(up) - 1 : up'[n] = Aged(up[n + 1])
  BY <1>2, <1>3
<1>9. up' \in Seq(Update)
  <2>1. \A n \in 1 .. Len(up) - 1 : Aged(up[n + 1]) \in Update
    BY <1>1, <1>3, AgedUpdate
  <2> QED BY <1>2, <1>3, <2>1
<1>10. ASSUME NEW n \in 1 .. Len(up) - 1, NEW j \in DOMAIN up'[n]
       PROVE  up'[n][j].age <= HalfLife + Waiting(n) + silence'
  <2>1. n + 1 \in 1 .. Len(up) /\ n + 1 \in 1 .. UpBuffer /\ n + 1 > 1
    BY <1>3, RemoteAssumption
  <2>2. up'[n] = Aged(up[n + 1])
    BY <1>8
  <2>3. /\ up'[n][j].age \in Nat
        /\ up'[n][j].age <= HalfLife + Waiting(n + 1) + Limit
    BY <1>4, <1>10, <2>1, <2>2
  <2>4. Waiting((n + 1) - 1) = Waiting(n + 1) + Limit /\ Waiting(n + 1) \in Nat
    BY <2>1, WaitingFacts
  <2>5. (n + 1) - 1 = n
    OBVIOUS
  <2> QED BY <1>2, <2>3, <2>4, <2>5, PlayerAssumption, RemoteAssumption
<1>11. OnTheWay'
  BY <1>8, <1>10 DEF OnTheWay, Waiting
<1>12. Len(up') <= UpBuffer
  BY <1>3, <1>8, RemoteAssumption
<1> QED BY <1>5, <1>7, <1>9, <1>11, <1>12

LEMMA ReadLeftoverInv ==
  ASSUME RemoteInv, ReadLeftover
  PROVE  /\ up' \in Seq(Update) /\ Len(up') <= UpBuffer /\ OnTheWay'
         /\ copy' \in Update /\ InTheCopy'
<1>1. up = <<>> /\ up' = <<>> /\ copy' = NoShots
  BY DEF ReadLeftover
<1>2. up' \in Seq(Update) /\ Len(up') <= UpBuffer
  BY <1>1, RemoteAssumption
<1>3. OnTheWay'
  BY <1>1 DEF OnTheWay
<1>4. copy' \in Update /\ InTheCopy'
  BY <1>1, NoShotsType DEF InTheCopy
<1> QED BY <1>2, <1>3, <1>4

LEMMA ReceiveInv ==
  ASSUME RemoteInv, Receive
  PROVE  RemoteInv'
<1>1. /\ phase = "receive" /\ phase' = "rest" /\ open' = open
      /\ PlayerAges /\ (ReadUpdate \/ NoUpdate \/ HangUp \/ ReadLeftover)
  BY DEF Receive
<1>2. silence < Limit /\ silence \in 0 .. Limit
  BY <1>1, RemoteInvTypes DEF RemoteInv
<1>3. PlayerInv'
  BY <1>1, PlayerAgesInv, RemoteInvTypes
<1>4. /\ up' \in Seq(Update) /\ Len(up') <= UpBuffer /\ OnTheWay'
      /\ copy' \in Update /\ InTheCopy'
      /\ silence' \in 0 .. Limit /\ killed' \in BOOLEAN
  <2>1. CASE ReadUpdate
    <3>1. silence' = 0 /\ killed' = killed
      BY <2>1 DEF ReadUpdate
    <3> QED BY <1>2, <2>1, <3>1, ReadUpdateInv, RemoteAssumption DEF RemoteInv, TypeInv
  <2>2. CASE NoUpdate \/ HangUp
    <3>1. /\ up' = [n \in DOMAIN up |-> Aged(up[n])]
          /\ copy' = Aged(copy)
          /\ silence' = silence + 1
          /\ killed' = killed \/ killed' = TRUE
      BY <2>2 DEF NoUpdate, HangUp
    <3>2. silence' \in 0 .. Limit
      BY <1>2, <3>1, RemoteAssumption
    <3>3. killed' \in BOOLEAN
      BY <3>1 DEF RemoteInv, TypeInv
    <3> QED BY <3>1, <3>2, <3>3, AgedQueue, AgedCopy
  <2>3. CASE ReadLeftover
    <3>1. silence' = 0 /\ killed' = killed
      BY <2>3 DEF ReadLeftover
    <3> QED BY <2>3, <3>1, ReadLeftoverInv, RemoteAssumption DEF RemoteInv, TypeInv
  <2> QED BY <1>1, <2>1, <2>2, <2>3
<1>5. TypeInv'
  BY <1>1, <1>3, <1>4 DEF RemoteInv, TypeInv, PlayerInv
<1> QED BY <1>1, <1>3, <1>4, <1>5 DEF RemoteInv, PlayerInv

LEMMA RestInv ==
  ASSUME RemoteInv, Rest
  PROVE  RemoteInv'
<1>1. /\ ~ TooLong /\ phase' = "receive" /\ open' = open /\ up' = up /\ copy' = copy
      /\ silence' = silence /\ killed' = killed /\ UNCHANGED playerVars
  BY DEF Rest
<1>2. PlayerInv'
  BY <1>1 DEF RemoteInv, TypeInv, PlayerTypeOK, NearBoard, RingOrder, Behind, PlayerInv,
              playerVars
<1>3. silence < Limit
  BY <1>1, RemoteInvTypes, RemoteAssumption DEF TooLong
<1>4. TypeInv'
  BY <1>1, <1>2 DEF RemoteInv, TypeInv, PlayerInv
<1>5. OnTheWay' /\ InTheCopy'
  BY <1>1 DEF RemoteInv, OnTheWay, InTheCopy, Waiting
<1> QED BY <1>1, <1>2, <1>3, <1>4, <1>5 DEF RemoteInv, PlayerInv

LEMMA RemoveInv ==
  ASSUME RemoteInv, Remove
  PROVE  RemoteInv'
<1>1. /\ phase' = "out" /\ up' = <<>> /\ copy' = NoShots /\ silence' = 0
      /\ killed' = FALSE /\ open' = FALSE /\ Discard
  BY DEF Remove, Discard
<1>2. PlayerInv'
  BY <1>1, DiscardInv
<1>3. up' \in Seq(Update) /\ Len(up') <= UpBuffer /\ silence' \in 0 .. Limit
  BY <1>1, RemoteAssumption
<1>4. TypeInv'
  BY <1>1, <1>2, <1>3, NoShotsType DEF TypeInv, PlayerInv
<1>5. OnTheWay' /\ InTheCopy'
  BY <1>1, NoShotsType DEF OnTheWay, InTheCopy
<1> QED BY <1>1, <1>2, <1>4, <1>5 DEF RemoteInv, PlayerInv

\* The invariant of the player, of its updates on their way and of the copy, for
\* every board, ring and buffer.
THEOREM RemoteInvariance == Spec => []RemoteInv
<1>1. RemoteInv /\ [Next]_vars => RemoteInv'
  <2> SUFFICES ASSUME RemoteInv, [Next]_vars PROVE RemoteInv'
    OBVIOUS
  <2>1. CASE Frame BY <2>1, FrameInv
  <2>2. CASE Leave BY <2>2, LeaveInv
  <2>3. CASE Receive BY <2>3, ReceiveInv
  <2>4. CASE Rest BY <2>4, RestInv
  <2>5. CASE Remove BY <2>5, RemoveInv
  <2>6. CASE UNCHANGED vars
    <3>1. /\ pos' = pos /\ speed' = speed /\ shots' = shots /\ projectileid' = projectileid
          /\ sinceShot' = sinceShot /\ open' = open /\ up' = up /\ copy' = copy
          /\ phase' = phase /\ silence' = silence /\ killed' = killed
      BY <2>6 DEF vars, playerVars, remoteVars
    <3>2. TypeInv' /\ NearBoard' /\ RingOrder'
      BY <3>1 DEF RemoteInv, TypeInv, PlayerTypeOK, NearBoard, RingOrder, Behind
    <3>3. OnTheWay' /\ InTheCopy'
      BY <3>1 DEF RemoteInv, OnTheWay, InTheCopy, Waiting
    <3> QED BY <3>1, <3>2, <3>3 DEF RemoteInv
  <2> QED BY <2>1, <2>2, <2>3, <2>4, <2>5, <2>6 DEF Next
<1> QED BY <1>1, InitInv, PTL DEF Spec

\* Types, among them that the last slot of the array is never used.
THEOREM RemoteTypes == Spec => []TypeOK
<1>1. RemoteInv => TypeOK
  <2> SUFFICES ASSUME RemoteInv PROVE TypeOK
    OBVIOUS
  <2>1. up \in Seq(Update) /\ copy \in Update
    BY DEF RemoteInv, TypeInv
  <2>2. \A u \in Range(up) : u \in Update
    BY <2>1 DEF Range
  <2>3. \A u \in Range(up) \union {copy} : IsUpdate(u)
    BY <2>1, <2>2, UpdateType DEF IsUpdate
  <2>4. up \in Seq(Range(up))
    <3>1. Len(up) \in Nat /\ up \in [1 .. Len(up) -> Range(up)]
      BY <2>1 DEF Range
    <3> QED BY <3>1
  <2> QED BY <2>3, <2>4 DEF RemoteInv, TypeInv, TypeOK
<1> QED BY <1>1, RemoteInvariance, PTL

\* A player is never more than one step of full speed outside the board.
THEOREM StaysNearBoard == Spec => []NearBoard
<1>1. RemoteInv => NearBoard
  BY DEF RemoteInv
<1> QED BY <1>1, RemoteInvariance, PTL

\* The array of shots is a ring in the order of firing, with every two shots more
\* than the cooldown apart.
THEOREM ShotsInOrder == Spec => []RingOrder
<1>1. RemoteInv => RingOrder
  BY DEF RemoteInv
<1> QED BY <1>1, RemoteInvariance, PTL

\* A shot that the server takes for a hit was fired no longer ago than its life, the
\* backlog of updates and the player's silence allow.
THEOREM RecentShots == Spec => []OnlyRecentShotsCount
<1>1. RemoteInv => OnlyRecentShotsCount
  BY DEF RemoteInv, InTheCopy, OnlyRecentShotsCount
<1> QED BY <1>1, RemoteInvariance, PTL
=============================================================================
