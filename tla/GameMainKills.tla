--------------------------- MODULE GameMainKills ---------------------------
(***************************************************************************)
(* For every set of players: what becomes of the entries of "invalid",     *)
(* whatever the race on that vector does to them.  No player has two       *)
(* entries, everybody left in the match is told of exactly the players     *)
(* that are not, and no latch is deleted while a thread still waits in it. *)
(* Then, with the counters bounded from both sides: each latch waits for   *)
(* exactly the threads that are still to come, and somebody can always     *)
(* take a step, as long as no entry was lost.                              *)
(***************************************************************************)
EXTENDS GameMainProofs

\* A thread appends once, so its name is in the storage of "invalid" once, even
\* if the storage beyond "count" still holds names from earlier rounds.
OnceNamed ==
  /\ \A p \in Players : ~ killed[p] => \A i \in Slot : slots[i] # p
  /\ \A i, j \in Slot : slots[i] = slots[j] /\ slots[i] \in Players => i = j

\* Names of clients are stored no further than there are killed clients.
NearStart ==
  Current # 1 => \A i \in Slot :
    slots[i] \in clients => i <= Cardinality(KilledClients)

Owed == Cardinality(NotArrived(1)) + MainOwes + ReapOwes

\* A client whose name is stored behind the last entry, where nobody sees it.
StaleName == \E i \in Slot : i > count /\ slots[i] \in clients

\* Then an entry is missing, and with it a count-down: the round never begins.
StaleStops == Current = 1 /\ StaleName => latch[1] >= Owed + 1

\* So once the round has begun, no name of a thread that is out is stored.
NoneStale == Current = 2 => \A i \in Slot : slots[i] \in clients => ~ Out(slots[i])

CountReset == Current = 1 /\ mainPhase # 4 => count = 0

StoredInv ==
  mainStep # "over" => NearStart /\ StaleStops /\ NoneStale /\ CountReset

ReapedInv ==
  /\ count <= Cardinality(Players)
  /\ mainStep = "reap" => \A i \in 1 .. reaped : slots[i] \notin clients

Entries == {slots[i] : i \in 1 .. count} \ {NoPlayer}

ToldInv ==
  \A c \in clients :
    told[c] \ {NoPlayer} =
      IF mainStep = "reap" THEN (Players \ clients) \union Entries
      ELSE Players \ clients

KillInv == OnceNamed /\ StoredInv /\ ReapedInv /\ ToldInv

-----------------------------------------------------------------------------
(* Steps that leave "invalid" and the clients alone.                       *)

LEMMA OwedType ==
  ASSUME IInv
  PROVE  /\ Owed \in Int /\ Cardinality(NotArrived(1)) \in Nat
         /\ IsFiniteSet(NotArrived(1)) /\ MainOwes \in {0, 1}
         /\ latch[1] \in Int
BY Counting DEF IInv, TypeOK, Owed, MainOwes, ReapOwes, Phase

\* The names and what was told do not depend on the threads and the latches.
LEMMA NamesKept ==
  ASSUME KillInv, UNCHANGED <<slots, count, clients, killed, told, reaped>>,
         mainStep' = "reap" <=> mainStep = "reap"
  PROVE  OnceNamed' /\ ReapedInv' /\ ToldInv'
BY DEF KillInv, OnceNamed, ReapedInv, ToldInv, Entries

\* The latch being filled stays the same one, and what is owed to it does not
\* grow faster than its counter.
LEMMA SameLatch ==
  ASSUME IInv, KillInv, Current' = Current, mainStep # "over",
         UNCHANGED <<slots, count, clients, killed>>,
         Current = 1 => /\ mainPhase' = mainPhase
                        /\ latch[1] >= Owed + 1 => latch'[1] >= Owed' + 1,
         Current = 2 => \A q \in Players : Out(q)' => Out(q)
  PROVE  StoredInv'
<1> USE DEF KillInv, StoredInv
<1>1. KilledClients' = KilledClients
  BY DEF KilledClients
<1>2. NearStart'
  BY <1>1 DEF NearStart
<1>3. StaleStops' /\ CountReset'
  BY DEF StaleStops, StaleName, CountReset
<1>4. NoneStale'
  BY DEF NoneStale, Out, IInv, TypeOK
<1>5. QED BY <1>2, <1>3, <1>4

\* The latch of the main thread is released.  Were it recvlatch, with a name behind
\* the last entry, it would not be; and were it cleanlatch, the next recvlatch is
\* sized for everybody, and every missing entry leaves it one too large.
LEMMA NextLatch ==
  ASSUME IInv, IInv', KillInv,
         ~ Released, mainStep \in {"arrive", "wait"}, Released', mainStep' = "wait",
         UNCHANGED <<mainPhase, reaped, slots, count, clients, killed>>,
         latch' = [latch EXCEPT ![mainPhase] = 0],
         NotArrived(mainPhase)' = {},
         mainPhase = 1 => ~ StaleName
  PROVE  StoredInv'
<1> USE DEF KillInv, StoredInv
<1>1. /\ mainPhase \in Phase /\ Current = mainPhase /\ mainStep # "over"
      /\ Current' = Following(mainPhase)
  BY DEF IInv, TypeOK, Current
<1>2. KilledClients' = KilledClients
  BY DEF KilledClients
<1>3. CASE mainPhase = 1
  <2>1. Current' = 2 /\ count = 0
    BY <1>1, <1>3 DEF Following, CountReset
  <2>2. \A i \in Slot : slots[i] \notin clients
    BY <1>3, <2>1 DEF StaleName, Slot
  <2>3. QED BY <2>1, <2>2 DEF NearStart, StaleStops, NoneStale, CountReset
<1>4. CASE mainPhase \in {2, 3}
  BY <1>1, <1>2, <1>4 DEF NearStart, StaleStops, NoneStale, CountReset, Following
<1>5. CASE mainPhase = 4
  <2>1. Current' = 1
    BY <1>1, <1>5 DEF Following
  <2>2. NearStart' /\ NoneStale' /\ CountReset'
    BY <1>5, <2>1 DEF NearStart, NoneStale, CountReset
  <2>3. ASSUME StaleName' PROVE latch'[1] >= Owed' + 1
    <3>1. PICK i \in Slot : i > count /\ slots[i] \in clients
      BY <2>3 DEF StaleName
    <3>2. i <= Cardinality(KilledClients)
      BY <1>1, <1>5, <3>1 DEF NearStart
    <3>3. Members' \subseteq clients /\ KilledClients' \subseteq clients
      BY DEF Members, KilledClients, IInv, ThreadInv, Out
    <3>4. Members' \cap KilledClients' = {}
      <4> SUFFICES ASSUME NEW q \in Members', killed'[q] PROVE FALSE
        BY DEF KilledClients
      <4>1. q \notin NotArrived(4)'
        BY <1>5
      <4>2. phase'[q] = 4 /\ step'[q] = "wait"
        BY <4>1 DEF NotArrived
      <4>3. QED BY <4>2 DEF Members, Out
    <3>5. /\ IsFiniteSet(clients) /\ Cardinality(clients) \in Nat
          /\ Cardinality(KilledClients') \in Nat /\ Cardinality(Members') \in Nat
          /\ Cardinality(NotArrived(1)') \in Nat
          /\ Cardinality(NotArrived(1)') <= Cardinality(Members')
      <4>1. IsFiniteSet(clients)
        BY Counting DEF IInv
      <4>2. IsFiniteSet(KilledClients') /\ IsFiniteSet(Members')
        BY <3>3, <4>1, FS_Subset
      <4>3. NotArrived(1)' \subseteq Members'
        BY DEF NotArrived
      <4>4. QED BY <4>1, <4>2, <4>3, FS_Subset, FS_CardinalityType
    <3>6. Cardinality(Members') + Cardinality(KilledClients') <= Cardinality(clients)
      BY <3>3, <3>4, <3>5, DisjointParts
    <3>7. latch[1] >= Cardinality(clients) + 1 /\ latch'[1] = latch[1] /\ latch[1] \in Int
      BY <1>5 DEF IInv, TypeOK, FreshInv, Phase
    <3>8. MainOwes' = 1 /\ ReapOwes' = count
      <4>1. reaped = 0 /\ count \in Nat
        BY DEF IInv, MainInv, TypeOK
      <4>2. QED BY <1>5, <4>1 DEF MainOwes, ReapOwes
    <3>9. count \in Int /\ i \in Int
      BY DEF IInv, TypeOK, Slot
    <3>10. Cardinality(KilledClients) = Cardinality(KilledClients')
      BY <1>2
    <3>11. QED BY <3>1, <3>2, <3>5, <3>6, <3>7, <3>8, <3>9, <3>10 DEF Owed
  <2>4. QED BY <2>2, <2>3 DEF StaleStops
<1>6. QED BY <1>1, <1>3, <1>4, <1>5 DEF Phase

\* What a thread does outside of EmplaceBack and of the latches.
LEMMA QuietKill ==
  ASSUME IInv, IInv', KillInv, NEW p \in Players, mainStep # "over",
         UNCHANGED <<latch, mainPhase, mainStep, reaped, slots, count, clients,
                     killed, told>>,
         \A q \in Players \ {p} : phase'[q] = phase[q] /\ step'[q] = step[q],
         phase[p] # Current \/ step[p] # "wait",
         Out(p)' <=> Out(p)
  PROVE  KillInv'
<1>1. Released' = Released /\ Current' = Current /\ MainOwes' = MainOwes
      /\ ReapOwes' = ReapOwes
  BY DEF Released, Current, MainOwes, ReapOwes
<1>2. ASSUME NEW q \in Players PROVE Out(q)' <=> Out(q)
  <2>1. CASE q = p
    BY <2>1
  <2>2. CASE q # p
    BY <2>2 DEF Out
  <2>3. QED BY <2>1, <2>2
<1>3. Members' \subseteq Members
  BY <1>2 DEF Members
<1>4. NotArrived(Current)' \subseteq NotArrived(Current)
  BY <1>1, <1>3, StillOwed
<1>5. ASSUME Current = 1, latch[1] >= Owed + 1 PROVE latch'[1] >= Owed' + 1
  <2>1. NotArrived(1)' \subseteq NotArrived(1)
    BY <1>1, <1>4, <1>5
  <2>2. Cardinality(NotArrived(1)') <= Cardinality(NotArrived(1))
        /\ Cardinality(NotArrived(1)') \in Nat
    BY <2>1, OwedType, FS_Subset, FS_CardinalityType
  <2>3. ReapOwes \in Int
    BY DEF IInv, TypeOK, ReapOwes
  <2>4. QED BY <1>1, <1>5, <2>2, <2>3, OwedType DEF Owed
<1>6. StoredInv'
  BY <1>1, <1>2, <1>5, SameLatch
<1>7. QED BY <1>6, NamesKept DEF KillInv

LEMMA ThreadKill ==
  ASSUME IInv, IInv', KillInv, NEW p \in Players,
         \/ ClientPass(p) \/ ClientLoop(p) \/ Spawn(p)
         \/ PhaseGetPlayerUpdate(p) \/ PhaseValidatePlayer(p) \/ PhaseSendPlayerUpdate(p)
  PROVE  KillInv'
<1> USE DEF Done, Kill, vectorVars, mainVars
<1>1. CASE ClientPass(p) \/ ClientLoop(p)
  <2>1. mainStep # "over" /\ phase[p] # Current
    BY <1>1, PassedIsPreceding DEF ClientPass, ClientLoop
  <2>2. Out(p)' <=> Out(p)
    BY <1>1 DEF ClientPass, ClientLoop, Out, IInv, TypeOK
  <2>3. \A q \in Players \ {p} : phase'[q] = phase[q] /\ step'[q] = step[q]
    BY <1>1 DEF ClientPass, ClientLoop, IInv, TypeOK
  <2>4. UNCHANGED <<latch, mainPhase, mainStep, reaped, slots, count, clients, killed,
                    told>>
    BY <1>1 DEF ClientPass, ClientLoop
  <2>5. QED BY <2>1, <2>2, <2>3, <2>4, QuietKill
<1>2. CASE Spawn(p)
  <2>1. /\ Out(p)' <=> Out(p)
        /\ \A q \in Players \ {p} : phase'[q] = phase[q] /\ step'[q] = step[q]
    BY <1>2 DEF Spawn, Out, IInv, TypeOK
  <2>2. QED BY <1>2, <2>1, QuietKill DEF Spawn
<1>3. CASE PhaseGetPlayerUpdate(p) \/ PhaseValidatePlayer(p) \/ PhaseSendPlayerUpdate(p)
  <2> USE DEF PhaseGetPlayerUpdate, PhaseValidatePlayer, PhaseSendPlayerUpdate
  <2>1. step[p] = "work" /\ mainStep # "over"
    BY <1>3 DEF IInv, MainInv
  <2>2. /\ Kill(p) \/ Done(p)
        /\ UNCHANGED <<latch, mainPhase, mainStep, reaped, slots, count, clients, killed,
                       told>>
    BY <1>3
  <2>3. /\ step'[p] \in {"append", "arrive"}
        /\ \A q \in Players \ {p} : phase'[q] = phase[q] /\ step'[q] = step[q]
    BY <2>2 DEF IInv, TypeOK
  <2>4. Out(p)' <=> Out(p)
    BY <2>1, <2>3 DEF Out
  <2>5. QED BY <2>1, <2>2, <2>3, <2>4, QuietKill
<1>4. QED BY <1>1, <1>2, <1>3

\* Time passing, the loss of a connection, stuttering.
LEMMA UnchangedKill ==
  ASSUME KillInv,
         UNCHANGED <<latch, mainPhase, mainStep, reaped, phase, step, killed, slots,
                     count, clients, told>>
  PROVE  KillInv'
<1>1. Released' = Released /\ Current' = Current /\ MainOwes' = MainOwes
      /\ ReapOwes' = ReapOwes
  BY DEF Released, Current, MainOwes, ReapOwes
<1>2. NotArrived(1)' = NotArrived(1) /\ \A q : Out(q)' = Out(q)
  BY ThreadsUnchanged DEF NotArrived
<1>3. Owed' = Owed /\ KilledClients' = KilledClients
  BY <1>1, <1>2 DEF Owed, KilledClients
<1>4. StoredInv'
  BY <1>1, <1>2, <1>3
     DEF KillInv, StoredInv, NearStart, StaleStops, StaleName, NoneStale, CountReset
<1>5. QED BY <1>4, NamesKept DEF KillInv

\* The main thread enters the loop, or renews a latch that is not recvlatch.
LEMMA RenewKill ==
  ASSUME IInv, IInv', KillInv, EnterLoop \/ MainRenew
  PROVE  KillInv'
<1> USE DEF threadVars, vectorVars
<1>1. /\ UNCHANGED <<phase, step, killed, slots, count, clients, told, reaped>>
      /\ mainStep # "over" /\ mainStep # "reap" /\ mainStep' = "arrive"
  BY DEF EnterLoop, MainRenew, MainPassed
<1>2. \A q : Out(q)' = Out(q)
  BY <1>1, ThreadsUnchanged
<1>3. CASE EnterLoop
  <2>1. /\ Released' = Released /\ Current' = Current /\ MainOwes' = MainOwes
        /\ ReapOwes' = ReapOwes
    BY <1>3 DEF EnterLoop, Released, Current, MainOwes, ReapOwes
  <2>2. NotArrived(1)' = NotArrived(1)
    BY <1>1, ThreadsUnchanged DEF NotArrived
  <2>3. Owed' = Owed
    BY <2>1, <2>2 DEF Owed
  <2>4. StoredInv'
    BY <1>1, <1>2, <1>3, <2>1, <2>3, SameLatch DEF EnterLoop
  <2>5. QED BY <1>1, <2>4, NamesKept DEF KillInv
<1>4. CASE MainRenew
  <2>1. mainPhase \in 1 .. 3 /\ Released /\ ~ Released'
    BY <1>4 DEF MainRenew, MainPassed, Released
  <2>2. Current = Following(mainPhase) /\ Current' = Current
    BY <1>4, <2>1 DEF MainRenew, Current
  <2>3. Current # 1
    BY <2>1, <2>2 DEF Following
  <2>4. StoredInv'
    BY <1>1, <1>2, <2>2, <2>3, SameLatch
  <2>5. QED BY <1>1, <2>4, NamesKept DEF KillInv
<1>5. QED BY <1>3, <1>4

-----------------------------------------------------------------------------
(* Arrivals.                                                               *)

LEMMA MainArriveKill ==
  ASSUME IInv, IInv', KillInv, MainArrive
  PROVE  KillInv'
<1> USE DEF MainArrive, threadVars, vectorVars
<1>1. /\ latch \in [Phase -> Int] /\ mainPhase \in Phase
      /\ ~ Released /\ Current = mainPhase /\ latch[mainPhase] >= 1
  BY CurrentNotReleased DEF Released, Current, IInv, TypeOK
<1>2. \A k : NotArrived(k)' = NotArrived(k)
  BY ThreadsUnchanged DEF NotArrived
<1>3. MainOwes = 1 /\ ReapOwes = 0
  BY <1>1 DEF MainOwes, ReapOwes
<1>4. CASE latch[mainPhase] = 1
  <2>1. latch' = [latch EXCEPT ![mainPhase] = 0] /\ Released'
    BY <1>1, <1>4 DEF Released
  <2>2. NotArrived(mainPhase)' = {}
    <3>1. latch[mainPhase] >= Cardinality(NotArrived(mainPhase)) + MainOwes + ReapOwes
      BY <1>1 DEF IInv, CurrentInv
    <3>2. IsFiniteSet(NotArrived(mainPhase)) /\ Cardinality(NotArrived(mainPhase)) \in Nat
      BY Counting DEF IInv
    <3>3. NotArrived(mainPhase) = {}
      BY <1>3, <1>4, <3>1, <3>2, FS_EmptySet
    <3>4. QED BY <1>2, <3>3
  <2>3. mainPhase = 1 => ~ StaleName
    <3> SUFFICES ASSUME mainPhase = 1, StaleName PROVE FALSE
      OBVIOUS
    <3>1. latch[1] >= Owed + 1
      BY <1>1 DEF KillInv, StoredInv, StaleStops
    <3>2. Owed \in Int /\ Owed >= 1
      BY <1>3, OwedType DEF Owed
    <3>3. QED BY <1>4, <3>1, <3>2
  <2>4. StoredInv'
    BY <1>1, <2>1, <2>2, <2>3, NextLatch
  <2>5. QED BY <2>4, NamesKept DEF KillInv
<1>5. CASE latch[mainPhase] # 1
  <2>1. ~ Released' /\ Current' = Current /\ MainOwes' = 0 /\ ReapOwes' = 0
    BY <1>1, <1>5 DEF Released, Current, MainOwes, ReapOwes
  <2>2. ASSUME Current = 1, latch[1] >= Owed + 1 PROVE latch'[1] >= Owed' + 1
    <3>1. latch'[1] = latch[1] - 1 /\ latch[1] \in Int
      BY <1>1, <2>2
    <3>2. Owed' = Owed - 1 /\ Owed \in Int
      BY <1>2, <1>3, <2>1, OwedType DEF Owed
    <3>3. QED BY <2>2, <3>1, <3>2
  <2>3. \A q \in Players : Out(q)' => Out(q)
    BY ThreadsUnchanged
  <2>4. StoredInv'
    BY <2>1, <2>2, <2>3, SameLatch
  <2>5. QED BY <2>4, NamesKept DEF KillInv
<1>6. QED BY <1>4, <1>5

LEMMA ClientArriveKill ==
  ASSUME IInv, IInv', KillInv, NEW p \in Players, ClientArrive(p)
  PROVE  KillInv'
<1> USE DEF ClientArrive, vectorVars, mainVars
<1>1. mainStep # "over" /\ latch \in [Phase -> Int] /\ mainPhase \in Phase
  BY DEF IInv, MainInv, TypeOK
<1>2. phase[p] = Current /\ Current \in Phase /\ latch[Current] >= 1
  <2>1. InWindow(p, Current)
    BY <1>1 DEF IInv, WindowInv
  <2>2. QED BY <1>1, <2>1, CurrentType, CurrentNotReleased DEF InWindow, Out, IInv
<1>3. /\ \A q \in Players \ {p} : phase'[q] = phase[q] /\ step'[q] = step[q]
      /\ phase'[p] = phase[p] /\ step'[p] = "wait" /\ step[p] = "arrive"
  BY DEF IInv, TypeOK
<1>4. p \in NotArrived(Current) /\ Members' \subseteq Members
  BY <1>3 DEF NotArrived, Members, Out
<1>5. CASE ~ Released /\ mainStep = "wait" /\ latch[Current] = 1
  <2>1. Current = mainPhase
    BY <1>5 DEF Current
  <2>2. NotArrived(Current) = {p}
    BY <1>1, <1>2, <1>3, <1>5, LastArrival
  <2>3. NotArrived(mainPhase)' = {}
    BY <1>2, <1>3, <1>4, <2>1, <2>2 DEF NotArrived, Members
  <2>4. latch' = [latch EXCEPT ![mainPhase] = 0] /\ Released'
    BY <1>1, <1>2, <1>5, <2>1 DEF Released
  <2>5. mainPhase = 1 => ~ StaleName
    <3> SUFFICES ASSUME mainPhase = 1, StaleName PROVE FALSE
      OBVIOUS
    <3>1. latch[1] >= Owed + 1
      BY <1>1, <2>1 DEF KillInv, StoredInv, StaleStops
    <3>2. Cardinality(NotArrived(1)) = 1
      BY <2>1, <2>2, FS_Singleton
    <3>3. ReapOwes = 0
      BY <1>5 DEF ReapOwes
    <3>4. Owed \in Int /\ Owed >= 1
      BY <3>2, <3>3, OwedType DEF Owed
    <3>5. QED BY <1>5, <2>1, <3>1, <3>4
  <2>6. StoredInv'
    BY <1>5, <2>3, <2>4, <2>5, NextLatch
  <2>7. QED BY <2>6, NamesKept DEF KillInv
<1>6. CASE ~ (~ Released /\ mainStep = "wait" /\ latch[Current] = 1)
  <2>1. Released' = Released /\ Current' = Current /\ MainOwes' = MainOwes
        /\ ReapOwes' = ReapOwes
    BY <1>1, <1>2, <1>6, Cycle DEF Released, Current, MainOwes, ReapOwes
  <2>2. ASSUME Current = 1, latch[1] >= Owed + 1 PROVE latch'[1] >= Owed' + 1
    <3>1. latch'[1] = latch[1] - 1 /\ latch[1] \in Int
      BY <1>1, <1>2, <2>2
    <3>2. NotArrived(1)' \subseteq NotArrived(1) \ {p}
      BY <1>2, <1>3, <1>4, <2>2 DEF NotArrived, Members
    <3>3. /\ Cardinality(NotArrived(1)') \in Nat
          /\ Cardinality(NotArrived(1)') <= Cardinality(NotArrived(1)) - 1
      BY <1>4, <2>2, <3>2, OwedType, FS_RemoveElement, FS_Subset, FS_CardinalityType
    <3>4. ReapOwes \in Int
      BY DEF IInv, TypeOK, ReapOwes
    <3>5. QED BY <2>1, <2>2, <3>1, <3>3, <3>4, OwedType DEF Owed
  <2>3. Current = 2 => \A q \in Players : Out(q)' => Out(q)
    <3> SUFFICES ASSUME Current = 2, NEW q \in Players, Out(q)' PROVE Out(q)
      OBVIOUS
    <3>1. CASE q = p
      BY <1>2, <1>3, <3>1 DEF Out
    <3>2. CASE q # p
      BY <1>3, <3>2 DEF Out
    <3>3. QED BY <3>1, <3>2
  <2>4. StoredInv'
    BY <1>1, <2>1, <2>2, <2>3, SameLatch
  <2>5. QED BY <2>4, NamesKept DEF KillInv
<1>7. QED BY <1>5, <1>6

-----------------------------------------------------------------------------
(* The steps that change "invalid" or the clients.                         *)

\* A thread writes behind at most as many names as there are killed clients.
LEMMA EmplaceBackKill ==
  ASSUME IInv, IInv', KillInv, NEW p \in Players, EmplaceBack(p)
  PROVE  KillInv'
<1> USE DEF EmplaceBack, Done, mainVars
<1>1. mainStep # "over" /\ phase[p] # 4 /\ p \in clients /\ ~ killed[p]
  BY DEF IInv, MainInv, ThreadInv
<1>2. phase[p] = Preceding(Current) /\ Current \in Phase /\ Current # 1
  <2>1. InWindow(p, Current)
    BY <1>1 DEF IInv, WindowInv
  <2>2. phase[p] = Preceding(Current)
    BY <1>1, <2>1 DEF InWindow, Out
  <2>3. QED BY <1>1, <2>2, CurrentType DEF Preceding, IInv
<1>3. mainStep # "reap" /\ Current' = Current
  BY <1>1, <1>2 DEF Current, Following, Released, IInv, MainInv
<1>4. KilledClients' = KilledClients \union {p} /\ p \notin KilledClients
  BY <1>1 DEF KilledClients, IInv, TypeOK
<1>5. /\ Cardinality(KilledClients) \in Nat
      /\ Cardinality(KilledClients') = Cardinality(KilledClients) + 1
      /\ Cardinality(KilledClients') <= Cardinality(Players)
      /\ Cardinality(Players) \in Nat
  <2>1. IsFiniteSet(KilledClients) /\ Cardinality(KilledClients) \in Nat
    BY Counting DEF IInv
  <2>2. KilledClients' \subseteq Players
    BY <1>4 DEF KilledClients, IInv, TypeOK
  <2>3. QED BY <1>4, <2>1, <2>2, PlayersAssumption, FS_AddElement, FS_Subset,
               FS_CardinalityType
<1>6. count <= Cardinality(KilledClients) /\ seen[p] <= Cardinality(KilledClients)
      /\ count \in Nat /\ seen[p] \in Nat
  BY <1>3 DEF IInv, CountInv, TypeOK
<1>7. seen[p] + 1 \in Slot
  BY <1>5, <1>6 DEF Slot
<1>8. /\ slots'[seen[p] + 1] = p
      /\ \A i \in Slot : i # seen[p] + 1 => slots'[i] = slots[i]
      /\ killed'[p] = TRUE /\ \A q \in Players : q # p => killed'[q] = killed[q]
  BY <1>7 DEF IInv, TypeOK
<1>9. OnceNamed'
  <2>1. \A i \in Slot : slots[i] # p
    BY <1>1 DEF KillInv, OnceNamed
  <2>2. \A q \in Players : ~ killed'[q] => \A i \in Slot : slots'[i] # q
    BY <1>7, <1>8 DEF KillInv, OnceNamed
  <2>3. ASSUME NEW i \in Slot, NEW j \in Slot, slots'[i] = slots'[j], slots'[i] \in Players
        PROVE  i = j
    <3>1. CASE i = seen[p] + 1 \/ j = seen[p] + 1
      BY <1>8, <2>1, <2>3, <3>1
    <3>2. CASE i # seen[p] + 1 /\ j # seen[p] + 1
      BY <1>8, <2>3, <3>2 DEF KillInv, OnceNamed
    <3>3. QED BY <3>1, <3>2
  <2>4. QED BY <2>2, <2>3 DEF OnceNamed
<1>10. NearStart'
  <2> SUFFICES ASSUME NEW i \in Slot, slots'[i] \in clients
               PROVE  i <= Cardinality(KilledClients')
    BY DEF NearStart
  <2>1. CASE i = seen[p] + 1
    BY <1>5, <1>6, <2>1
  <2>2. CASE i # seen[p] + 1
    <3>1. i <= Cardinality(KilledClients)
      BY <1>1, <1>2, <1>8, <2>2 DEF KillInv, StoredInv, NearStart
    <3>2. QED BY <1>5, <3>1 DEF Slot
  <2>3. QED BY <2>1, <2>2
<1>11. NoneStale'
  <2> SUFFICES ASSUME Current = 2, NEW i \in Slot, slots'[i] \in clients
               PROVE  ~ Out(slots[i])'
    BY <1>3 DEF NoneStale
  <2>1. CASE i = seen[p] + 1
    BY <1>8, <2>1 DEF Out, IInv, TypeOK
  <2>2. CASE i # seen[p] + 1
    <3>1. slots'[i] = slots[i] /\ slots[i] \in clients /\ slots[i] \in Players
      BY <1>8, <2>2 DEF IInv, TypeOK
    <3>2. slots[i] # p /\ ~ Out(slots[i])
      BY <1>1, <3>1 DEF KillInv, OnceNamed, StoredInv, NoneStale
    <3>3. QED BY <3>1, <3>2 DEF Out, IInv, TypeOK
  <2>3. QED BY <2>1, <2>2
<1>12. StoredInv'
  BY <1>2, <1>3, <1>10, <1>11 DEF StoredInv, StaleStops, CountReset
<1>13. ReapedInv'
  BY <1>3, <1>5, <1>6 DEF ReapedInv
<1>14. ToldInv'
  BY <1>3 DEF KillInv, ToldInv
<1>15. QED BY <1>9, <1>12, <1>13, <1>14 DEF KillInv

\* Every client is told the entries, and nothing else.
LEMMA SendKillsKill ==
  ASSUME IInv, IInv', KillInv, SendKills
  PROVE  KillInv'
<1> USE DEF SendKills, MainPassed, threadVars, vectorVars, KillInv
<1>1. /\ Released /\ Released' /\ Current = 1 /\ Current' = 1
      /\ reaped = 0 /\ mainStep = "wait" /\ mainPhase = 4
  BY DEF IInv, MainInv, Released, Current, Following
<1>2. NotArrived(1)' = NotArrived(1)
  BY ThreadsUnchanged DEF NotArrived
<1>3. Owed' = Owed
  BY <1>1, <1>2 DEF Owed, MainOwes, ReapOwes
<1>4. OnceNamed'
  BY DEF OnceNamed
<1>5. StoredInv'
  BY <1>1, <1>3 DEF StoredInv, NearStart, StaleStops, StaleName, NoneStale, CountReset
<1>6. ReapedInv'
  BY DEF ReapedInv
<1>7. ToldInv'
  <2> SUFFICES ASSUME NEW c \in clients
               PROVE  told'[c] \ {NoPlayer} = (Players \ clients) \union Entries
    BY DEF ToldInv, Entries
  <2>1. told'[c] = told[c] \union {slots[i] : i \in 1 .. count}
    BY DEF IInv, TypeOK
  <2>2. told[c] \ {NoPlayer} = Players \ clients
    BY <1>1 DEF ToldInv
  <2>3. NoPlayer \notin Players
    BY PlayersAssumption
  <2>4. QED BY <2>1, <2>2, <2>3 DEF Entries
<1>8. QED BY <1>4, <1>5, <1>6, <1>7

\* An entry fits into the storage.
LEMMA EntriesStored ==
  ASSUME IInv, KillInv, NEW i \in 1 .. count
  PROVE  i \in Slot /\ slots[i] \in Players \union {NoPlayer}
<1>1. count \in Nat /\ Cardinality(Players) \in Nat
  BY PlayersAssumption, FS_CardinalityType DEF IInv, TypeOK
<1>2. i \in Slot
  BY <1>1 DEF KillInv, ReapedInv, Slot
<1>3. QED BY <1>2 DEF IInv, TypeOK

\* The entry that is erased is one the clients were told of.
LEMMA ReapKill ==
  ASSUME IInv, IInv', KillInv, Reap
  PROVE  KillInv'
<1> DEFINE v == slots[reaped + 1]
<1> USE DEF Reap, CountDown, EraseEntry, threadVars, vectorVars, KillInv
<1>1. /\ mainPhase = 4 /\ Released /\ Released' /\ Current = 1 /\ Current' = 1
      /\ count \in Nat /\ reaped \in Nat /\ latch \in [Phase -> Int]
  BY DEF IInv, TypeOK, MainInv, Released, Current, Following
<1>2. v \in Players \union {NoPlayer} /\ clients' = clients \ {v}
  BY <1>1, EntriesStored
<1>3. OnceNamed'
  BY DEF OnceNamed
<1>4. StoredInv'
  <2>1. NotArrived(1)' = NotArrived(1)
    BY ThreadsUnchanged DEF NotArrived
  <2>2. Owed' = Owed - 1 /\ Owed \in Int
    BY <1>1, <2>1, OwedType DEF Owed, MainOwes, ReapOwes
  <2>3. latch'[1] = latch[1] - 1 /\ latch[1] \in Int
    BY <1>1 DEF Phase
  <2>4. StaleStops'
    BY <1>1, <2>2, <2>3 DEF StoredInv, StaleStops, StaleName
  <2>5. QED BY <1>1, <2>4 DEF StoredInv, NearStart, NoneStale, CountReset
<1>5. ReapedInv'
  BY <1>1 DEF ReapedInv
<1>6. ToldInv'
  <2> SUFFICES ASSUME NEW c \in clients'
               PROVE  told'[c] \ {NoPlayer} = (Players \ clients') \union Entries
    BY DEF ToldInv, Entries
  <2>1. told[c] \ {NoPlayer} = (Players \ clients) \union Entries
    BY DEF ToldInv
  <2>2. v \in Entries \union {NoPlayer}
    BY <1>1 DEF Entries
  <2>3. QED BY <1>2, <2>1, <2>2, PlayersAssumption
<1>7. QED BY <1>3, <1>4, <1>5, <1>6

\* The names of this round are not clients any more.
LEMMA CheckForExitGameKill ==
  ASSUME IInv, IInv', KillInv, CheckForExitGame
  PROVE  KillInv'
<1> USE DEF CheckForExitGame, RenewSendLatch, threadVars, KillInv
<1>1. /\ mainPhase = 4 /\ Released /\ Current = 1 /\ reaped = count
      /\ count \in Nat /\ Cardinality(Players) \in Nat /\ latch \in [Phase -> Int]
  BY PlayersAssumption, FS_CardinalityType
     DEF IInv, TypeOK, MainInv, Released, Current, Following
<1>2. \A i \in 1 .. count : slots[i] \notin clients
  BY <1>1 DEF ReapedInv
<1>3. OnceNamed'
  BY DEF OnceNamed
<1>4. ReapedInv'
  BY <1>1 DEF ReapedInv
<1>5. Entries \subseteq Players \ clients
  BY <1>2, EntriesStored DEF Entries
<1>6. ToldInv'
  BY <1>5 DEF ToldInv
<1>7. StoredInv'
  <2> SUFFICES ASSUME clients # {} PROVE StoredInv'
    BY DEF StoredInv
  <2>1. ~ Released' /\ Current' = 1 /\ mainPhase' = 1 /\ mainStep' = "arrive"
    BY <1>1 DEF Released, Current, Following
  <2>2. NotArrived(1)' = NotArrived(1)
    BY ThreadsUnchanged DEF NotArrived
  <2>3. Owed' = Owed
    BY <1>1, <2>1, <2>2 DEF Owed, MainOwes, ReapOwes
  <2>4. latch'[1] = latch[1]
    BY <1>1 DEF Phase
  <2>5. StaleName' => StaleName
    <3> SUFFICES ASSUME NEW i \in Slot, slots[i] \in clients PROVE StaleName
      BY DEF StaleName
    <3>1. i > count
      BY <1>1, <1>2 DEF Slot
    <3>2. QED BY <3>1 DEF StaleName
  <2>6. StaleStops'
    BY <1>1, <2>1, <2>3, <2>4, <2>5 DEF StoredInv, StaleStops
  <2>7. QED BY <2>1, <2>6 DEF StoredInv, NearStart, NoneStale, CountReset
<1>8. QED BY <1>3, <1>4, <1>6, <1>7

-----------------------------------------------------------------------------
(* The theorems.                                                           *)

LEMMA InitKill == Init => KillInv
<1> SUFFICES ASSUME Init PROVE KillInv
  OBVIOUS
<1> USE DEF Init
<1>1. NoPlayer \notin Players /\ Cardinality(Players) \in Nat
  BY PlayersAssumption, FS_CardinalityType
<1>2. \A i \in Slot : slots[i] \notin Players
  BY <1>1
<1>3. OnceNamed
  BY <1>2 DEF OnceNamed
<1>4. StoredInv
  BY <1>2 DEF StoredInv, NearStart, StaleStops, StaleName, NoneStale, CountReset
<1>5. ReapedInv /\ ToldInv
  BY <1>1 DEF ReapedInv, ToldInv
<1>6. QED BY <1>3, <1>4, <1>5 DEF KillInv

LEMMA NextKill == IInv /\ IInv' /\ KillInv /\ [Next]_vars => KillInv'
<1> SUFFICES ASSUME IInv, IInv', KillInv, [Next]_vars PROVE KillInv'
  OBVIOUS
<1>1. ASSUME NEW p \in Players, Spawn(p) \/ ClientThread(p) PROVE KillInv'
  BY <1>1, ThreadKill, ClientArriveKill, EmplaceBackKill DEF ClientThread
<1>2. ASSUME NEW p \in Players, Expire(p) \/ LosePeer(p) PROVE KillInv'
  BY <1>2, UnchangedKill DEF Expire, LosePeer, mainVars, threadVars, vectorVars
<1>3. ASSUME MainThread PROVE KillInv'
  BY <1>1, <1>3, RenewKill, MainArriveKill, SendKillsKill, ReapKill,
     CheckForExitGameKill DEF MainThread
<1>4. CASE UNCHANGED vars
  BY <1>4, UnchangedKill DEF vars
<1>5. QED BY <1>1, <1>2, <1>3, <1>4 DEF Next

\* Whatever the race on "invalid" loses, its storage never misleads the match.
THEOREM KillInvariance == Spec => []KillInv
<1>1. IInv /\ KillInv /\ [Next]_vars /\ IInv' => KillInv'
  BY NextKill
<1>2. QED BY <1>1, InitKill, Invariance, PTL DEF Spec

\* No client is entered twice in "invalid", so no latch is counted down twice for
\* one player (emplace_back in ClientThread.cpp, the clean-up in GameMain.cpp).
THEOREM NoDoubleEntry == Spec => []InvalidIsSet
<1>1. IInv /\ KillInv => InvalidIsSet
  <2> SUFFICES ASSUME IInv, KillInv, NEW i \in 1 .. count, NEW j \in 1 .. count,
                      slots[i] = slots[j], slots[i] \in clients
               PROVE  i = j
    BY DEF InvalidIsSet
  <2>1. i \in Slot /\ j \in Slot
    BY EntriesStored
  <2>2. QED BY <2>1 DEF KillInv, OnceNamed, IInv, TypeOK
<1>2. QED BY <1>1, Invariance, KillInvariance, PTL

\* Every client left in the match was told of exactly the players that are not, so
\* all clients show the same survivors (ValidatePositionsAndKillPlayers).
THEOREM SurvivorsKnown == Spec => []SurvivorsToldOfKills
<1>1. KillInv => SurvivorsToldOfKills
  BY DEF KillInv, ToldInv, SurvivorsToldOfKills
<1>2. QED BY <1>1, KillInvariance, PTL

\* A latch that is deleted and renewed has no thread left in it, except, in
\* cleanlatch, the thread of a player whose entry another thread overwrote.
THEOREM LatchesDeletedUnused == Spec => []NoLatchDeletedInUse
<1>1. ASSUME IInv, KillInv, NEW k \in 1 .. 3, MainPassed(k), NEW p \in Players,
             step[p] = "wait", phase[p] = Preceding(k)
      PROVE  Lost(p)
  <2>1. /\ mainPhase = k /\ Released /\ Current = Following(k) /\ mainStep # "over"
        /\ k \in Phase
    BY <1>1 DEF MainPassed, Released, Current, Phase
  <2>2. InWindow(p, Following(k))
    BY <1>1, <2>1 DEF IInv, WindowInv
  <2>3. killed[p] /\ phase[p] = 4
    BY <1>1, <2>1, <2>2, Cycle DEF InWindow, Out
  <2>4. Current = 2
    BY <1>1, <2>1, <2>3 DEF Preceding, Following
  <2>5. p \in clients
    BY <1>1 DEF IInv, ThreadInv
  <2>6. ASSUME NEW i \in 1 .. count PROVE slots[i] # p
    <3>1. i \in Slot
      BY <1>1, EntriesStored
    <3>2. QED BY <1>1, <2>1, <2>3, <2>4, <2>5, <3>1 DEF KillInv, StoredInv, NoneStale, Out
  <2>7. QED BY <2>3, <2>5, <2>6 DEF Lost
<1>2. ASSUME IInv, mainStep = "reap", NEW p \in Players, step[p] = "wait"
      PROVE  phase[p] # 3 /\ clients # {}
  <2>1. Current = 1
    BY <1>2 DEF IInv, MainInv, Current, Released, Following
  <2>2. InWindow(p, 1)
    BY <1>2, <2>1 DEF IInv, WindowInv
  <2>3. QED BY <1>2, <2>2 DEF InWindow, Out, Preceding, IInv, ThreadInv
<1>3. IInv /\ KillInv => NoLatchDeletedInUse
  BY <1>1, <1>2 DEF NoLatchDeletedInUse
<1>4. QED BY <1>3, Invariance, KillInvariance, PTL

-----------------------------------------------------------------------------
(* The latches are not too large either.  Every renewal counts the clients *)
(* exactly; only the clean-up, which counts recvlatch and validationlatch  *)
(* down once per entry and not once per player it removed, can leave them  *)
(* too large, both by the same amount, and only if an entry was lost.      *)

\* A killed client whose name is stored nowhere will never be named again.
Forgotten(p) == p \in clients /\ killed[p] /\ \A i \in Slot : slots[i] # p
Complete == \A p \in Players : ~ Forgotten(p)

\* The latches renewed in this round and not filled yet.
FreshExact ==
  mainStep \notin {"over", "reap"} =>
    /\ mainPhase = 1 => latch[3] = Cardinality(clients) + 1
    /\ mainPhase = 2 /\ ~ Released => latch[3] = Cardinality(clients) + 1
    /\ mainPhase = 2 => latch[4] = Cardinality(clients) + 1
    /\ mainPhase = 3 /\ ~ Released => latch[4] = Cardinality(clients) + 1
    /\ mainPhase = 3 => latch[1] = Cardinality(clients) + 1
    /\ mainPhase = 4 /\ ~ Released => latch[1] = Cardinality(clients) + 1
    /\ mainPhase = 4 => latch[2] = Cardinality(clients) + 1

\* Recvlatch being filled, and validationlatch after it.
StartExact ==
  mainStep # "over" /\ Current = 1 =>
    /\ latch[2] - (Cardinality(Members) + 1 + ReapOwes) = latch[1] - Owed
    /\ latch[1] = Owed \/ LostEntry

\* The later latches: a round that began with a lost entry cannot get this far.
RoundExact ==
  mainStep # "over" /\ Current # 1 /\ Complete =>
    /\ latch[Current] = Cardinality(NotArrived(Current)) + MainOwes
    /\ Current # 4 => Members = clients

\* Whoever still waits at the latch before the current one may leave it.
OpenInv ==
  mainStep # "over" => \A p \in Players :
    step[p] = "wait" /\ phase[p] = Preceding(Current) => latch[Preceding(Current)] = 0

ExactInv == FreshExact /\ StartExact /\ RoundExact /\ OpenInv

\* A step that moves no thread to or from a latch, and leaves the counters and the
\* entries that matter to the current latch alone.
LEMMA KeptExact ==
  ASSUME IInv, ExactInv, mainStep # "over",
         UNCHANGED <<latch, mainPhase, clients>>,
         Released' = Released, mainStep' = mainStep \/ mainStep' = "reap" \/ mainStep = "spawn",
         MainOwes' = MainOwes, ReapOwes' = ReapOwes,
         Members' = Members, NotArrived(Current)' = NotArrived(Current),
         Current = 1 => LostEntry' = LostEntry,
         Current # 1 /\ Complete' => Complete,
         \A q \in Players : step'[q] = "wait" => step[q] = "wait" /\ phase'[q] = phase[q]
  PROVE  ExactInv'
<1> USE DEF ExactInv
<1>1. Current' = Current
  BY DEF Current
<1>2. FreshExact'
  BY <1>1 DEF FreshExact
<1>3. StartExact'
  <2> SUFFICES ASSUME Current = 1 PROVE StartExact'
    BY <1>1 DEF StartExact
  <2>1. Owed' = Owed
    BY <1>1 DEF Owed
  <2>2. QED BY <1>1, <2>1 DEF StartExact
<1>4. RoundExact'
  BY <1>1 DEF RoundExact
<1>5. OpenInv'
  BY <1>1 DEF OpenInv
<1>6. QED BY <1>2, <1>3, <1>4, <1>5

\* What a thread does between two latches.
LEMMA QuietExact ==
  ASSUME IInv, ExactInv, mainStep # "over", NEW p \in Players,
         UNCHANGED <<latch, mainPhase, mainStep, reaped, clients>>,
         \A q \in Players \ {p} : phase'[q] = phase[q] /\ step'[q] = step[q]
                                  /\ killed'[q] = killed[q],
         phase[p] # Current \/ step[p] # "wait",
         step'[p] # "wait",
         Out(p)' <=> Out(p),
         Current = 1 => UNCHANGED <<slots, count, killed>>,
         Current # 1 /\ Complete' => Complete
  PROVE  ExactInv'
<1>1. Released' = Released /\ Current' = Current /\ MainOwes' = MainOwes
  BY DEF Released, Current, MainOwes
<1>2. ReapOwes' = ReapOwes
  BY <1>1 DEF ReapOwes, Current, Following
<1>3. \A q \in Players : Out(q)' <=> Out(q)
  BY DEF Out
<1>4. Members' = Members
  BY <1>3 DEF Members
<1>5. NotArrived(Current)' = NotArrived(Current)
  BY <1>1, <1>4 DEF NotArrived, Members
<1>6. Current = 1 => LostEntry' = LostEntry
  BY DEF LostEntry, Lost
<1>7. \A q \in Players : step'[q] = "wait" => step[q] = "wait" /\ phase'[q] = phase[q]
  OBVIOUS
<1>8. QED BY <1>1, <1>2, <1>4, <1>5, <1>6, <1>7, KeptExact

LEMMA ThreadExact ==
  ASSUME IInv, ExactInv, NEW p \in Players,
         \/ ClientPass(p) \/ ClientLoop(p) \/ Spawn(p)
         \/ PhaseGetPlayerUpdate(p) \/ PhaseValidatePlayer(p) \/ PhaseSendPlayerUpdate(p)
  PROVE  ExactInv'
<1> USE DEF Done, Kill, vectorVars, mainVars
<1>1. /\ UNCHANGED <<latch, mainPhase, mainStep, reaped, clients, slots, count, killed>>
      /\ \A q \in Players \ {p} : phase'[q] = phase[q] /\ step'[q] = step[q]
  BY DEF ClientPass, ClientLoop, Spawn, PhaseGetPlayerUpdate, PhaseValidatePlayer,
         PhaseSendPlayerUpdate, IInv, TypeOK
<1>2. Complete' = Complete
  BY <1>1 DEF Complete, Forgotten
<1>3. CASE ClientPass(p) \/ ClientLoop(p)
  <2>1. mainStep # "over" /\ phase[p] # Current
    BY <1>3, PassedIsPreceding DEF ClientPass, ClientLoop
  <2>2. (Out(p)' <=> Out(p)) /\ step'[p] # "wait"
    BY <1>3 DEF ClientPass, ClientLoop, Out, IInv, TypeOK
  <2>3. QED BY <1>1, <1>2, <2>1, <2>2, QuietExact
<1>4. CASE Spawn(p)
  <2>1. mainStep # "over" /\ step[p] = "unborn" /\ step'[p] = "arrive"
        /\ (Out(p)' <=> Out(p))
    BY <1>4 DEF Spawn, Out, IInv, TypeOK
  <2>2. QED BY <1>1, <1>2, <2>1, QuietExact
<1>5. CASE PhaseGetPlayerUpdate(p) \/ PhaseValidatePlayer(p) \/ PhaseSendPlayerUpdate(p)
  <2>1. step[p] = "work" /\ mainStep # "over" /\ (Kill(p) \/ Done(p))
    BY <1>5 DEF IInv, MainInv, PhaseGetPlayerUpdate, PhaseValidatePlayer,
                PhaseSendPlayerUpdate
  <2>2. step'[p] \in {"append", "arrive"}
    BY <2>1 DEF IInv, TypeOK
  <2>3. Out(p)' <=> Out(p)
    BY <2>1, <2>2 DEF Out
  <2>4. QED BY <1>1, <1>2, <2>1, <2>2, <2>3, QuietExact
<1>6. QED BY <1>3, <1>4, <1>5
\* A thread's name is stored somewhere once it is killed; another append may
\* overwrite it, but nothing brings back a name that was overwritten before.
LEMMA EmplaceBackExact ==
  ASSUME IInv, ExactInv, NEW p \in Players, EmplaceBack(p)
  PROVE  ExactInv'
<1> USE DEF EmplaceBack, Done, mainVars
<1>1. mainStep # "over" /\ phase[p] # 4 /\ ~ killed[p]
  BY DEF IInv, MainInv, ThreadInv
<1>2. Current # 1
  <2>1. InWindow(p, Current)
    BY <1>1 DEF IInv, WindowInv
  <2>2. QED BY <1>1, <2>1 DEF InWindow, Out, Preceding
<1>3. /\ \A q \in Players \ {p} : phase'[q] = phase[q] /\ step'[q] = step[q]
                                  /\ killed'[q] = killed[q]
      /\ step'[p] = "arrive" /\ killed'[p] /\ step[p] = "append"
  BY DEF IInv, TypeOK
<1>4. Out(p)' <=> Out(p)
  BY <1>1, <1>3 DEF Out
<1>5. ASSUME Complete' PROVE Complete
  <2> SUFFICES ASSUME NEW q \in Players, Forgotten(q) PROVE FALSE
    BY DEF Complete
  <2>1. q # p
    BY <1>1 DEF Forgotten
  <2>2. \A i \in Slot : slots'[i] # q
    BY <2>1 DEF Forgotten, IInv, TypeOK
  <2>3. Forgotten(q)'
    BY <1>3, <2>1, <2>2 DEF Forgotten
  <2>4. QED BY <1>5, <2>3 DEF Complete
<1>6. UNCHANGED <<latch, mainPhase, mainStep, reaped, clients>>
  OBVIOUS
<1>7. QED BY <1>1, <1>2, <1>3, <1>4, <1>5, <1>6, QuietExact

\* Time passing, the loss of a connection, stuttering.
LEMMA UnchangedExact ==
  ASSUME ExactInv,
         UNCHANGED <<latch, mainPhase, mainStep, reaped, phase, step, killed, slots,
                     count, clients>>
  PROVE  ExactInv'
<1>1. Released' = Released /\ Current' = Current /\ MainOwes' = MainOwes
      /\ ReapOwes' = ReapOwes
  BY DEF Released, Current, MainOwes, ReapOwes
<1>2. Members' = Members /\ \A k : NotArrived(k)' = NotArrived(k)
  BY ThreadsUnchanged DEF NotArrived
<1>3. Owed' = Owed /\ LostEntry' = LostEntry /\ Complete' = Complete
  BY <1>1, <1>2 DEF Owed, LostEntry, Lost, Complete, Forgotten
<1>4. QED
  BY <1>1, <1>2, <1>3 DEF ExactInv, FreshExact, StartExact, RoundExact, OpenInv

\* The main thread enters its loop, or sends the messages about the killed players.
LEMMA MainQuietExact ==
  ASSUME IInv, ExactInv, EnterLoop \/ SendKills
  PROVE  ExactInv'
<1> USE DEF threadVars, vectorVars
<1>1. /\ UNCHANGED <<latch, mainPhase, reaped, phase, step, killed, slots, count, clients>>
      /\ mainStep # "over" /\ mainStep # "reap"
  BY DEF EnterLoop, SendKills, MainPassed, IInv, MainInv
<1>2. Members' = Members /\ \A k : NotArrived(k)' = NotArrived(k)
  BY <1>1, ThreadsUnchanged DEF NotArrived
<1>3. /\ Released' = Released /\ MainOwes' = MainOwes /\ ReapOwes' = ReapOwes
      /\ mainStep = "spawn" \/ mainStep' = "reap"
  BY <1>1 DEF EnterLoop, SendKills, MainPassed, Released, MainOwes, ReapOwes
<1>4. LostEntry' = LostEntry /\ Complete' = Complete
  BY <1>1 DEF LostEntry, Lost, Complete, Forgotten
<1>5. Current' = Current
  BY <1>1, <1>3 DEF Current
<1>6. NotArrived(Current)' = NotArrived(Current)
  BY <1>2, <1>5
<1>7. QED BY <1>1, <1>2, <1>3, <1>4, <1>6, KeptExact

\* A renewed latch fits the clients; the latch being filled is another one.
LEMMA MainRenewExact ==
  ASSUME IInv, ExactInv, MainRenew
  PROVE  ExactInv'
<1> USE DEF MainRenew, MainPassed, threadVars, vectorVars, ExactInv
<1>1. /\ latch \in [Phase -> Int] /\ mainPhase \in 1 .. 3 /\ mainStep = "wait"
      /\ Released /\ ~ Released' /\ mainPhase \in Phase
      /\ Current = Following(mainPhase) /\ Current' = Current /\ Current # 1
  BY DEF IInv, TypeOK, Released, Current, Following
<1>2. /\ \A k \in Phase : k # Preceding(mainPhase) => latch'[k] = latch[k]
      /\ latch'[Preceding(mainPhase)] = Cardinality(clients) + 1
  BY <1>1, Cycle
<1>3. Members' = Members /\ NotArrived(Current)' = NotArrived(Current)
  BY <1>1, ThreadsUnchanged DEF NotArrived
<1>4. Complete' = Complete /\ MainOwes' = MainOwes
  BY <1>1 DEF Complete, Forgotten, MainOwes
<1>5. FreshExact'
  BY <1>1, <1>2 DEF FreshExact, Following, Preceding, Phase
<1>6. RoundExact'
  <2>1. latch'[Current] = latch[Current]
    BY <1>1, <1>2, Cycle
  <2>2. QED BY <1>1, <1>3, <1>4, <2>1 DEF RoundExact
<1>7. OpenInv'
  <2>1. Preceding(Current) = mainPhase /\ latch'[mainPhase] = latch[mainPhase]
    BY <1>1, <1>2, Cycle
  <2>2. QED BY <1>1, <2>1 DEF OpenInv
<1>8. QED BY <1>1, <1>5, <1>6, <1>7 DEF StartExact
\* One entry handled: recvlatch, validationlatch and what is owed go down together.
LEMMA ReapExact ==
  ASSUME IInv, ExactInv, Reap
  PROVE  ExactInv'
<1> USE DEF Reap, CountDown, EraseEntry, threadVars, vectorVars, ExactInv
<1>1. /\ mainPhase = 4 /\ Released /\ Released' /\ Current = 1 /\ Current' = 1
      /\ count \in Nat /\ reaped \in Nat /\ latch \in [Phase -> Int]
  BY DEF IInv, TypeOK, MainInv, Released, Current, Following
<1>2. Members' = Members /\ NotArrived(1)' = NotArrived(1)
  BY ThreadsUnchanged DEF NotArrived
<1>3. ReapOwes' = ReapOwes - 1 /\ ReapOwes \in Int
  BY <1>1 DEF ReapOwes
<1>4. Owed' = Owed - 1 /\ Owed \in Int
  BY <1>1, <1>2, <1>3, OwedType DEF Owed, MainOwes
<1>5. /\ latch'[1] = latch[1] - 1 /\ latch[1] \in Int
      /\ latch'[2] = latch[2] - 1 /\ latch[2] \in Int
      /\ latch'[4] = latch[4]
  BY <1>1 DEF Phase
<1>6. LostEntry => LostEntry'
  BY <1>1 DEF LostEntry, Lost
<1>7. StartExact'
  <2>1. latch[2] - (Cardinality(Members) + 1 + ReapOwes) = latch[1] - Owed
        /\ (latch[1] = Owed \/ LostEntry)
    BY <1>1 DEF StartExact
  <2>2. Cardinality(Members) \in Nat
    BY Counting DEF IInv
  <2>3. latch'[2] - (Cardinality(Members') + 1 + ReapOwes') = latch'[1] - Owed'
    BY <1>2, <1>3, <1>4, <1>5, <2>1, <2>2
  <2>4. latch'[1] = Owed' \/ LostEntry'
    BY <1>4, <1>5, <1>6, <2>1
  <2>5. QED BY <2>3, <2>4 DEF StartExact
<1>8. OpenInv'
  BY <1>1, <1>5 DEF OpenInv, Preceding
<1>9. QED BY <1>1, <1>7, <1>8 DEF FreshExact, RoundExact

\* The next round begins with what the clean-up left on recvlatch and
\* validationlatch, and with a renewed sendlatch.
LEMMA CheckForExitGameExact ==
  ASSUME IInv, ExactInv, CheckForExitGame
  PROVE  ExactInv'
<1> USE DEF CheckForExitGame, RenewSendLatch, threadVars, ExactInv
<1>1. CASE clients = {}
  BY <1>1 DEF FreshExact, StartExact, RoundExact, OpenInv
<1>2. CASE clients # {}
  <2>1. /\ mainPhase = 4 /\ Released /\ Current = 1 /\ reaped = count
        /\ mainPhase' = 1 /\ mainStep' = "arrive" /\ ~ Released' /\ Current' = 1
        /\ count \in Nat /\ latch \in [Phase -> Int]
    BY <1>2 DEF IInv, TypeOK, MainInv, Released, Current, Following
  <2>2. Members' = Members /\ NotArrived(1)' = NotArrived(1)
    BY ThreadsUnchanged DEF NotArrived
  <2>3. ReapOwes' = 0 /\ ReapOwes = 0 /\ MainOwes' = MainOwes
    BY <2>1 DEF ReapOwes, MainOwes
  <2>4. Owed' = Owed
    BY <2>2, <2>3 DEF Owed
  <2>5. /\ latch'[1] = latch[1] /\ latch'[2] = latch[2] /\ latch'[4] = latch[4]
        /\ latch'[3] = Cardinality(clients) + 1
    BY <1>2, <2>1 DEF Phase
  <2>6. LostEntry => LostEntry'
    BY <2>1 DEF LostEntry, Lost
  <2>7. StartExact'
    BY <2>1, <2>2, <2>3, <2>4, <2>5, <2>6 DEF StartExact
  <2>8. OpenInv'
    BY <2>1, <2>5 DEF OpenInv, Preceding
  <2>9. FreshExact'
    BY <2>1, <2>5 DEF FreshExact
  <2>10. QED BY <2>1, <2>7, <2>8, <2>9 DEF RoundExact
<1>3. QED BY <1>1, <1>2

\* Unless an entry was lost, every killed client has one.
LEMMA EntriesOfKilled ==
  ASSUME IInv, ~ LostEntry
  PROVE  Cardinality(KilledClients) <= count
<1>1. \A q \in KilledClients : \E i \in 1 .. count : slots[i] = q
  BY DEF KilledClients, LostEntry, Lost, IInv, TypeOK
<1>2. PICK f \in [KilledClients -> 1 .. count] :
        \A q \in KilledClients : slots[f[q]] = q
  <2> DEFINE f == [q \in KilledClients |-> CHOOSE i \in 1 .. count : slots[i] = q]
  <2>1. \A q \in KilledClients : f[q] \in 1 .. count /\ slots[f[q]] = q
    BY <1>1
  <2>2. f \in [KilledClients -> 1 .. count]
    BY <2>1
  <2>3. QED BY <2>1, <2>2
<1>3. f \in Injection(KilledClients, 1 .. count)
  BY <1>2 DEF Injection, IsInjective
<1>4. count \in Nat
  BY DEF IInv, TypeOK
<1>5. IsFiniteSet(1 .. count) /\ Cardinality(1 .. count) = count
  BY <1>4, FS_Interval
<1>6. Cardinality(KilledClients) <= Cardinality(1 .. count)
  BY <1>3, <1>5, FS_Injection
<1>7. QED BY <1>5, <1>6
\* The last arrival releases the latch of the main thread, and the next one is
\* filled: by everybody who is in the match, if no entry was lost.
LEMMA ReleaseExact ==
  ASSUME IInv, IInv', KillInv', ExactInv,
         ~ Released, mainStep \in {"arrive", "wait"}, Released', mainStep' = "wait",
         UNCHANGED <<mainPhase, reaped, slots, count, clients, killed>>,
         latch' = [latch EXCEPT ![mainPhase] = 0],
         NotArrived(mainPhase)' = {},
         mainPhase # 4 => Members' = Members,
         mainPhase = 1 => latch[1] = Owed
  PROVE  ExactInv'
<1> USE DEF ExactInv
<1>1. /\ mainPhase \in Phase /\ Current = mainPhase /\ mainStep # "over"
      /\ Current' = Following(mainPhase) /\ latch \in [Phase -> Int]
      /\ MainOwes' = 1
  BY DEF IInv, TypeOK, Current, MainOwes
<1>2. \A k \in Phase : k # mainPhase => latch'[k] = latch[k]
  BY <1>1
<1>3. \A q \in Players : Out(q)' \/ (phase'[q] = mainPhase /\ step'[q] = "wait")
  BY DEF NotArrived, Members
<1>4. NotArrived(Following(mainPhase))' = Members'
  BY <1>1, <1>3, Cycle DEF NotArrived, Members
<1>5. FreshExact'
  BY <1>1, <1>2 DEF FreshExact, Phase
<1>6. OpenInv'
  BY <1>1, Cycle DEF OpenInv
<1>7. Members' \subseteq clients /\ IsFiniteSet(clients) /\ Cardinality(clients) \in Nat
  BY Counting DEF Members, IInv, ThreadInv, Out
<1>8. CASE mainPhase = 1
  <2>1. Current' = 2 /\ Current = 1
    BY <1>1, <1>8 DEF Following
  <2>2. latch'[2] = latch[2] /\ latch[2] \in Int /\ latch[1] \in Int
    BY <1>1, <1>2, <1>8 DEF Phase
  <2>3. latch[2] - (Cardinality(Members) + 1 + ReapOwes) = latch[1] - Owed
    BY <1>1, <2>1 DEF StartExact
  <2>4. ReapOwes = 0 /\ Cardinality(Members) \in Nat
    BY <1>8, Counting DEF ReapOwes, IInv
  <2>5. latch'[2] = Cardinality(Members) + 1
    BY <1>8, <2>2, <2>3, <2>4
  <2>6. ASSUME Complete' PROVE Members' = clients
    <3> SUFFICES ASSUME NEW q \in clients, Out(q)' PROVE FALSE
      BY <1>7 DEF Members, IInv, TypeOK
    <3>1. q \in Players /\ killed'[q]
      BY DEF IInv, TypeOK, ThreadInv, Out
    <3>2. PICK i \in Slot : slots'[i] = q
      BY <2>6, <3>1 DEF Complete, Forgotten
    <3>3. ~ Out(slots[i])'
      BY <1>1, <2>1, <3>2 DEF KillInv, StoredInv, NoneStale
    <3>4. QED BY <3>2, <3>3 DEF Out
  <2>7. RoundExact'
    BY <1>1, <1>4, <1>8, <2>1, <2>5, <2>6 DEF RoundExact, Following
  <2>8. QED BY <1>5, <1>6, <2>1, <2>7 DEF StartExact
<1>9. CASE mainPhase \in {2, 3}
  <2>1. Current' = mainPhase + 1 /\ Current # 1 /\ Current # 4 /\ Current' # 1
    BY <1>1, <1>9 DEF Following
  <2>2. latch'[mainPhase + 1] = Cardinality(clients) + 1
    BY <1>1, <1>2, <1>9 DEF FreshExact, Phase
  <2>3. Complete' => Complete
    BY DEF Complete, Forgotten
  <2>4. Complete => Members' = clients
    BY <1>1, <1>9, <2>1 DEF RoundExact
  <2>5. NotArrived(Current)' = Members'
    BY <1>1, <1>4
  <2>6. RoundExact'
    BY <1>1, <2>1, <2>2, <2>3, <2>4, <2>5 DEF RoundExact
  <2>7. QED BY <1>5, <1>6, <2>1, <2>6 DEF StartExact
<1>10. CASE mainPhase = 4
  <2>1. Current' = 1 /\ NotArrived(1)' = Members'
    BY <1>1, <1>4, <1>10 DEF Following
  <2>2. /\ latch'[1] = Cardinality(clients) + 1
        /\ latch'[2] = Cardinality(clients) + 1
    BY <1>1, <1>2, <1>10 DEF FreshExact, Phase
  <2>3. ReapOwes' = count /\ count \in Nat /\ count <= Cardinality(KilledClients')
    BY <1>1, <1>10 DEF ReapOwes, IInv, MainInv, TypeOK, CountInv
  <2>4. Owed' = Cardinality(Members') + 1 + count
    BY <1>1, <2>1, <2>3 DEF Owed
  <2>5. clients = Members' \union KilledClients' /\ Members' \cap KilledClients' = {}
    <3>1. \A q \in clients : killed'[q] => Out(q)'
      BY <1>3, <1>10 DEF Out, IInv, TypeOK
    <3>2. \A q \in clients : Out(q)' => killed'[q]
      BY DEF Out, IInv, TypeOK, ThreadInv
    <3>3. clients \subseteq Players
      BY DEF IInv, TypeOK
    <3>4. QED BY <1>7, <3>1, <3>2, <3>3 DEF Members, KilledClients
  <2>6. /\ Cardinality(clients) = Cardinality(Members') + Cardinality(KilledClients')
        /\ Cardinality(Members') \in Nat /\ Cardinality(KilledClients') \in Nat
    <3>1. IsFiniteSet(Members') /\ IsFiniteSet(KilledClients')
      BY <1>7, <2>5, FS_Subset
    <3>2. Cardinality(Members' \cap KilledClients') = 0
      BY <2>5, FS_EmptySet
    <3>3. Cardinality(clients) = Cardinality(Members') + Cardinality(KilledClients')
                                 - Cardinality(Members' \cap KilledClients')
      BY <2>5, <3>1, FS_Union
    <3>4. Cardinality(Members') \in Nat /\ Cardinality(KilledClients') \in Nat
      BY <3>1, FS_CardinalityType
    <3>5. QED BY <3>2, <3>3, <3>4
  <2>7. ASSUME ~ LostEntry' PROVE Cardinality(KilledClients') <= count
    <3>1. ~ LostEntry /\ KilledClients' = KilledClients
      BY <2>7 DEF LostEntry, Lost, KilledClients
    <3>2. QED BY <3>1, EntriesOfKilled
  <2>8. latch'[2] - (Cardinality(Members') + 1 + ReapOwes') = latch'[1] - Owed'
    BY <2>2, <2>3, <2>4
  <2>9. latch'[1] = Owed' \/ LostEntry'
    BY <2>2, <2>3, <2>4, <2>6, <2>7
  <2>10. StartExact'
    BY <2>8, <2>9 DEF StartExact
  <2>11. QED BY <1>5, <1>6, <2>1, <2>10 DEF RoundExact
<1>11. QED BY <1>1, <1>8, <1>9, <1>10 DEF Phase
\* An arrival that does not release the latch of the main thread: the counter and
\* the arrivals to come go down together.
LEMMA CountedExact ==
  ASSUME IInv, ExactInv, mainStep # "over",
         UNCHANGED <<mainPhase, reaped, slots, count, clients, killed>>,
         mainStep' # "over", mainStep' = "reap" <=> mainStep = "reap",
         Released' = Released, Members' = Members \/ Current = 4,
         latch' = [latch EXCEPT ![Current] = @ - 1],
         Cardinality(NotArrived(Current)') + MainOwes'
           = Cardinality(NotArrived(Current)) + MainOwes - 1,
         \A q \in Players : step'[q] = "wait" =>
            (step[q] = "wait" /\ phase'[q] = phase[q]) \/ phase'[q] = Current
  PROVE  ExactInv'
<1> USE DEF ExactInv
<1>1. /\ latch \in [Phase -> Int] /\ mainPhase \in Phase /\ Current \in Phase
      /\ Current' = Current /\ ReapOwes' = ReapOwes
      /\ Complete' = Complete /\ LostEntry' = LostEntry
  BY CurrentType DEF IInv, TypeOK, Current, ReapOwes, Complete, Forgotten, LostEntry, Lost
<1>2. /\ \A k \in Phase : k # Current => latch'[k] = latch[k]
      /\ latch'[Current] = latch[Current] - 1 /\ latch[Current] \in Int
  BY <1>1
<1>3. /\ Cardinality(NotArrived(Current)) \in Nat /\ MainOwes \in Int
      /\ ReapOwes \in Int
  BY Counting DEF IInv, TypeOK, MainOwes, ReapOwes
<1>4. FreshExact'
  BY <1>1, <1>2 DEF FreshExact, Current, Following, Phase
<1>5. StartExact'
  <2> SUFFICES ASSUME Current = 1 PROVE StartExact'
    BY <1>1 DEF StartExact
  <2>1. Owed' = Owed - 1 /\ Owed \in Int
    BY <1>1, <1>3 DEF Owed
  <2>2. latch'[2] = latch[2] /\ Members' = Members
    BY <1>2 DEF Phase
  <2>3. latch[2] - (Cardinality(Members) + 1 + ReapOwes) = latch[1] - Owed
        /\ (latch[1] = Owed \/ LostEntry)
    BY DEF StartExact
  <2>4. latch'[1] - Owed' = latch[1] - Owed
    BY <1>2, <2>1
  <2>5. latch'[1] = Owed' <=> latch[1] = Owed
    BY <1>2, <2>1
  <2>6. QED BY <1>1, <2>2, <2>3, <2>4, <2>5 DEF StartExact
<1>6. RoundExact'
  BY <1>1, <1>2, <1>3 DEF RoundExact
<1>7. OpenInv'
  <2>1. latch'[Preceding(Current)] = latch[Preceding(Current)]
        /\ Preceding(Current) # Current
    BY <1>1, <1>2, Cycle
  <2>2. QED BY <1>1, <2>1 DEF OpenInv
<1>8. QED BY <1>4, <1>5, <1>6, <1>7

LEMMA MainArriveExact ==
  ASSUME IInv, IInv', KillInv', ExactInv, MainArrive
  PROVE  ExactInv'
<1> USE DEF MainArrive, threadVars, vectorVars
<1>1. /\ latch \in [Phase -> Int] /\ mainPhase \in Phase
      /\ ~ Released /\ Current = mainPhase /\ latch[mainPhase] >= 1
  BY CurrentNotReleased DEF Released, Current, IInv, TypeOK
<1>2. Members' = Members /\ \A k : NotArrived(k)' = NotArrived(k)
  BY ThreadsUnchanged DEF NotArrived
<1>3. MainOwes = 1 /\ ReapOwes = 0
  BY <1>1 DEF MainOwes, ReapOwes
<1>4. CASE latch[mainPhase] = 1
  <2>1. latch' = [latch EXCEPT ![mainPhase] = 0] /\ Released'
    BY <1>1, <1>4 DEF Released
  <2>2. NotArrived(mainPhase) = {}
    <3>1. latch[mainPhase] >= Cardinality(NotArrived(mainPhase)) + MainOwes + ReapOwes
      BY <1>1 DEF IInv, CurrentInv
    <3>2. IsFiniteSet(NotArrived(mainPhase)) /\ Cardinality(NotArrived(mainPhase)) \in Nat
      BY Counting DEF IInv
    <3>3. QED BY <1>3, <1>4, <3>1, <3>2, FS_EmptySet
  <2>3. mainPhase = 1 => latch[1] = Owed
    BY <1>3, <1>4, <2>2, FS_EmptySet DEF Owed
  <2>4. QED BY <1>1, <1>2, <2>1, <2>2, <2>3, ReleaseExact
<1>5. CASE latch[mainPhase] # 1
  <2>1. ~ Released' /\ MainOwes' = 0 /\ Current' = Current
    BY <1>1, <1>5 DEF Released, MainOwes, Current
  <2>2. Cardinality(NotArrived(Current)) \in Nat
    BY Counting DEF IInv
  <2>3. Cardinality(NotArrived(Current)') + MainOwes'
          = Cardinality(NotArrived(Current)) + MainOwes - 1
    BY <1>2, <1>3, <2>1, <2>2
  <2>4. Released' = Released
    BY <1>1, <2>1 DEF Released
  <2>5. QED BY <1>1, <1>2, <2>1, <2>3, <2>4, CountedExact
<1>6. QED BY <1>4, <1>5

LEMMA ClientArriveExact ==
  ASSUME IInv, IInv', KillInv', ExactInv, NEW p \in Players, ClientArrive(p)
  PROVE  ExactInv'
<1> USE DEF ClientArrive, vectorVars, mainVars
<1>1. mainStep # "over" /\ latch \in [Phase -> Int] /\ mainPhase \in Phase
  BY DEF IInv, MainInv, TypeOK
<1>2. phase[p] = Current /\ Current \in Phase /\ latch[Current] >= 1
  <2>1. InWindow(p, Current)
    BY <1>1 DEF IInv, WindowInv
  <2>2. QED BY <1>1, <2>1, CurrentType, CurrentNotReleased DEF InWindow, Out, IInv
<1>3. /\ \A q \in Players \ {p} : phase'[q] = phase[q] /\ step'[q] = step[q]
      /\ phase'[p] = phase[p] /\ step'[p] = "wait" /\ step[p] = "arrive"
  BY DEF IInv, TypeOK
<1>4. p \in NotArrived(Current) /\ p \in Members
  BY <1>3 DEF NotArrived, Members, Out
<1>5. Current # 4 => Members' = Members
  <2> SUFFICES ASSUME Current # 4 PROVE Members' = Members
    OBVIOUS
  <2>1. ~ Out(p) /\ ~ Out(p)'
    BY <1>2, <1>3 DEF Out
  <2>2. \A q \in Players : Out(q)' <=> Out(q)
    BY <1>3, <2>1 DEF Out
  <2>3. QED BY <2>2 DEF Members
<1>6. NotArrived(phase[p])' = NotArrived(phase[p]) \ {p}
  BY <1>3 DEF NotArrived, Members, Out
<1>7. CASE ~ Released /\ mainStep = "wait" /\ latch[Current] = 1
  <2>1. Current = mainPhase
    BY <1>7 DEF Current
  <2>2. NotArrived(Current) = {p}
    BY <1>1, <1>2, <1>3, <1>7, LastArrival
  <2>3. NotArrived(mainPhase)' = {}
    BY <1>2, <1>6, <2>1, <2>2
  <2>4. latch' = [latch EXCEPT ![mainPhase] = 0] /\ Released'
    BY <1>1, <1>2, <1>7, <2>1 DEF Released
  <2>5. mainPhase = 1 => latch[1] = Owed
    <3>1. Cardinality({p}) = 1
      BY FS_Singleton
    <3>2. MainOwes = 0 /\ ReapOwes = 0
      BY <1>7 DEF MainOwes, ReapOwes
    <3>3. QED BY <1>7, <2>1, <2>2, <3>1, <3>2 DEF Owed
  <2>6. QED BY <1>5, <1>7, <2>1, <2>3, <2>4, <2>5, ReleaseExact
<1>8. CASE ~ (~ Released /\ mainStep = "wait" /\ latch[Current] = 1)
  <2>1. Released' = Released /\ Current' = Current /\ MainOwes' = MainOwes
    BY <1>1, <1>2, <1>8, Cycle DEF Released, Current, MainOwes
  <2>2. Cardinality(NotArrived(Current)') = Cardinality(NotArrived(Current)) - 1
        /\ Cardinality(NotArrived(Current)) \in Nat
    BY <1>2, <1>4, <1>6, <2>1, Counting, FS_RemoveElement DEF IInv
  <2>3. MainOwes \in Int
    BY DEF MainOwes
  <2>4. Cardinality(NotArrived(Current)') + MainOwes'
          = Cardinality(NotArrived(Current)) + MainOwes - 1
    BY <2>1, <2>2, <2>3
  <2>5. \A q \in Players : step'[q] = "wait" =>
            (step[q] = "wait" /\ phase'[q] = phase[q]) \/ phase'[q] = Current
    BY <1>2, <1>3
  <2>6. QED BY <1>1, <1>2, <1>5, <2>1, <2>4, <2>5, CountedExact
<1>9. QED BY <1>7, <1>8
LEMMA InitExact == Init => ExactInv
<1> SUFFICES ASSUME Init PROVE ExactInv
  OBVIOUS
<1> USE DEF Init
<1>1. Cardinality(Players) \in Nat
  BY PlayersAssumption, FS_CardinalityType
<1>2. ~ Released /\ Current = 1 /\ MainOwes = 1 /\ ReapOwes = 0
  BY DEF Released, Current, MainOwes, ReapOwes
<1>3. Members = Players /\ NotArrived(1) = Players
  BY DEF Members, NotArrived, Out
<1>4. Owed = Cardinality(Players) + 1
  BY <1>1, <1>2, <1>3 DEF Owed
<1>5. StartExact
  BY <1>1, <1>2, <1>3, <1>4 DEF StartExact, Phase
<1>6. QED
  BY <1>2, <1>5 DEF ExactInv, FreshExact, RoundExact, OpenInv, Phase

LEMMA NextExact ==
  IInv /\ IInv' /\ KillInv' /\ ExactInv /\ [Next]_vars => ExactInv'
<1> SUFFICES ASSUME IInv, IInv', KillInv', ExactInv, [Next]_vars PROVE ExactInv'
  OBVIOUS
<1>1. ASSUME NEW p \in Players, Spawn(p) \/ ClientThread(p) PROVE ExactInv'
  BY <1>1, ThreadExact, ClientArriveExact, EmplaceBackExact DEF ClientThread
<1>2. ASSUME NEW p \in Players, Expire(p) \/ LosePeer(p) PROVE ExactInv'
  BY <1>2, UnchangedExact DEF Expire, LosePeer, mainVars, threadVars, vectorVars
<1>3. ASSUME MainThread PROVE ExactInv'
  BY <1>1, <1>3, MainQuietExact, MainRenewExact, MainArriveExact, ReapExact,
     CheckForExitGameExact DEF MainThread
<1>4. CASE UNCHANGED vars
  BY <1>4, UnchangedExact DEF vars
<1>5. QED BY <1>1, <1>2, <1>3, <1>4 DEF Next

\* No latch is larger than the arrivals it waits for, but for what lost entries
\* leave on recvlatch and validationlatch; and nobody is left behind at a latch
\* that was renewed.
THEOREM ExactInvariance == Spec => []ExactInv
<1>1. IInv /\ KillInv /\ ExactInv /\ [Next]_vars /\ IInv' /\ KillInv' => ExactInv'
  BY NextExact
<1>2. QED BY <1>1, InitExact, Invariance, KillInvariance, PTL DEF Spec

\* Unless an entry was lost, the latch being filled is exactly as large as the
\* arrivals to come, for any number of players (MainWaitAndSynchronize and the
\* count-downs of ValidatePositionsAndKillPlayers).
THEOREM LatchesExact == Spec => []ArrivalsToCome
<1>1. IInv /\ ExactInv => ArrivalsToCome
  <2> SUFFICES ASSUME IInv, ExactInv, mainStep # "over", ~ LostEntry
               PROVE  latch[Current]
                        = Cardinality(NotArrived(Current)) + MainOwes + ReapOwes
    BY DEF ArrivalsToCome
  <2>1. CASE Current = 1
    BY <2>1 DEF ExactInv, StartExact, Owed
  <2>2. CASE Current # 1
    <3>1. Complete
      <4> SUFFICES ASSUME NEW q \in Players, Forgotten(q) PROVE Lost(q)
        BY DEF Complete, LostEntry
      <4>1. \A i \in 1 .. count : i \in Slot
        <5>1. count <= Cardinality(KilledClients) \/ mainStep = "reap"
          BY DEF IInv, CountInv
        <5>2. mainStep # "reap"
          BY <2>2 DEF Current, Released, Following, IInv, MainInv
        <5>3. /\ Cardinality(KilledClients) \in Nat /\ count \in Nat
              /\ Cardinality(KilledClients) <= Cardinality(Players)
              /\ Cardinality(Players) \in Nat /\ Cardinality(clients) \in Nat
          BY Counting, PlayersAssumption, FS_CardinalityType DEF IInv, TypeOK
        <5>4. QED BY <5>1, <5>2, <5>3 DEF Slot
      <4>2. QED BY <4>1 DEF Forgotten, Lost
    <3>2. ReapOwes = 0
      BY <2>2 DEF ReapOwes, Current, Following
    <3>3. MainOwes \in Int /\ Cardinality(NotArrived(Current)) \in Nat
      BY Counting DEF IInv, MainOwes
    <3>4. QED BY <2>2, <3>1, <3>2, <3>3 DEF ExactInv, RoundExact
  <2>3. QED BY <2>1, <2>2
<1>2. QED BY <1>1, Invariance, ExactInvariance, PTL

-----------------------------------------------------------------------------
(* Deadlock freedom, with the guards of the actions written out.           *)

\* The guards of MainThread: Spawn or EnterLoop, MainArrive; MainRenew or
\* SendKills; CheckForExitGame; Reap, which joins the thread of the client.
MainCanStep ==
  \/ mainStep \in {"spawn", "arrive"}
  \/ mainStep = "wait" /\ latch[mainPhase] = 0
  \/ mainStep = "reap" /\ reaped = count
  \/ mainStep = "reap" /\ (slots[reaped + 1] \in clients
                             => step[slots[reaped + 1]] = "ended")

\* The guards of ClientThread: ClientArrive, the phases, EmplaceBack; ClientPass
\* or ClientLoop.
ClientCanStep(p) ==
  \/ step[p] \in {"arrive", "work", "append"}
  \/ step[p] = "wait" /\ latch[phase[p]] = 0

SomeoneCanStep ==
  \/ MainCanStep
  \/ \E p \in Players : ClientCanStep(p)
  \/ mainStep = "over"
  \/ LostEntry

\* With four latches renewed on the fly and joins in between, for any number of
\* players: as long as the match is not over and no entry was lost, the main or the
\* thread of some player is not blocked (NoDeadlock, without ENABLED).
THEOREM NoThreadStuck == Spec => []SomeoneCanStep
<1>1. IInv /\ KillInv /\ ExactInv /\ ArrivalsToCome => SomeoneCanStep
  <2> SUFFICES ASSUME IInv, KillInv, ExactInv, ArrivalsToCome, ~ MainCanStep,
                      \A p \in Players : ~ ClientCanStep(p),
                      mainStep # "over", ~ LostEntry
               PROVE  FALSE
    BY DEF SomeoneCanStep
  <2>1. mainStep \in {"wait", "reap"}
    BY DEF MainCanStep, IInv, TypeOK
  <2>2. ASSUME NEW p \in Players PROVE Out(p) \/ (phase[p] = Current /\ step[p] = "wait")
    <3>1. InWindow(p, Current)
      BY DEF IInv, WindowInv
    <3>2. step[p] \notin {"unborn", "arrive", "work", "append"}
      BY <2>1 DEF ClientCanStep, IInv, ThreadInv
    <3>3. ~ (phase[p] = Preceding(Current) /\ step[p] = "wait")
      BY DEF ExactInv, OpenInv, ClientCanStep
    <3>4. QED BY <3>1, <3>2, <3>3 DEF InWindow
  <2>3. Cardinality(NotArrived(Current)) = 0
    <3>1. NotArrived(Current) = {}
      BY <2>2 DEF NotArrived, Members
    <3>2. QED BY <3>1, FS_EmptySet
  <2>4. CASE mainStep = "wait"
    <3>1. ~ Released /\ Current = mainPhase /\ latch[mainPhase] # 0
      BY <2>4 DEF MainCanStep, Released, Current
    <3>2. MainOwes = 0 /\ ReapOwes = 0
      BY <2>4, <3>1 DEF MainOwes, ReapOwes
    <3>3. QED BY <2>3, <3>1, <3>2 DEF ArrivalsToCome
  <2>5. CASE mainStep = "reap"
    <3>1. reaped + 1 \in 1 .. count /\ Current = 1
      BY <2>5 DEF MainCanStep, IInv, TypeOK, MainInv, Current, Released, Following
    <3>2. PICK v \in Players : v = slots[reaped + 1] /\ v \in clients /\ step[v] # "ended"
      BY <2>5 DEF MainCanStep, IInv, TypeOK
    <3>3. killed[v]
      BY <3>1, <3>2, EntriesStored DEF KillInv, OnceNamed
    <3>4. phase[v] # 1
      BY <3>3 DEF IInv, ThreadInv
    <3>5. phase[v] = 4 /\ step[v] = "wait"
      BY <2>2, <3>1, <3>2, <3>4 DEF Out
    <3>6. latch[4] = 0
      BY <3>1, <3>5 DEF ExactInv, OpenInv, Preceding
    <3>7. QED BY <3>5, <3>6 DEF ClientCanStep
  <2>6. QED BY <2>1, <2>4, <2>5
<1>2. QED BY <1>1, Invariance, KillInvariance, ExactInvariance, LatchesExact, PTL
=============================================================================
