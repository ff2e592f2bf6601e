--------------------------- MODULE GameMainProofs ---------------------------
(***************************************************************************)
(* For every set of players: the types of GameMain, its inductive          *)
(* invariant, and what follows from it about the phases.                   *)
(***************************************************************************)
EXTENDS GameMain, FiniteSetTheorems, TLAPS

\* The sets of players that are counted are finite, with these bounds.
LEMMA Counting ==
  ASSUME TypeOK, ThreadInv
  PROVE  /\ IsFiniteSet(clients) /\ Cardinality(clients) \in Nat
         /\ IsFiniteSet(Members) /\ Cardinality(Members) \in Nat
         /\ IsFiniteSet(KilledClients) /\ Cardinality(KilledClients) \in Nat
         /\ \A k : IsFiniteSet(NotArrived(k)) /\ Cardinality(NotArrived(k)) \in Nat
         /\ \A k : Cardinality(NotArrived(k)) <= Cardinality(Members)
         /\ Cardinality(Members) <= Cardinality(clients)
         /\ Cardinality(KilledClients) <= Cardinality(clients)
         /\ Cardinality(clients) <= Cardinality(Players)
<1>1. IsFiniteSet(clients) /\ Cardinality(clients) <= Cardinality(Players)
  BY PlayersAssumption, FS_Subset DEF TypeOK
<1>2. Members \subseteq clients
  BY DEF Members, ThreadInv, Out
<1>3. IsFiniteSet(Members) /\ Cardinality(Members) <= Cardinality(clients)
  BY <1>1, <1>2, FS_Subset
<1>4. KilledClients \subseteq clients
  BY DEF KilledClients
<1>5. IsFiniteSet(KilledClients) /\ Cardinality(KilledClients) <= Cardinality(clients)
  BY <1>1, <1>4, FS_Subset
<1>6. ASSUME NEW k
      PROVE  /\ IsFiniteSet(NotArrived(k))
             /\ Cardinality(NotArrived(k)) <= Cardinality(Members)
  <2>1. NotArrived(k) \subseteq Members
    BY DEF NotArrived
  <2>2. QED BY <1>3, <2>1, FS_Subset
<1>7. QED BY <1>1, <1>3, <1>5, <1>6, FS_CardinalityType

\* The latches form a cycle of four.
LEMMA Cycle ==
  ASSUME NEW k \in Phase
  PROVE  /\ Following(k) \in Phase /\ Preceding(k) \in Phase
         /\ Following(k) # k /\ Preceding(k) # k
         /\ Preceding(Following(k)) = k /\ Following(Preceding(k)) = k
         /\ Preceding(k) # Following(k)
BY DEF Phase, Following, Preceding

LEMMA CurrentType ==
  ASSUME TypeOK
  PROVE  Current \in Phase
BY Cycle DEF TypeOK, Current

\* The latch being filled has not been released.
LEMMA CurrentNotReleased ==
  ASSUME IInv, mainStep # "over"
  PROVE  latch[Current] >= 1
<1>1. Cardinality(NotArrived(Current)) \in Nat
  BY Counting DEF IInv
<1>2. latch[Current] \in Int
  BY CurrentType DEF IInv, TypeOK
<1>3. ReapOwes \in Nat
  BY DEF IInv, TypeOK, ReapOwes
<1>4. latch[Current] >= Cardinality(NotArrived(Current)) + MainOwes + ReapOwes
  BY DEF IInv, CurrentInv
<1>5. CASE MainOwes = 1
  BY <1>1, <1>2, <1>3, <1>4, <1>5
<1>6. CASE mainStep = "wait" /\ ~Released
  <2>1. Current = mainPhase /\ latch[mainPhase] # 0 /\ MainOwes = 0
    BY <1>6 DEF Current, Released, MainOwes
  <2>2. QED BY <1>1, <1>2, <1>3, <1>4, <2>1
<1>7. QED BY <1>5, <1>6 DEF MainOwes

\* So a thread that gets past a latch was waiting at the one before it.
LEMMA PassedIsPreceding ==
  ASSUME IInv, NEW p \in Players, step[p] = "wait", latch[phase[p]] = 0
  PROVE  /\ mainStep # "over"
         /\ phase[p] # Current
         /\ ~Out(p) => phase[p] = Preceding(Current)
<1>1. mainStep # "over"
  BY DEF IInv, MainInv
<1>2. phase[p] # Current
  BY <1>1, CurrentNotReleased
<1>3. InWindow(p, Current)
  BY <1>1 DEF IInv, WindowInv
<1>4. QED BY <1>1, <1>2, <1>3 DEF InWindow

\* Two disjoint parts of a finite set are together no larger than the set.
LEMMA DisjointParts ==
  ASSUME NEW C, IsFiniteSet(C), NEW M, NEW K, M \subseteq C, K \subseteq C,
         M \cap K = {}
  PROVE  Cardinality(M) + Cardinality(K) <= Cardinality(C)
<1>1. IsFiniteSet(M) /\ IsFiniteSet(K)
  BY FS_Subset
<1>2. Cardinality(M \union K) = Cardinality(M) + Cardinality(K) - Cardinality(M \cap K)
  BY <1>1, FS_Union
<1>3. Cardinality(M \cap K) = 0
  BY FS_EmptySet
<1>4. IsFiniteSet(M \union K) /\ Cardinality(M \union K) <= Cardinality(C)
  BY FS_Subset
<1>5. /\ Cardinality(M) \in Nat /\ Cardinality(K) \in Nat
      /\ Cardinality(M \union K) \in Nat /\ Cardinality(C) \in Nat
  BY <1>1, <1>4, FS_CardinalityType
<1>6. QED BY <1>2, <1>3, <1>4, <1>5

-----------------------------------------------------------------------------
(* The last arrival at the latch of the main thread releases it.  From then  *)
(* on the next latch is the one being filled; if the latch was cleanlatch,   *)
(* the entries of "invalid" fit into what the removed players will not do.   *)

LEMMA ReleaseStep ==
  ASSUME IInv, TypeOK', ThreadInv', CountInv',
         ~Released, mainStep \in {"arrive", "wait"}, mainStep' = "wait",
         UNCHANGED <<mainPhase, reaped, clients, count>>,
         latch' = [latch EXCEPT ![mainPhase] = 0],
         \A q \in Players : InWindow(q, mainPhase)',
         NotArrived(mainPhase)' = {},
         Members' \subseteq Members
  PROVE  WindowInv' /\ CurrentInv' /\ FreshInv' /\ ReapInv' /\ LatchPrecondition'
<1> USE DEF IInv
<1>1. mainPhase \in Phase /\ latch \in [Phase -> Int] /\ mainPhase' = mainPhase
  BY DEF TypeOK
<1>2. Released' /\ Current' = Following(mainPhase)
  BY <1>1 DEF Released, Current
<1>3. \A q \in Players : Out(q)' \/ (phase'[q] = mainPhase /\ step'[q] = "wait")
  BY DEF NotArrived, Members
<1>4. WindowInv'
  BY <1>1, <1>2, <1>3, Cycle DEF WindowInv, InWindow
<1>5. /\ IsFiniteSet(Members) /\ Cardinality(Members) \in Nat
      /\ Cardinality(clients) \in Nat /\ Cardinality(Members) <= Cardinality(clients)
      /\ IsFiniteSet(clients)
  BY Counting
<1>6. /\ IsFiniteSet(Members') /\ Cardinality(Members') \in Nat
      /\ Cardinality(Members') <= Cardinality(Members)
  BY <1>5, FS_Subset, FS_CardinalityType
<1>7. /\ Cardinality(NotArrived(Current)') \in Nat
      /\ Cardinality(NotArrived(Current)') <= Cardinality(Members')
  <2>1. NotArrived(Current)' \subseteq Members'
    BY DEF NotArrived
  <2>2. QED BY <1>6, <2>1, FS_Subset, FS_CardinalityType
<1>8. CurrentInv'
  <2>1. MainOwes' = 1
    BY <1>2 DEF MainOwes
  <2>2. CASE mainPhase # 4
    <3>1. ReapOwes' = 0
      BY <2>2 DEF ReapOwes
    <3>2. latch'[Following(mainPhase)] >= Cardinality(Members) + 1
      BY <1>1, <1>5, <2>2 DEF FreshInv, Following, Phase
    <3>3. latch'[Following(mainPhase)] \in Int
      BY <1>1, Cycle DEF TypeOK
    <3>4. QED BY <1>2, <1>5, <1>6, <1>7, <2>1, <3>1, <3>2, <3>3 DEF CurrentInv
  <2>3. CASE mainPhase = 4
    <3>1. Members' \cap KilledClients' = {}
      BY <1>3, <2>3 DEF Members, KilledClients, Out, ThreadInv, TypeOK
    <3>2. Members' \subseteq clients /\ KilledClients' \subseteq clients
      BY DEF Members, KilledClients, ThreadInv, Out
    <3>3. Cardinality(Members') + Cardinality(KilledClients') <= Cardinality(clients)
      BY <1>5, <3>1, <3>2, DisjointParts
    <3>4. IsFiniteSet(KilledClients') /\ Cardinality(KilledClients') \in Nat
      BY <1>5, <3>2, FS_Subset, FS_CardinalityType
    <3>5. count' <= Cardinality(KilledClients') /\ count' \in Nat
      BY DEF CountInv, TypeOK
    <3>6. ReapOwes' = count'
      BY <1>2, <2>3, <3>5 DEF ReapOwes, MainInv, TypeOK
    <3>7. latch'[1] >= Cardinality(clients) + 1 /\ latch'[1] \in Int
      BY <1>1, <2>3 DEF FreshInv, Phase
    <3>8. Current' = 1
      BY <1>2, <2>3 DEF Following
    <3>9. QED BY <1>5, <1>6, <1>7, <2>1, <3>3, <3>4, <3>5, <3>6, <3>7, <3>8
            DEF CurrentInv
  <2>4. QED BY <2>2, <2>3
<1>9. FreshInv'
  BY <1>1, <1>2 DEF FreshInv, Phase
<1>10. ReapInv' /\ LatchPrecondition'
  BY <1>1 DEF ReapInv, LatchPrecondition
<1>11. QED BY <1>4, <1>8, <1>9, <1>10

-----------------------------------------------------------------------------
(* A step that leaves the latches and the main thread alone, and by which no *)
(* thread owes more arrivals than before, keeps the counters large enough.   *)

LEMMA QuietStep ==
  ASSUME IInv, TypeOK', ThreadInv',
         UNCHANGED <<latch, mainPhase, mainStep, reaped, clients>>,
         ReapOwes' = ReapOwes, mainStep = "reap" => count' = count,
         Members' \subseteq Members,
         NotArrived(Current)' \subseteq NotArrived(Current)
  PROVE  /\ Current' = Current
         /\ CurrentInv' /\ FreshInv' /\ ReapInv' /\ LatchPrecondition'
<1> USE DEF IInv
<1>1. Released' = Released /\ Current' = Current /\ MainOwes' = MainOwes
  BY DEF Released, Current, MainOwes
<1>2. Current \in Phase /\ latch \in [Phase -> Int] /\ mainPhase \in Phase
  BY CurrentType DEF TypeOK
<1>3. /\ Cardinality(Members') <= Cardinality(Members)
      /\ Cardinality(Members') \in Nat /\ Cardinality(Members) \in Nat
  BY Counting, FS_Subset, FS_CardinalityType
<1>4. /\ Cardinality(NotArrived(Current)') <= Cardinality(NotArrived(Current))
      /\ Cardinality(NotArrived(Current)') \in Nat
      /\ Cardinality(NotArrived(Current)) \in Nat
  BY Counting, FS_Subset, FS_CardinalityType
<1>5. CurrentInv'
  <2>1. MainOwes \in Int /\ ReapOwes \in Int
    BY DEF MainOwes, ReapOwes, TypeOK
  <2>2. QED BY <1>1, <1>2, <1>4, <2>1 DEF CurrentInv
<1>6. FreshInv'
  BY <1>1, <1>2, <1>3 DEF FreshInv, Phase
<1>7. ReapInv'
  BY <1>2, <1>3 DEF ReapInv, TypeOK, Phase
<1>8. LatchPrecondition'
  BY DEF LatchPrecondition
<1>9. QED BY <1>1, <1>5, <1>6, <1>7, <1>8

\* A thread that is not waiting at the current latch cannot add to what is owed.
LEMMA StillOwed ==
  ASSUME NEW p \in Players, Current' = Current, Members' \subseteq Members,
         \A q \in Players \ {p} : phase'[q] = phase[q] /\ step'[q] = step[q],
         phase[p] # Current \/ step[p] # "wait"
  PROVE  NotArrived(Current)' \subseteq NotArrived(Current)
<1> SUFFICES ASSUME NEW q \in NotArrived(Current)'
             PROVE  q \in NotArrived(Current)
  OBVIOUS
<1>1. /\ q \in Members /\ q \in Players
      /\ ~(phase'[q] = Current /\ step'[q] = "wait")
  BY DEF NotArrived, Members
<1>2. QED BY <1>1 DEF NotArrived

\* The other conjuncts, of a step that leaves "invalid" alone as well.
LEMMA QuietThreads ==
  ASSUME IInv, TypeOK', ThreadInv', Current' = Current,
         UNCHANGED <<mainPhase, mainStep, reaped, count, clients, killed>>,
         mainStep # "over",
         NEW p \in Players,
         \A q \in Players \ {p} : phase'[q] = phase[q] /\ step'[q] = step[q] /\ seen'[q] = seen[q],
         InWindow(p, Current)',
         step'[p] = "append" => seen'[p] = count
  PROVE  MainInv' /\ WindowInv' /\ CountInv'
<1> USE DEF IInv
<1>1. MainInv'
  BY DEF MainInv
<1>2. WindowInv'
  BY DEF WindowInv, InWindow, Out
<1>3. CountInv'
  <2>1. KilledClients' = KilledClients
    BY DEF KilledClients
  <2>2. QED BY <2>1 DEF CountInv
<1>4. QED BY <1>1, <1>2, <1>3

LEMMA ClientPassStep ==
  ASSUME IInv, NEW p \in Players, ClientPass(p)
  PROVE  IInv'
<1> USE DEF ClientPass, vectorVars, mainVars
<1>1. TypeOK' /\ ThreadInv'
  BY DEF IInv, TypeOK, ThreadInv
<1>2. mainStep # "over" /\ phase[p] = Preceding(Current) /\ phase[p] # Current
  BY PassedIsPreceding DEF Out, IInv, TypeOK
<1>3. /\ Current' = Current /\ ReapOwes' = ReapOwes
      /\ Members' \subseteq Members
      /\ NotArrived(Current)' \subseteq NotArrived(Current)
  <2>1. Current' = Current /\ Released' = Released /\ ReapOwes' = ReapOwes
    BY DEF Current, Released, ReapOwes
  <2>2. Members' \subseteq Members
    BY DEF Members, Out, IInv, TypeOK
  <2>3. NotArrived(Current)' \subseteq NotArrived(Current)
    BY <1>2, <2>1, <2>2, StillOwed DEF IInv, TypeOK
  <2>4. QED BY <2>1, <2>2, <2>3
<1>4. CurrentInv' /\ FreshInv' /\ ReapInv' /\ LatchPrecondition'
  BY <1>1, <1>3, QuietStep
<1>5. InWindow(p, Current)' /\ step'[p] = "work"
  BY <1>2, <1>3 DEF InWindow, IInv, TypeOK
<1>6. MainInv' /\ WindowInv' /\ CountInv'
  BY <1>1, <1>2, <1>3, <1>5, QuietThreads DEF IInv, TypeOK
<1>7. QED BY <1>1, <1>4, <1>6 DEF IInv

\* After cleanlatch: the next round, or the end of the thread.
LEMMA ClientLoopStep ==
  ASSUME IInv, NEW p \in Players, ClientLoop(p)
  PROVE  IInv'
<1> USE DEF ClientLoop, Done, vectorVars, mainVars
<1>1. TypeOK'
  BY Cycle DEF IInv, TypeOK
<1>2. ThreadInv'
  BY DEF IInv, TypeOK, ThreadInv, Following
<1>3. mainStep # "over" /\ phase[p] # Current
  BY PassedIsPreceding
<1>4. ~killed[p] => phase[p] = Preceding(Current) /\ Current = 1
  BY PassedIsPreceding, CurrentType DEF Out, IInv, TypeOK, Phase, Preceding
<1>5. Current' = Current /\ Released' = Released /\ ReapOwes' = ReapOwes
  BY DEF Current, Released, ReapOwes
<1>6. Members' \subseteq Members
  BY DEF Members, Out, IInv, TypeOK
<1>7. NotArrived(Current)' \subseteq NotArrived(Current)
  <2>1. \A q \in Players \ {p} : phase'[q] = phase[q] /\ step'[q] = step[q]
    BY DEF IInv, TypeOK
  <2>2. QED BY <1>3, <1>5, <1>6, <2>1, StillOwed
<1>8. CurrentInv' /\ FreshInv' /\ ReapInv' /\ LatchPrecondition'
  BY <1>1, <1>2, <1>5, <1>6, <1>7, QuietStep
<1>9. InWindow(p, Current)' /\ step'[p] # "append"
  BY <1>4, <1>5 DEF InWindow, Out, IInv, TypeOK, Following
<1>10. MainInv' /\ WindowInv' /\ CountInv'
  BY <1>1, <1>2, <1>3, <1>5, <1>9, QuietThreads DEF IInv, TypeOK
<1>11. QED BY <1>1, <1>2, <1>8, <1>10 DEF IInv

\* The body of a phase: it ends, or finds that the player has to be killed.
LEMMA WorkStep ==
  ASSUME IInv, NEW p \in Players, step[p] = "work", TypeOK',
         UNCHANGED <<latch, killed, vectorVars, mainVars>>,
         \/ Kill(p) /\ ~killed[p]
         \/ Done(p) /\ UNCHANGED seen
  PROVE  IInv'
<1> USE DEF Done, Kill, vectorVars, mainVars
<1>1. mainStep # "over" /\ phase[p] # 4
  BY DEF IInv, MainInv, ThreadInv
<1>2. phase[p] = Preceding(Current) /\ phase[p] # Current
  <2>1. InWindow(p, Current)
    BY <1>1 DEF IInv, WindowInv
  <2>2. phase[p] = Preceding(Current)
    BY <2>1 DEF InWindow, Out
  <2>3. QED BY <2>2, CurrentType, Cycle DEF IInv
<1>3. ThreadInv'
  BY <1>1 DEF IInv, TypeOK, ThreadInv, Following, Phase
<1>4. Current' = Current /\ Released' = Released /\ ReapOwes' = ReapOwes
  BY DEF Current, Released, ReapOwes
<1>5. Members' \subseteq Members
  BY DEF Members, Out, IInv, TypeOK
<1>6. NotArrived(Current)' \subseteq NotArrived(Current)
  <2>1. \A q \in Players \ {p} : phase'[q] = phase[q] /\ step'[q] = step[q]
    BY DEF IInv, TypeOK
  <2>2. QED BY <1>2, <1>4, <1>5, <2>1, StillOwed
<1>7. CurrentInv' /\ FreshInv' /\ ReapInv' /\ LatchPrecondition'
  BY <1>3, <1>4, <1>5, <1>6, QuietStep
<1>8. InWindow(p, Current)'
  BY <1>2, <1>4, CurrentType, Cycle DEF InWindow, IInv, TypeOK
<1>9. MainInv' /\ WindowInv' /\ CountInv'
  <2>1. step'[p] = "append" => seen'[p] = count
    BY DEF IInv, TypeOK
  <2>2. QED BY <1>1, <1>3, <1>4, <1>8, <2>1, QuietThreads DEF IInv, TypeOK
<1>10. QED BY <1>3, <1>7, <1>9 DEF IInv

\* A step cannot both begin an append and go on to the next latch.
LEMMA KillIsNotDone ==
  ASSUME TypeOK, NEW p \in Players
  PROVE  ~(Kill(p) /\ Done(p))
BY DEF TypeOK, Kill, Done

LEMMA PhasesStep ==
  ASSUME IInv, NEW p \in Players,
         PhaseGetPlayerUpdate(p) \/ PhaseValidatePlayer(p) \/ PhaseSendPlayerUpdate(p)
  PROVE  IInv'
<1>1. step[p] = "work" /\ (phase[p] = 1 => ~killed[p])
  BY DEF IInv, ThreadInv, PhaseGetPlayerUpdate, PhaseValidatePlayer, PhaseSendPlayerUpdate
<1>2. UNCHANGED <<latch, killed, vectorVars, mainVars, peer>>
  BY DEF PhaseGetPlayerUpdate, PhaseValidatePlayer, PhaseSendPlayerUpdate
<1>3. Kill(p) \/ (Done(p) /\ UNCHANGED seen)
  BY DEF PhaseGetPlayerUpdate, PhaseValidatePlayer, PhaseSendPlayerUpdate
<1>4. Kill(p) => ~killed[p]
  <2>1. CASE PhaseGetPlayerUpdate(p)
    BY <1>1, <2>1 DEF PhaseGetPlayerUpdate
  <2>2. CASE PhaseValidatePlayer(p)
    BY <2>2, KillIsNotDone DEF PhaseValidatePlayer, IInv
  <2>3. CASE PhaseSendPlayerUpdate(p)
    BY <2>3, KillIsNotDone DEF PhaseSendPlayerUpdate, IInv
  <2>4. QED BY <2>1, <2>2, <2>3
<1>5. /\ phase' \in [Players -> Phase]
      /\ step' \in [Players -> {"unborn", "arrive", "wait", "work", "append", "ended"}]
  <2>1. Following(phase[p]) \in Phase
    BY Cycle DEF IInv, TypeOK
  <2>2. QED BY <1>3, <2>1 DEF Kill, Done, IInv, TypeOK
<1>6. seen' \in [Players -> Nat]
  BY <1>3 DEF Kill, IInv, TypeOK
<1>7. expired' \in [Players -> BOOLEAN]
  <2>1. expired' = expired \/ expired' = [expired EXCEPT ![p] = FALSE]
    BY DEF PhaseGetPlayerUpdate, PhaseValidatePlayer, PhaseSendPlayerUpdate, Kill
  <2>2. QED BY <2>1 DEF IInv, TypeOK
<1>8. TypeOK'
  BY <1>2, <1>5, <1>6, <1>7 DEF IInv, TypeOK, vectorVars, mainVars
<1>9. QED BY <1>1, <1>2, <1>3, <1>4, <1>8, WorkStep

\* An append adds at most one entry, and one killed client.
LEMMA EmplaceBackStep ==
  ASSUME IInv, NEW p \in Players, EmplaceBack(p)
  PROVE  IInv'
<1> USE DEF EmplaceBack, Done, mainVars
<1>1. mainStep # "over" /\ phase[p] # 4 /\ p \in clients /\ ~killed[p]
  BY DEF IInv, MainInv, ThreadInv
<1>2. phase[p] = Preceding(Current) /\ phase[p] # Current
  <2>1. InWindow(p, Current)
    BY <1>1 DEF IInv, WindowInv
  <2>2. phase[p] = Preceding(Current)
    BY <2>1 DEF InWindow, Out
  <2>3. QED BY <2>2, CurrentType, Cycle DEF IInv
<1>3. ~(mainPhase = 4 /\ Released) /\ mainStep # "reap"
  BY <1>1, <1>2 DEF Current, Following, Preceding, Released, IInv, MainInv
<1>4. TypeOK'
  <2>1. reaped = 0
    BY <1>3 DEF IInv, MainInv
  <2>2. count' \in Nat /\ reaped' \in 0 .. count'
    BY <2>1 DEF IInv, TypeOK
  <2>3. slots' \in [Slot -> Players \union {NoPlayer}]
    BY DEF IInv, TypeOK
  <2>4. QED BY <2>2, <2>3, Cycle DEF IInv, TypeOK
<1>5. ThreadInv'
  BY <1>1 DEF IInv, TypeOK, ThreadInv, Following, Phase
<1>6. Current' = Current /\ Released' = Released /\ ReapOwes' = ReapOwes
  BY <1>3 DEF Current, Released, ReapOwes
<1>7. Members' \subseteq Members
  BY <1>1 DEF Members, Out, IInv, TypeOK
<1>8. NotArrived(Current)' \subseteq NotArrived(Current)
  <2>1. \A q \in Players \ {p} : phase'[q] = phase[q] /\ step'[q] = step[q]
    BY DEF IInv, TypeOK
  <2>2. QED BY <1>2, <1>6, <1>7, <2>1, StillOwed
<1>9. CurrentInv' /\ FreshInv' /\ ReapInv' /\ LatchPrecondition'
  BY <1>3, <1>4, <1>5, <1>6, <1>7, <1>8, QuietStep
<1>10. MainInv'
  BY DEF IInv, MainInv
<1>11. WindowInv'
  BY <1>2, <1>6, CurrentType, Cycle DEF WindowInv, InWindow, Out, IInv, TypeOK
<1>12. CountInv'
  <2>1. KilledClients' = KilledClients \union {p} /\ p \notin KilledClients
    BY <1>1 DEF KilledClients, IInv, TypeOK
  <2>2. /\ Cardinality(KilledClients') = Cardinality(KilledClients) + 1
        /\ Cardinality(KilledClients) \in Nat
    BY <2>1, FS_AddElement, Counting DEF IInv
  <2>3. /\ count <= Cardinality(KilledClients)
        /\ \A q \in Players : step[q] = "append" => seen[q] <= Cardinality(KilledClients)
    BY <1>3 DEF IInv, CountInv
  <2>4. count' <= Cardinality(KilledClients')
    BY <2>2, <2>3 DEF IInv, TypeOK
  <2>5. \A q \in Players : step'[q] = "append" => seen'[q] <= Cardinality(KilledClients')
    BY <2>2, <2>3 DEF IInv, TypeOK
  <2>6. QED BY <2>4, <2>5 DEF CountInv
<1>13. QED BY <1>4, <1>5, <1>9, <1>10, <1>11, <1>12 DEF IInv

\* The arrival that takes the latch of the waiting main thread to zero is the
\* last one owed.
LEMMA LastArrival ==
  ASSUME IInv, mainStep = "wait", ~Released, latch[Current] = 1,
         NEW p \in Players, step[p] = "arrive", phase[p] = Current
  PROVE  NotArrived(Current) = {p}
<1>1. p \in NotArrived(Current)
  BY DEF NotArrived, Members, Out
<1>2. IsFiniteSet(NotArrived(Current)) /\ Cardinality(NotArrived(Current)) \in Nat
  BY Counting DEF IInv
<1>3. Cardinality(NotArrived(Current)) <= 1
  <2>1. MainOwes = 0 /\ ReapOwes = 0
    BY DEF MainOwes, ReapOwes
  <2>2. latch[Current] >= Cardinality(NotArrived(Current)) + MainOwes + ReapOwes
    BY DEF IInv, CurrentInv
  <2>3. QED BY <1>2, <2>1, <2>2
<1>4. Cardinality({p}) = 1
  BY FS_Singleton
<1>5. QED BY <1>1, <1>2, <1>3, <1>4, FS_Subset

\* An arrival of a thread: one less on the latch, and one less owed.
LEMMA ClientArriveStep ==
  ASSUME IInv, NEW p \in Players, ClientArrive(p)
  PROVE  IInv'
<1> USE DEF ClientArrive, vectorVars, mainVars
<1>1. mainStep # "over" /\ latch \in [Phase -> Int] /\ mainPhase \in Phase
  BY DEF IInv, MainInv, TypeOK
<1>2. phase[p] = Current /\ Current \in Phase /\ latch[Current] >= 1
  <2>1. InWindow(p, Current)
    BY <1>1 DEF IInv, WindowInv
  <2>2. QED BY <1>1, <2>1, CurrentType, CurrentNotReleased DEF InWindow, Out, IInv
<1>3. TypeOK' /\ ThreadInv' /\ MainInv'
  BY <1>1, <1>2 DEF IInv, TypeOK, ThreadInv, MainInv
<1>4. CountInv'
  <2>1. KilledClients' = KilledClients
    BY DEF KilledClients
  <2>2. QED BY <2>1 DEF IInv, TypeOK, CountInv
<1>5. Members' \subseteq Members /\ p \in NotArrived(Current)
  <2>1. Members' \subseteq Members
    BY DEF Members, Out, IInv, TypeOK
  <2>2. QED BY <2>1 DEF NotArrived, Members, Out
<1>6. \A q \in Players : InWindow(q, Current) => InWindow(q, phase[p])'
  BY <1>2 DEF InWindow, Out, IInv, TypeOK
<1>7. \A q \in Players : InWindow(q, Current)
  BY <1>1 DEF IInv, WindowInv
<1>8. CASE ~Released /\ mainStep = "wait" /\ latch[Current] = 1
  <2>1. Current = mainPhase
    BY <1>8 DEF Current
  <2>3. NotArrived(Current) = {p}
    BY <1>1, <1>2, <1>8, LastArrival
  <2>4. NotArrived(mainPhase)' = {}
    <3>1. \A q \in Players \ {p} : phase'[q] = phase[q] /\ step'[q] = step[q]
      BY DEF IInv, TypeOK
    <3>2. step'[p] = "wait" /\ phase'[p] = mainPhase
      BY <1>2, <2>1 DEF IInv, TypeOK
    <3>3. QED BY <1>5, <2>1, <2>3, <3>1, <3>2 DEF NotArrived, Members
  <2>5. latch' = [latch EXCEPT ![mainPhase] = 0]
    BY <1>1, <1>2, <1>8, <2>1
  <2>6. \A q \in Players : InWindow(q, mainPhase)'
    BY <1>2, <1>6, <1>7, <2>1
  <2>7. WindowInv' /\ CurrentInv' /\ FreshInv' /\ ReapInv' /\ LatchPrecondition'
    BY <1>3, <1>4, <1>5, <1>8, <2>4, <2>5, <2>6, ReleaseStep DEF IInv
  <2>8. QED BY <1>3, <1>4, <2>7 DEF IInv
<1>9. CASE ~(~Released /\ mainStep = "wait" /\ latch[Current] = 1)
  <2>1. Released' = Released /\ Current' = Current
    BY <1>1, <1>2, <1>9, Cycle DEF Released, Current
  <2>2. WindowInv'
    BY <1>2, <1>6, <1>7, <2>1 DEF WindowInv, InWindow
  <2>3. CurrentInv'
    <3>1. NotArrived(Current)' \subseteq NotArrived(Current) \ {p}
      BY <1>2, <1>5, <2>1 DEF NotArrived, IInv, TypeOK
    <3>2. /\ IsFiniteSet(NotArrived(Current) \ {p})
          /\ Cardinality(NotArrived(Current) \ {p}) = Cardinality(NotArrived(Current)) - 1
          /\ Cardinality(NotArrived(Current)) \in Nat
      BY <1>5, Counting, FS_RemoveElement DEF IInv
    <3>3. /\ Cardinality(NotArrived(Current)') \in Nat
          /\ Cardinality(NotArrived(Current)') <= Cardinality(NotArrived(Current)) - 1
      BY <3>1, <3>2, FS_Subset, FS_CardinalityType
    <3>4. MainOwes' = MainOwes /\ ReapOwes' = ReapOwes
      BY <2>1 DEF MainOwes, ReapOwes
    <3>5. MainOwes \in Int /\ ReapOwes \in Int
      BY DEF MainOwes, ReapOwes, IInv, TypeOK
    <3>6. latch'[Current] = latch[Current] - 1
      BY <1>1, <1>2
    <3>7. QED BY <1>1, <1>2, <2>1, <3>2, <3>3, <3>4, <3>5, <3>6 DEF IInv, CurrentInv
  <2>4. /\ IsFiniteSet(Members) /\ Cardinality(Members) \in Nat
        /\ Cardinality(Members') \in Nat /\ Cardinality(Members') <= Cardinality(Members)
    BY <1>5, Counting, FS_Subset, FS_CardinalityType DEF IInv
  <2>5. \A k \in Phase : k # Current => latch'[k] = latch[k]
    BY <1>1, <1>2
  <2>6. FreshInv'
    BY <1>1, <2>1, <2>4, <2>5 DEF IInv, FreshInv, Phase, Current, Following, Released
  <2>7. ReapInv'
    BY <1>1, <2>4, <2>5 DEF IInv, ReapInv, Phase, Current, Following, Released, MainInv, TypeOK
  <2>8. LatchPrecondition'
    BY <1>1, <1>2, <2>5 DEF IInv, LatchPrecondition
  <2>9. QED BY <1>3, <1>4, <2>2, <2>3, <2>6, <2>7, <2>8 DEF IInv
<1>10. QED BY <1>8, <1>9

\* The creation of a thread, the passing of time, the loss of a connection.
LEMMA SpawnStep ==
  ASSUME IInv, NEW p \in Players, Spawn(p)
  PROVE  IInv'
<1> USE DEF Spawn, vectorVars, mainVars
<1>1. TypeOK' /\ ThreadInv'
  BY DEF IInv, TypeOK, ThreadInv
<1>2. Current' = Current /\ Released' = Released /\ ReapOwes' = ReapOwes
  BY DEF Current, Released, ReapOwes
<1>3. Members' \subseteq Members
  BY DEF Members, Out, IInv, TypeOK
<1>4. NotArrived(Current)' \subseteq NotArrived(Current)
  <2>1. \A q \in Players \ {p} : phase'[q] = phase[q] /\ step'[q] = step[q]
    BY DEF IInv, TypeOK
  <2>2. QED BY <1>2, <1>3, <2>1, StillOwed
<1>5. CurrentInv' /\ FreshInv' /\ ReapInv' /\ LatchPrecondition'
  BY <1>1, <1>2, <1>3, <1>4, QuietStep
<1>6. InWindow(p, Current)' /\ step'[p] # "append"
  BY <1>2 DEF InWindow, Out, IInv, WindowInv, TypeOK
<1>7. MainInv' /\ WindowInv' /\ CountInv'
  BY <1>1, <1>2, <1>6, QuietThreads DEF IInv, TypeOK
<1>8. QED BY <1>1, <1>5, <1>7 DEF IInv

LEMMA EnvironmentStep ==
  ASSUME IInv, NEW p \in Players, Expire(p) \/ LosePeer(p)
  PROVE  IInv'
<1> USE DEF threadVars, vectorVars, mainVars
<1>1. TypeOK'
  <2>1. CASE Expire(p)
    BY <2>1 DEF Expire, IInv, TypeOK
  <2>2. CASE LosePeer(p)
    BY <2>2 DEF LosePeer, IInv, TypeOK, PeerState
  <2>3. QED BY <2>1, <2>2
<1>2. UNCHANGED <<latch, mainPhase, mainStep, phase, step, killed, seen, count,
                  reaped, clients>>
  BY DEF Expire, LosePeer
<1>3. ThreadInv' /\ MainInv' /\ LatchPrecondition'
  BY <1>2 DEF IInv, ThreadInv, MainInv, LatchPrecondition
<1>4. Released' = Released /\ Current' = Current /\ Members' = Members
  BY <1>2 DEF Released, Current, Members, Out
<1>5. WindowInv' /\ FreshInv' /\ ReapInv'
  BY <1>2, <1>4 DEF IInv, WindowInv, InWindow, Out, FreshInv, ReapInv
<1>6. KilledClients' = KilledClients /\ NotArrived(Current)' = NotArrived(Current)
  BY <1>2, <1>4 DEF KilledClients, NotArrived
<1>7. CountInv' /\ CurrentInv'
  BY <1>2, <1>4, <1>6 DEF IInv, CountInv, CurrentInv, MainOwes, ReapOwes
<1>8. QED BY <1>1, <1>3, <1>5, <1>7 DEF IInv

-----------------------------------------------------------------------------
(* The main thread.                                                          *)

\* What depends on the threads alone is the same after a step of the main
\* thread.
LEMMA ThreadsUnchanged ==
  ASSUME UNCHANGED <<phase, step, killed>>
  PROVE  /\ Members' = Members
         /\ \A k : NotArrived(k)' = {q \in Members : ~(phase[q] = k /\ step[q] = "wait")}
         /\ \A q, k : InWindow(q, k)' = InWindow(q, k)
         /\ \A q : Out(q)' = Out(q)
<1>1. \A q : Out(q)' = Out(q)
  BY DEF Out
<1>2. Members' = Members
  BY <1>1 DEF Members
<1>3. QED BY <1>1, <1>2 DEF NotArrived, InWindow

LEMMA EnterLoopStep ==
  ASSUME IInv, EnterLoop
  PROVE  IInv'
<1> USE DEF EnterLoop, threadVars, vectorVars
<1>1. TypeOK' /\ ThreadInv' /\ MainInv' /\ LatchPrecondition'
  BY DEF IInv, TypeOK, ThreadInv, MainInv, LatchPrecondition
<1>2. Released' = Released /\ Current' = Current /\ MainOwes' = MainOwes
  BY DEF Released, Current, MainOwes
<1>3. Members' = Members /\ KilledClients' = KilledClients
      /\ NotArrived(Current)' = NotArrived(Current)
  BY <1>2, ThreadsUnchanged DEF KilledClients, NotArrived
<1>4. WindowInv'
  BY <1>2, ThreadsUnchanged DEF IInv, WindowInv
<1>5. CountInv' /\ FreshInv' /\ ReapInv'
  BY <1>2, <1>3 DEF IInv, CountInv, FreshInv, ReapInv
<1>6. CurrentInv'
  BY <1>2, <1>3 DEF IInv, CurrentInv, ReapOwes
<1>7. QED BY <1>1, <1>4, <1>5, <1>6 DEF IInv

\* The arrival of the main thread: one less on the latch, and one less owed.
LEMMA MainArriveStep ==
  ASSUME IInv, MainArrive
  PROVE  IInv'
<1> USE DEF MainArrive, threadVars, vectorVars
<1>1. latch \in [Phase -> Int] /\ mainPhase \in Phase
  BY DEF IInv, TypeOK
<1>2. ~Released /\ Current = mainPhase /\ latch[mainPhase] >= 1
  BY CurrentNotReleased DEF Released, Current
<1>3. TypeOK' /\ ThreadInv' /\ MainInv'
  BY DEF IInv, TypeOK, ThreadInv, MainInv
<1>4. Members' = Members /\ \A q, k : InWindow(q, k)' = InWindow(q, k)
  BY ThreadsUnchanged
<1>5. CountInv'
  <2>1. KilledClients' = KilledClients
    BY DEF KilledClients
  <2>2. QED BY <2>1 DEF IInv, CountInv
<1>6. \A q \in Players : InWindow(q, mainPhase)
  BY <1>2 DEF IInv, WindowInv
<1>7. NotArrived(mainPhase)' = NotArrived(mainPhase)
  BY <1>4 DEF NotArrived
<1>8. /\ Cardinality(NotArrived(mainPhase)) \in Nat
      /\ IsFiniteSet(NotArrived(mainPhase))
      /\ latch[mainPhase] >= Cardinality(NotArrived(mainPhase)) + 1
  <2>1. MainOwes = 1 /\ ReapOwes = 0
    BY <1>2 DEF MainOwes, ReapOwes
  <2>2. Cardinality(NotArrived(mainPhase)) \in Nat /\ IsFiniteSet(NotArrived(mainPhase))
    BY Counting DEF IInv
  <2>3. latch[mainPhase] >= Cardinality(NotArrived(mainPhase)) + MainOwes + ReapOwes
    BY <1>2 DEF IInv, CurrentInv
  <2>4. QED BY <1>1, <2>1, <2>2, <2>3
<1>9. CASE latch[mainPhase] = 1
  <2>1. NotArrived(mainPhase)' = {}
    BY <1>7, <1>8, <1>9, FS_EmptySet
  <2>2. latch' = [latch EXCEPT ![mainPhase] = 0]
    BY <1>1, <1>9
  <2>3. WindowInv' /\ CurrentInv' /\ FreshInv' /\ ReapInv' /\ LatchPrecondition'
    BY <1>2, <1>3, <1>4, <1>5, <1>6, <2>1, <2>2, ReleaseStep DEF IInv
  <2>4. QED BY <1>3, <1>5, <2>3 DEF IInv
<1>10. CASE latch[mainPhase] # 1
  <2>1. ~Released' /\ Current' = Current
    BY <1>1, <1>2, <1>10 DEF Released, Current
  <2>2. WindowInv'
    BY <1>2, <1>4, <1>6, <2>1 DEF WindowInv
  <2>3. CurrentInv'
    <3>1. MainOwes' = 0 /\ ReapOwes' = 0
      BY <2>1 DEF MainOwes, ReapOwes
    <3>2. latch'[mainPhase] = latch[mainPhase] - 1
      BY <1>1
    <3>3. QED BY <1>1, <1>2, <1>7, <1>8, <2>1, <3>1, <3>2 DEF CurrentInv
  <2>4. \A k \in Phase : k # mainPhase => latch'[k] = latch[k]
    BY <1>1
  <2>5. FreshInv'
    BY <1>2, <1>4, <2>1, <2>4 DEF IInv, FreshInv, Phase
  <2>6. ReapInv' /\ LatchPrecondition'
    BY <1>1, <1>2, <2>4 DEF IInv, ReapInv, LatchPrecondition
  <2>7. QED BY <1>3, <1>5, <2>2, <2>3, <2>5, <2>6 DEF IInv
<1>11. QED BY <1>9, <1>10

\* The renewed latch is neither the current one nor the one after it.
LEMMA MainRenewStep ==
  ASSUME IInv, MainRenew
  PROVE  IInv'
<1> USE DEF MainRenew, MainPassed, threadVars, vectorVars
<1>1. /\ latch \in [Phase -> Int] /\ mainPhase \in 1 .. 3 /\ mainStep = "wait"
      /\ Released /\ Cardinality(clients) \in Nat
  BY Counting DEF IInv, TypeOK, Released
<1>2. TypeOK' /\ ThreadInv' /\ MainInv'
  BY <1>1, Cycle DEF IInv, TypeOK, ThreadInv, MainInv, Phase
<1>3. ~Released' /\ Current' = Current /\ Current = Following(mainPhase)
  BY <1>1 DEF Released, Current
<1>4. /\ \A k \in Phase : k # Preceding(mainPhase) => latch'[k] = latch[k]
      /\ latch'[Preceding(mainPhase)] = Cardinality(clients) + 1
  BY <1>1, Cycle DEF Phase
<1>5. /\ Members' = Members /\ NotArrived(Current)' = NotArrived(Current)
      /\ KilledClients' = KilledClients
      /\ \A q, k : InWindow(q, k)' = InWindow(q, k)
  BY <1>3, ThreadsUnchanged DEF NotArrived, KilledClients
<1>6. WindowInv' /\ CountInv'
  BY <1>1, <1>3, <1>5 DEF IInv, WindowInv, CountInv
<1>7. CurrentInv'
  <2>1. MainOwes' = 1 /\ MainOwes = 1 /\ ReapOwes' = 0 /\ ReapOwes = 0
    BY <1>1, <1>3 DEF MainOwes, ReapOwes
  <2>2. latch'[Current] = latch[Current]
    BY <1>1, <1>3, <1>4, Cycle DEF Phase
  <2>3. QED BY <1>1, <1>3, <1>5, <2>1, <2>2 DEF IInv, CurrentInv
<1>8. FreshInv'
  BY <1>1, <1>4 DEF IInv, FreshInv, Following, Preceding, Phase
<1>9. ReapInv' /\ LatchPrecondition'
  BY <1>1, <1>4, Cycle DEF IInv, ReapInv, LatchPrecondition, Phase
<1>10. QED BY <1>2, <1>6, <1>7, <1>8, <1>9 DEF IInv

\* After the clean-up's messages nothing is owed that was not owed before.
LEMMA SendKillsStep ==
  ASSUME IInv, SendKills
  PROVE  IInv'
<1> USE DEF SendKills, MainPassed, threadVars, vectorVars
<1>1. Released /\ Released' /\ Current = 1 /\ Current' = 1 /\ reaped = 0
  BY DEF IInv, MainInv, Released, Current, Following
<1>2. count <= Cardinality(KilledClients)
  BY DEF IInv, CountInv
<1>3. /\ Cardinality(KilledClients) \in Nat /\ IsFiniteSet(clients)
      /\ Cardinality(Members) \in Nat /\ Cardinality(clients) \in Nat
      /\ Cardinality(KilledClients) <= Cardinality(Players)
      /\ Cardinality(Players) \in Nat
  BY Counting, PlayersAssumption, FS_CardinalityType DEF IInv
<1>4. TypeOK'
  <2>1. \A i \in 1 .. count : slots[i] \in Players \union {NoPlayer}
    BY <1>2, <1>3 DEF IInv, TypeOK, Slot
  <2>2. {slots[i] : i \in 1 .. count} \subseteq Players \union {NoPlayer}
    BY <2>1
  <2>3. told' \in [Players -> SUBSET (Players \union {NoPlayer})]
    BY <2>2 DEF IInv, TypeOK
  <2>4. QED BY <1>1, <2>3 DEF IInv, TypeOK
<1>5. ThreadInv' /\ MainInv' /\ CountInv' /\ LatchPrecondition' /\ FreshInv'
  BY DEF IInv, ThreadInv, MainInv, CountInv, LatchPrecondition, FreshInv
<1>6. /\ Members' = Members /\ NotArrived(Current)' = NotArrived(Current)
      /\ \A q, k : InWindow(q, k)' = InWindow(q, k)
  BY <1>1, ThreadsUnchanged DEF NotArrived
<1>7. WindowInv'
  BY <1>1, <1>6 DEF IInv, WindowInv
<1>8. CurrentInv'
  <2>1. MainOwes' = 1 /\ MainOwes = 1 /\ ReapOwes' = ReapOwes
    BY <1>1 DEF MainOwes, ReapOwes
  <2>2. QED BY <1>1, <1>6, <2>1 DEF IInv, CurrentInv
<1>9. ReapInv'
  <2>1. Members \cap KilledClients = {}
    BY <1>1 DEF IInv, WindowInv, ThreadInv, TypeOK, InWindow, Members,
                KilledClients, Out, Preceding
  <2>2. Members \subseteq clients /\ KilledClients \subseteq clients
    BY DEF IInv, ThreadInv, Members, KilledClients, Out
  <2>3. Cardinality(Members) + Cardinality(KilledClients) <= Cardinality(clients)
    BY <1>3, <2>1, <2>2, DisjointParts
  <2>4. latch[2] >= Cardinality(clients) + 1 /\ latch[2] \in Int
    BY DEF IInv, FreshInv, TypeOK, Phase
  <2>5. QED BY <1>1, <1>2, <1>3, <1>6, <2>3, <2>4 DEF ReapInv, IInv, TypeOK
<1>10. QED BY <1>4, <1>5, <1>7, <1>8, <1>9 DEF IInv

\* One entry of "invalid" handled: one less on latches 1 and 2, one less owed.
LEMMA ReapStep ==
  ASSUME IInv, Reap
  PROVE  IInv'
<1> USE DEF Reap, CountDown, EraseEntry, threadVars, vectorVars
<1>1. /\ latch \in [Phase -> Int] /\ count \in Nat /\ reaped \in Nat
      /\ mainPhase = 4 /\ Cardinality(Members) \in Nat
      /\ Cardinality(NotArrived(Current)) \in Nat
  BY Counting DEF IInv, MainInv, TypeOK
<1>2. Released /\ Released' /\ Current = 1 /\ Current' = 1
  BY <1>1 DEF Released, Current, Following
<1>3. TypeOK' /\ ThreadInv' /\ MainInv' /\ CountInv' /\ FreshInv'
  BY <1>1 DEF IInv, TypeOK, ThreadInv, MainInv, CountInv, FreshInv
<1>4. /\ Members' = Members /\ NotArrived(Current)' = NotArrived(Current)
      /\ \A q, k : InWindow(q, k)' = InWindow(q, k)
  BY <1>2, ThreadsUnchanged DEF NotArrived
<1>5. WindowInv'
  BY <1>2, <1>4 DEF IInv, WindowInv
<1>6. latch'[1] = latch[1] - 1 /\ latch'[2] = latch[2] - 1 /\ latch'[4] = latch[4]
  BY <1>1 DEF Phase
<1>7. latch[1] >= Cardinality(NotArrived(Current)) + 1 + (count - reaped)
  <2>1. MainOwes = 1 /\ ReapOwes = count - reaped
    BY <1>1, <1>2 DEF MainOwes, ReapOwes
  <2>2. QED BY <1>2, <2>1 DEF IInv, CurrentInv
<1>8. latch[2] >= Cardinality(Members) + 1 + count - reaped
  BY DEF IInv, ReapInv
<1>9. CurrentInv'
  <2>1. MainOwes' = 1 /\ ReapOwes' = count - reaped - 1
    BY <1>1, <1>2 DEF MainOwes, ReapOwes
  <2>2. latch[1] \in Int
    BY <1>1 DEF Phase
  <2>3. QED BY <1>1, <1>2, <1>4, <1>6, <1>7, <2>1, <2>2 DEF CurrentInv
<1>10. ReapInv'
  BY <1>1, <1>4, <1>6, <1>8 DEF ReapInv, Phase
<1>11. LatchPrecondition'
  BY <1>1, <1>6, <1>7, <1>8 DEF IInv, LatchPrecondition, Phase
<1>12. QED BY <1>3, <1>5, <1>9, <1>10, <1>11 DEF IInv

\* A new round, or the end of the match.
LEMMA CheckForExitGameStep ==
  ASSUME IInv, CheckForExitGame
  PROVE  IInv'
<1> USE DEF CheckForExitGame, AnnounceWinner, RenewSendLatch, threadVars
<1>1. /\ latch \in [Phase -> Int] /\ count \in Nat
      /\ mainPhase = 4 /\ Cardinality(Members) \in Nat /\ Cardinality(clients) \in Nat
      /\ Cardinality(NotArrived(Current)) \in Nat
  BY Counting DEF IInv, MainInv, TypeOK
<1>2. Released /\ Current = 1
  BY <1>1 DEF Released, Current, Following
<1>3. TypeOK'
  BY <1>1 DEF IInv, TypeOK, Phase, Following
<1>4. ThreadInv' /\ MainInv'
  BY <1>1 DEF IInv, ThreadInv, MainInv, Following, TypeOK
<1>5. \A q \in Players : step[q] # "append"
  BY <1>2 DEF IInv, WindowInv, InWindow, ThreadInv, Preceding, Out
<1>6. KilledClients' = KilledClients /\ Cardinality(KilledClients) \in Nat
  BY Counting DEF KilledClients, IInv
<1>7. CountInv'
  BY <1>5, <1>6 DEF CountInv
<1>8. CASE clients = {}
  BY <1>3, <1>4, <1>7, <1>8
     DEF IInv, WindowInv, CurrentInv, FreshInv, ReapInv, LatchPrecondition
<1>9. CASE clients # {}
  <2>1. ~Released' /\ Current' = 1 /\ mainPhase' = 1 /\ mainStep' = "arrive"
    BY <1>1, <1>9 DEF Released, Current, Following
  <2>2. /\ Members' = Members /\ NotArrived(Current)' = NotArrived(Current)
        /\ \A q, k : InWindow(q, k)' = InWindow(q, k)
    BY <1>2, <2>1, ThreadsUnchanged DEF NotArrived
  <2>3. WindowInv'
    BY <1>2, <2>1, <2>2 DEF IInv, WindowInv
  <2>4. /\ latch'[1] = latch[1] /\ latch'[2] = latch[2] /\ latch'[4] = latch[4]
        /\ latch'[3] = Cardinality(clients) + 1
    BY <1>1, <1>9 DEF Phase
  <2>5. CurrentInv'
    <3>1. MainOwes = 1 /\ ReapOwes = 0 /\ MainOwes' = 1 /\ ReapOwes' = 0
      BY <1>1, <1>2, <2>1 DEF MainOwes, ReapOwes
    <3>2. QED BY <1>1, <1>2, <2>1, <2>2, <2>4, <3>1 DEF IInv, CurrentInv
  <2>6. FreshInv'
    <3>1. latch[2] >= Cardinality(Members) + 1
      BY <1>1 DEF IInv, ReapInv, Phase
    <3>2. QED BY <1>1, <2>1, <2>2, <2>4, <3>1 DEF FreshInv
  <2>7. ReapInv' /\ LatchPrecondition'
    BY <1>1, <2>1, <2>4 DEF IInv, ReapInv, LatchPrecondition, Phase
  <2>8. QED BY <1>3, <1>4, <1>7, <2>3, <2>5, <2>6, <2>7 DEF IInv
<1>10. QED BY <1>8, <1>9

-----------------------------------------------------------------------------
(* The theorems.                                                             *)

LEMMA InitIInv == Init => IInv
<1> SUFFICES ASSUME Init PROVE IInv
  OBVIOUS
<1> USE DEF Init
<1>1. Cardinality(Players) \in Nat
  BY PlayersAssumption, FS_CardinalityType
<1>2. TypeOK
  BY <1>1 DEF TypeOK, Phase, PeerState
<1>3. ThreadInv /\ MainInv
  BY DEF ThreadInv, MainInv
<1>4. ~Released /\ Current = 1 /\ MainOwes = 1 /\ ReapOwes = 0
  BY DEF Released, Current, MainOwes, ReapOwes
<1>5. WindowInv
  BY <1>4 DEF WindowInv, InWindow
<1>6. CountInv
  BY Counting, <1>2, <1>3 DEF CountInv
<1>7. /\ Cardinality(Members) \in Nat /\ Cardinality(Members) <= Cardinality(Players)
      /\ Cardinality(NotArrived(1)) \in Nat
      /\ Cardinality(NotArrived(1)) <= Cardinality(Members)
  BY Counting, <1>1, <1>2, <1>3
<1>8. CurrentInv
  BY <1>1, <1>4, <1>7 DEF CurrentInv, Phase
<1>9. FreshInv /\ ReapInv /\ LatchPrecondition
  BY <1>1, <1>7 DEF FreshInv, ReapInv, LatchPrecondition, Phase
<1>10. QED BY <1>2, <1>3, <1>5, <1>6, <1>8, <1>9 DEF IInv

LEMMA NextIInv == IInv /\ [Next]_vars => IInv'
<1> SUFFICES ASSUME IInv, [Next]_vars PROVE IInv'
  OBVIOUS
<1>1. CASE MainThread
  <2>1. ASSUME NEW p \in Players, Spawn(p) PROVE IInv'
    BY <2>1, SpawnStep
  <2>2. QED BY <1>1, <2>1, EnterLoopStep, MainArriveStep, MainRenewStep,
               SendKillsStep, ReapStep, CheckForExitGameStep DEF MainThread
<1>2. ASSUME NEW p \in Players, ClientThread(p) PROVE IInv'
  BY <1>2, ClientArriveStep, ClientPassStep, ClientLoopStep, EmplaceBackStep,
     PhasesStep DEF ClientThread
<1>3. ASSUME NEW p \in Players, Expire(p) \/ LosePeer(p) PROVE IInv'
  BY <1>3, EnvironmentStep
<1>4. CASE UNCHANGED vars
  <2> USE <1>4 DEF vars
  <2>1. Released' = Released /\ Current' = Current
    BY DEF Released, Current
  <2>2. Members' = Members /\ KilledClients' = KilledClients
        /\ NotArrived(Current)' = NotArrived(Current)
        /\ \A q, k : InWindow(q, k)' = InWindow(q, k)
    BY <2>1, ThreadsUnchanged DEF KilledClients, NotArrived
  <2>3. TypeOK' /\ ThreadInv' /\ MainInv' /\ LatchPrecondition'
    BY DEF IInv, TypeOK, ThreadInv, MainInv, LatchPrecondition
  <2>4. WindowInv' /\ CountInv' /\ FreshInv' /\ ReapInv'
    BY <2>1, <2>2 DEF IInv, WindowInv, CountInv, FreshInv, ReapInv
  <2>5. CurrentInv'
    BY <2>1, <2>2 DEF IInv, CurrentInv, MainOwes, ReapOwes
  <2>6. QED BY <2>3, <2>4, <2>5 DEF IInv
<1>5. QED BY <1>1, <1>2, <1>3, <1>4 DEF Next

\* The inductive invariant: the latch being filled is never released before
\* every thread that still runs has arrived (GameMain.cpp:10-116).
THEOREM Invariance == Spec => []IInv
BY InitIInv, NextIInv, PTL DEF Spec

\* The variables keep their types; in particular "invalid" never holds more
\* entries than there are players.
THEOREM TypeCorrect == Spec => []TypeOK
<1>1. IInv => TypeOK
  BY DEF IInv
<1>2. QED BY <1>1, Invariance, PTL

\* No latch but sendlatch is ever counted down below zero, for any number of
\* players, whichever entries the unlocked vector loses.
THEOREM LatchesNeverNegative == Spec => []LatchPrecondition
<1>1. IInv => LatchPrecondition
  BY DEF IInv
<1>2. QED BY <1>1, Invariance, PTL

\* The latches alone keep writers of the map "players" apart from its readers.
THEOREM NoRaceOnPlayers == Spec => []PlayersRaceFree
<1>1. IInv => PlayersRaceFree
  <2> SUFFICES ASSUME IInv PROVE PlayersRaceFree
    OBVIOUS
  <2>1. ASSUME NEW p \in Players, NEW k \in Phase, Working(p, k)
        PROVE  k = Preceding(Current) /\ mainStep # "over"
    <3>1. mainStep # "over"
      BY <2>1 DEF Working, IInv, MainInv
    <3>2. InWindow(p, Current)
      BY <3>1 DEF IInv, WindowInv
    <3>3. QED BY <2>1, <3>1, <3>2 DEF Working, InWindow, Out
  <2>2. mainStep = "reap" => Preceding(Current) = 4
    BY DEF IInv, MainInv, Current, Released, Following, Preceding
  <2>3. QED BY <2>1, <2>2 DEF PlayersRaceFree, Phase
<1>2. QED BY <1>1, Invariance, PTL

-----------------------------------------------------------------------------
(* The winner                                                              *)

\* Nobody joins a match again: clients are only ever erased.
LEMMA ClientsShrink ==
  ASSUME [Next]_vars
  PROVE  clients' \subseteq clients
<1>1. ASSUME NEW p \in Players, Spawn(p) PROVE clients' \subseteq clients
  BY <1>1 DEF Spawn, mainVars
<1>2. ASSUME NEW p \in Players, ClientThread(p) \/ Expire(p) \/ LosePeer(p)
      PROVE  clients' = clients
  BY <1>2 DEF ClientThread, ClientArrive, ClientPass, ClientLoop, EmplaceBack,
       PhaseGetPlayerUpdate, PhaseValidatePlayer, PhaseSendPlayerUpdate, Expire,
       LosePeer, mainVars
<1>3. Reap => clients' \subseteq clients
  BY DEF Reap, EraseEntry
<1>4. EnterLoop \/ MainArrive \/ MainRenew \/ SendKills \/ CheckForExitGame
        => clients' = clients
  BY DEF EnterLoop, MainArrive, MainRenew, SendKills, CheckForExitGame
<1>5. UNCHANGED vars => clients' = clients
  BY DEF vars
<1>6. QED BY <1>1, <1>2, <1>3, <1>4, <1>5 DEF Next, MainThread

\* Only CheckForExitGame announces anybody.
LEMMA OnlyExitAnnounces ==
  ASSUME [Next]_vars, ~ CheckForExitGame
  PROVE  announced' = announced
<1>1. ASSUME NEW p \in Players, Spawn(p) PROVE announced' = announced
  BY <1>1 DEF Spawn, mainVars
<1>2. ASSUME NEW p \in Players, ClientThread(p) \/ Expire(p) \/ LosePeer(p)
      PROVE  announced' = announced
  BY <1>2 DEF ClientThread, ClientArrive, ClientPass, ClientLoop, EmplaceBack,
       PhaseGetPlayerUpdate, PhaseValidatePlayer, PhaseSendPlayerUpdate, Expire,
       LosePeer, mainVars
<1>3. EnterLoop \/ MainArrive \/ MainRenew \/ SendKills \/ Reap
        => announced' = announced
  BY DEF EnterLoop, MainArrive, MainRenew, SendKills, Reap
<1>4. UNCHANGED vars => announced' = announced
  BY DEF vars
<1>5. QED BY <1>1, <1>2, <1>3, <1>4 DEF Next, MainThread

LEMMA WinnerStep ==
  ASSUME IInv, WinnerIsLast, [Next]_vars
  PROVE  WinnerIsLast'
<1>1. clients' \subseteq clients
  BY ClientsShrink
<1>2. CASE announced' = announced
  BY <1>1, <1>2 DEF WinnerIsLast
<1>3. CASE CheckForExitGame /\ announced' # announced
  <2>1. /\ Cardinality(clients) = 1
        /\ announced' = announced \union clients /\ clients' = clients
    BY <1>3 DEF CheckForExitGame, AnnounceWinner
  <2>2. IsFiniteSet(clients)
    BY Counting DEF IInv
  <2>3. PICK w : clients = {w}
    BY <2>1, <2>2, FS_Singleton
  <2>4. announced \subseteq {w}
    BY <2>3 DEF WinnerIsLast
  <2>5. QED BY <2>1, <2>3, <2>4 DEF WinnerIsLast
<1>4. QED BY <1>2, <1>3, OnlyExitAnnounces

\* 'W' goes to one client at most, ever, and nobody else is in the match then or
\* afterwards (CheckForExitGame, GameMain.cpp:99-116).
THEOREM OneWinner == Spec => []WinnerIsLast
<1>1. Init => WinnerIsLast
  BY DEF Init, WinnerIsLast
<1>2. IInv /\ WinnerIsLast /\ [Next]_vars => WinnerIsLast'
  BY WinnerStep
<1>3. QED BY <1>1, <1>2, Invariance, PTL DEF Spec
=============================================================================
