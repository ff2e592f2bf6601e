------------------------- MODULE GameMainRefinement -------------------------
(***************************************************************************)
(* A match implements LockStep, for every set of players.                  *)
(***************************************************************************)
EXTENDS GameMainProofs

At == [p \in Players |-> Progress(p)]

\* Neither the current latch nor any thread changes.
LEMMA StutterStep ==
  ASSUME Current' = Current, Stage' = Stage, UNCHANGED <<phase, step, killed>>
  PROVE  UNCHANGED <<Stage, At>>
BY DEF At, Progress, Out

\* One thread takes a step that releases nobody.
LEMMA ThreadProgress ==
  ASSUME NEW p \in Players, Current' = Current, mainStep' = mainStep,
         \A q \in Players \ {p} :
           phase'[q] = phase[q] /\ step'[q] = step[q] /\ killed'[q] = killed[q]
  PROVE  Stage' = Stage /\ At' = [At EXCEPT ![p] = Progress(p)']
BY DEF Stage, At, Progress, Out

\* Everybody has arrived at the current latch, which is now released.
LEMMA AdvanceStep ==
  ASSUME IInv, mainStep # "over", mainStep' # "over",
         Current' = Following(Current), UNCHANGED phase,
         \A q \in Players : Progress(q) \in {"done", "out"},
         \A q \in Players : Out(q) => Out(q)',
         \A q \in Players : Out(q)' \/ (phase[q] = Current /\ step'[q] = "wait"),
         \A q \in Players : Out(q)' /\ ~Out(q) => Current = 4
  PROVE  Barrier!Advance
<1>1. Current \in Phase
  BY CurrentType DEF IInv
<1>2. Stage = Preceding(Current) /\ Stage' = Current
  BY <1>1, Cycle DEF Stage
<1>3. Stage' = IF Stage = 4 THEN 1 ELSE Stage + 1
  BY <1>1, <1>2 DEF Preceding, Phase
<1>4. \A q \in Players : Progress(q)' = IF Out(q)' THEN "out" ELSE "ready"
  BY <1>1, Cycle DEF Progress
<1>5. \A q \in Players : Progress(q) = "out" <=> Out(q)
  BY DEF Progress
<1>6. \A q \in Players : At[q] \in {"done", "out"}
  BY DEF At
<1>7. At' \in [Players -> {"ready", "out"}]
  BY <1>4 DEF At
<1>8. \A q \in Players : At[q] = "out" => At'[q] = "out"
  BY <1>4, <1>5 DEF At
<1>9. \A q \in Players : At[q] = "done" /\ At'[q] = "out" => Stage = 3
  BY <1>2, <1>4, <1>5 DEF At, Preceding
<1>10. QED BY <1>3, <1>6, <1>7, <1>8, <1>9 DEF Barrier!Advance, At

LEMMA ClientArriveImplements ==
  ASSUME IInv, NEW p \in Players, ClientArrive(p)
  PROVE  Barrier!Next \/ UNCHANGED <<Stage, At>>
<1> USE DEF ClientArrive, vectorVars, mainVars
<1>1. /\ mainStep # "over" /\ latch \in [Phase -> Int] /\ mainPhase \in Phase
      /\ step \in [Players -> {"unborn", "arrive", "wait", "work", "append", "ended"}]
  BY DEF IInv, MainInv, TypeOK
<1>2. phase[p] = Current /\ Current \in Phase /\ latch[Current] >= 1
  <2>1. InWindow(p, Current)
    BY <1>1 DEF IInv, WindowInv
  <2>2. QED BY <1>1, <2>1, CurrentType, CurrentNotReleased DEF InWindow, Out, IInv
<1>3. step'[p] = "wait" /\ \A q \in Players \ {p} : step'[q] = step[q]
  BY <1>1
<1>4. Progress(p) = "done" /\ ~Out(p) /\ (Out(p)' => Current = 4)
  BY <1>2, <1>3 DEF Progress, Out
<1>5. CASE ~Released /\ mainStep = "wait" /\ latch[Current] = 1
  <2>1. Current = mainPhase /\ Current' = Following(Current)
    BY <1>1, <1>2, <1>5 DEF Current, Released
  <2>2. NotArrived(Current) = {p}
    BY <1>2, <1>5, LastArrival
  <2>3. \A q \in Players : Out(q) \/ q = p \/ (phase[q] = Current /\ step[q] = "wait")
    BY <2>2 DEF NotArrived, Members
  <2>4. \A q \in Players : Progress(q) \in {"done", "out"}
    BY <1>4, <2>3 DEF Progress
  <2>5. \A q \in Players \ {p} : Out(q)' = Out(q)
    BY <1>3 DEF Out
  <2>6. \A q \in Players : Out(q)' \/ (phase[q] = Current /\ step'[q] = "wait")
    BY <1>2, <1>3, <2>3, <2>5
  <2>7. mainStep' # "over" /\ UNCHANGED phase
    BY <1>1
  <2>8. Barrier!Advance
    BY <1>1, <1>4, <2>1, <2>4, <2>5, <2>6, <2>7, AdvanceStep
  <2>9. QED BY <2>8 DEF Barrier!Next
<1>6. CASE ~(~Released /\ mainStep = "wait" /\ latch[Current] = 1)
  <2>1. Current' = Current
    BY <1>1, <1>2, <1>6, Cycle DEF Released, Current
  <2>2. Stage' = Stage /\ At' = [At EXCEPT ![p] = Progress(p)']
    BY <1>3, <2>1, ThreadProgress
  <2>3. CASE Out(p)'
    <3>1. Progress(p)' = "out" /\ At[p] = "done"
      BY <1>4, <2>3 DEF Progress, At
    <3>2. Stage = 3
      BY <1>1, <1>4, <2>3 DEF Stage, Preceding
    <3>3. Barrier!Retire(p)
      BY <2>2, <3>1, <3>2 DEF Barrier!Retire, At
    <3>4. QED BY <3>3 DEF Barrier!Next
  <2>4. CASE ~Out(p)'
    <3>1. Progress(p)' = "done" /\ At[p] = "done"
      BY <1>2, <1>4, <2>1, <2>4 DEF Progress, At
    <3>2. QED BY <2>2, <3>1 DEF At
  <2>5. QED BY <2>3, <2>4
<1>7. QED BY <1>5, <1>6

LEMMA ClientPassImplements ==
  ASSUME IInv, NEW p \in Players, ClientPass(p)
  PROVE  Barrier!Next
<1> USE DEF ClientPass, vectorVars, mainVars
<1>1. ~Out(p) /\ ~Out(p)' /\ step'[p] = "work"
      /\ \A q \in Players \ {p} : step'[q] = step[q]
  BY DEF Out, IInv, TypeOK
<1>2. mainStep # "over" /\ phase[p] = Preceding(Current) /\ phase[p] # Current
  BY <1>1, PassedIsPreceding
<1>3. Current' = Current
  BY DEF Current, Released
<1>4. Stage' = Stage /\ At' = [At EXCEPT ![p] = Progress(p)']
  BY <1>1, <1>3, ThreadProgress
<1>5. At[p] = "ready" /\ Progress(p)' = "busy" /\ Stage # 4
  BY <1>1, <1>2, <1>3 DEF At, Progress, Stage
<1>6. Barrier!Begin(p)
  BY <1>4, <1>5 DEF Barrier!Begin, At
<1>7. QED BY <1>6 DEF Barrier!Next

LEMMA ClientLoopImplements ==
  ASSUME IInv, NEW p \in Players, ClientLoop(p)
  PROVE  Barrier!Next \/ UNCHANGED <<Stage, At>>
<1> USE DEF ClientLoop, Done, vectorVars, mainVars
<1>1. Current' = Current
  BY DEF Current, Released
<1>2. \A q \in Players \ {p} : phase'[q] = phase[q] /\ step'[q] = step[q]
  BY DEF IInv, TypeOK
<1>3. Stage' = Stage /\ At' = [At EXCEPT ![p] = Progress(p)']
  BY <1>1, <1>2, ThreadProgress
<1>4. CASE killed[p]
  <2>1. Out(p) /\ Out(p)'
    BY <1>4 DEF Out, IInv, TypeOK
  <2>2. At[p] = "out" /\ Progress(p)' = "out"
    BY <2>1 DEF At, Progress
  <2>3. QED BY <1>3, <2>2 DEF At
<1>5. CASE ~killed[p]
  <2>1. ~Out(p) /\ ~Out(p)' /\ phase'[p] = 1
    BY <1>5 DEF Out, IInv, TypeOK, Following
  <2>2. mainStep # "over" /\ Current = 1
    BY <2>1, PassedIsPreceding, CurrentType DEF IInv, Phase, Preceding
  <2>3. At[p] = "ready" /\ Progress(p)' = "done" /\ Stage = 4
    BY <1>1, <2>1, <2>2 DEF At, Progress, Stage, Preceding
  <2>4. Barrier!Finish(p)
    BY <1>3, <2>3 DEF Barrier!Finish, At
  <2>5. QED BY <2>4 DEF Barrier!Next
<1>6. QED BY <1>4, <1>5

\* The work of a phase goes on, or the thread is done with it.
LEMMA WorkImplements ==
  ASSUME IInv, NEW p \in Players, step[p] \in {"work", "append"},
         UNCHANGED <<latch, mainPhase, mainStep>>,
         \A q \in Players \ {p} : killed'[q] = killed[q],
         \/ UNCHANGED phase /\ step' = [step EXCEPT ![p] = "append"]
         \/ Done(p)
  PROVE  Barrier!Next \/ UNCHANGED <<Stage, At>>
<1>1. mainStep # "over" /\ phase[p] # 4
  BY DEF IInv, MainInv, ThreadInv
<1>2. phase[p] = Preceding(Current) /\ phase[p] # Current /\ Following(phase[p]) = Current
  <2>1. InWindow(p, Current)
    BY <1>1 DEF IInv, WindowInv
  <2>2. phase[p] = Preceding(Current)
    BY <2>1 DEF InWindow, Out
  <2>3. QED BY <2>2, CurrentType, Cycle DEF IInv
<1>3. Current' = Current
  BY DEF Current, Released
<1>4. \A q \in Players \ {p} : phase'[q] = phase[q] /\ step'[q] = step[q]
  BY DEF Done, IInv, TypeOK
<1>5. Stage' = Stage /\ At' = [At EXCEPT ![p] = Progress(p)']
  BY <1>3, <1>4, ThreadProgress
<1>6. At[p] = "busy" /\ Stage # 4
  BY <1>1, <1>2 DEF At, Progress, Stage, Out
<1>7. CASE UNCHANGED phase /\ step' = [step EXCEPT ![p] = "append"]
  <2>1. step'[p] = "append" /\ phase'[p] = phase[p]
    BY <1>7 DEF IInv, TypeOK
  <2>2. Progress(p)' = "busy"
    BY <1>2, <1>3, <2>1 DEF Progress, Out
  <2>3. QED BY <1>5, <1>6, <2>2 DEF At
<1>8. CASE Done(p)
  <2>1. step'[p] = "arrive" /\ phase'[p] = Current
    BY <1>2, <1>8 DEF Done, IInv, TypeOK
  <2>2. Progress(p)' = "done"
    BY <1>3, <2>1 DEF Progress, Out
  <2>3. Barrier!Finish(p)
    BY <1>5, <1>6, <2>2 DEF Barrier!Finish, At
  <2>4. QED BY <2>3 DEF Barrier!Next
<1>9. QED BY <1>7, <1>8

LEMMA MainArriveImplements ==
  ASSUME IInv, MainArrive
  PROVE  Barrier!Next \/ UNCHANGED <<Stage, At>>
<1> USE DEF MainArrive, threadVars
<1>1. /\ latch \in [Phase -> Int] /\ mainPhase \in Phase
      /\ Current = mainPhase /\ mainStep # "over" /\ mainStep' # "over"
  BY DEF IInv, TypeOK, Current, Released
<1>2. CASE latch[mainPhase] = 1
  <2>1. Current' = Following(Current)
    BY <1>1, <1>2 DEF Current, Released
  <2>2. NotArrived(Current) = {}
    <3>1. MainOwes = 1 /\ ReapOwes = 0
      BY DEF MainOwes, ReapOwes, Released
    <3>2. IsFiniteSet(NotArrived(Current)) /\ Cardinality(NotArrived(Current)) \in Nat
      BY Counting DEF IInv
    <3>3. latch[Current] >= Cardinality(NotArrived(Current)) + MainOwes + ReapOwes
      BY <1>1 DEF IInv, CurrentInv
    <3>4. Cardinality(NotArrived(Current)) = 0
      BY <1>1, <1>2, <3>1, <3>2, <3>3
    <3>5. QED BY <3>2, <3>4, FS_EmptySet
  <2>3. \A q \in Players : Out(q) \/ (phase[q] = Current /\ step[q] = "wait")
    BY <2>2 DEF NotArrived, Members
  <2>4. \A q \in Players : Progress(q) \in {"done", "out"}
    BY <2>3 DEF Progress
  <2>5. \A q \in Players : Out(q)' = Out(q)
    BY DEF Out
  <2>6. Barrier!Advance
    BY <1>1, <2>1, <2>3, <2>4, <2>5, AdvanceStep
  <2>7. QED BY <2>6 DEF Barrier!Next
<1>3. CASE latch[mainPhase] # 1
  <2>1. Current' = Current
    BY <1>1, <1>3 DEF Current, Released
  <2>2. Stage' = Stage
    BY <1>1, <2>1 DEF Stage
  <2>3. QED BY <2>1, <2>2, StutterStep
<1>4. QED BY <1>2, <1>3

\* The other steps of the main thread release nobody and stop nobody.
LEMMA MainImplements ==
  ASSUME IInv, IInv', EnterLoop \/ MainRenew \/ SendKills \/ Reap \/ CheckForExitGame
  PROVE  UNCHANGED <<Stage, At>>
<1>1. UNCHANGED <<phase, step, killed>>
  BY DEF EnterLoop, MainRenew, SendKills, Reap, CheckForExitGame, threadVars
<1>2. CASE EnterLoop \/ MainRenew \/ SendKills \/ Reap
  <2>1. mainStep # "over" /\ mainStep' # "over"
    BY <1>2 DEF EnterLoop, MainRenew, MainPassed, SendKills, Reap
  <2>2. Current' = Current
    <3>1. CASE EnterLoop
      BY <3>1 DEF EnterLoop, Current, Released
    <3>2. CASE MainRenew
      BY <3>2 DEF MainRenew, MainPassed, Current, Released
    <3>3. CASE SendKills \/ Reap
      BY <3>3 DEF SendKills, MainPassed, Reap, Current, Released, IInv, MainInv
    <3>4. QED BY <1>2, <3>1, <3>2, <3>3
  <2>3. Stage' = Stage
    BY <2>1, <2>2 DEF Stage
  <2>4. QED BY <1>1, <2>2, <2>3, StutterStep
<1>3. CASE CheckForExitGame
  <2> USE <1>3 DEF CheckForExitGame
  <2>1. mainStep # "over" /\ Current = 1 /\ Stage = 4
    BY DEF Current, Released, Stage, Following, Preceding, IInv, MainInv
  <2>2. CASE clients = {}
    <3>1. \A q \in Players : step[q] = "ended"
      BY <2>2 DEF IInv, ThreadInv
    <3>2. \A q \in Players : Progress(q) = "out" /\ Progress(q)' = "out"
      BY <1>1, <3>1 DEF Progress, Out
    <3>3. Stage' = 4
      BY <2>2 DEF Stage
    <3>4. QED BY <2>1, <3>2, <3>3 DEF At
  <2>3. CASE clients # {}
    <3>1. Current' = 1 /\ mainStep' # "over"
      BY <2>3 DEF Current, Released, Following, IInv, MainInv
    <3>2. Stage' = Stage
      BY <2>1, <3>1 DEF Stage, Preceding
    <3>3. QED BY <1>1, <2>1, <3>1, <3>2, StutterStep
  <2>4. QED BY <2>2, <2>3
<1>4. QED BY <1>2, <1>3

LEMMA SpawnImplements ==
  ASSUME IInv, NEW p \in Players, Spawn(p)
  PROVE  UNCHANGED <<Stage, At>>
<1> USE DEF Spawn, mainVars
<1>1. Current' = Current
  BY DEF Current, Released
<1>2. step'[p] = "arrive" /\ \A q \in Players \ {p} : step'[q] = step[q]
  BY DEF IInv, TypeOK
<1>3. Stage' = Stage /\ At' = [At EXCEPT ![p] = Progress(p)']
  BY <1>1, <1>2, ThreadProgress
<1>4. phase[p] = Current
  BY DEF IInv, WindowInv, InWindow, Out
<1>5. At[p] = "done" /\ Progress(p)' = "done"
  BY <1>1, <1>2, <1>4 DEF At, Progress, Out
<1>6. QED BY <1>3, <1>5 DEF At

LEMMA NextImplements == IInv /\ IInv' /\ [Next]_vars => [Barrier!Next]_<<Stage, At>>
<1> SUFFICES ASSUME IInv, IInv', [Next]_vars
             PROVE  Barrier!Next \/ UNCHANGED <<Stage, At>>
  OBVIOUS
<1>1. CASE MainThread
  <2>1. ASSUME NEW p \in Players, Spawn(p) PROVE UNCHANGED <<Stage, At>>
    BY <2>1, SpawnImplements
  <2>2. QED BY <1>1, <2>1, MainArriveImplements, MainImplements DEF MainThread
<1>2. ASSUME NEW p \in Players, ClientThread(p)
      PROVE  Barrier!Next \/ UNCHANGED <<Stage, At>>
  <2>1. CASE ClientArrive(p) \/ ClientPass(p) \/ ClientLoop(p)
    BY <2>1, ClientArriveImplements, ClientPassImplements, ClientLoopImplements
  <2>2. CASE EmplaceBack(p)
    <3>1. \A q \in Players \ {p} : killed'[q] = killed[q]
      BY <2>2 DEF EmplaceBack, IInv, TypeOK
    <3>2. QED BY <2>2, <3>1, WorkImplements DEF EmplaceBack, mainVars
  <2>3. CASE PhaseGetPlayerUpdate(p)
    BY <2>3, WorkImplements DEF PhaseGetPlayerUpdate, Kill, mainVars
  <2>4. CASE PhaseValidatePlayer(p)
    BY <2>4, WorkImplements DEF PhaseValidatePlayer, Kill, mainVars
  <2>5. CASE PhaseSendPlayerUpdate(p)
    BY <2>5, WorkImplements DEF PhaseSendPlayerUpdate, Kill, mainVars
  <2>6. QED BY <1>2, <2>1, <2>2, <2>3, <2>4, <2>5 DEF ClientThread
<1>3. ASSUME UNCHANGED <<latch, mainPhase, mainStep, phase, step, killed>>
      PROVE  UNCHANGED <<Stage, At>>
  <2>1. Current' = Current
    BY <1>3 DEF Current, Released
  <2>2. Stage' = Stage
    BY <1>3, <2>1 DEF Stage
  <2>3. QED BY <1>3, <2>1, <2>2, StutterStep
<1>4. ASSUME NEW p \in Players, Expire(p) \/ LosePeer(p)
      PROVE  UNCHANGED <<Stage, At>>
  BY <1>3, <1>4 DEF Expire, LosePeer, mainVars, threadVars
<1>5. CASE UNCHANGED vars
  BY <1>3, <1>5 DEF vars
<1>6. QED BY <1>1, <1>2, <1>4, <1>5 DEF Next

LEMMA InitImplements == Init => Barrier!Init
<1> SUFFICES ASSUME Init PROVE Barrier!Init
  OBVIOUS
<1>1. Current = 1 /\ Stage = 4
  BY DEF Init, Current, Released, Stage, Preceding
<1>2. \A p \in Players : Progress(p) = "done"
  BY <1>1 DEF Init, Progress, Out
<1>3. QED BY <1>1, <1>2 DEF Barrier!Init

\* The latches as GameMain.cpp uses them keep the phases of all players in
\* step: a match is a behaviour of LockStep.
THEOREM Refinement == Spec => ImplementsLockStep
BY Invariance, InitImplements, NextImplements, PTL
   DEF Spec, ImplementsLockStep, Barrier!Spec, At
=============================================================================
