------------------------------ MODULE GameMain ------------------------------
(***************************************************************************)
(* One match of the server: the thread running GameInfo::Game and one      *)
(* ClientThread::Thread per player.  They run in lockstep through four     *)
(* std::latch objects, which the main thread deletes and renews on the fly *)
(* while players drop out.                                                 *)
(*                                                                         *)
(*   latch 1  recvlatch         then  PhaseGetPlayerUpdate                 *)
(*   latch 2  validationlatch   then  PhaseValidatePlayer                  *)
(*   latch 3  sendlatch         then  PhaseSendPlayerUpdate, 3 s check     *)
(*   latch 4  cleanlatch        then  ValidatePositionsAndKillPlayers      *)
(*                                                                         *)
(* Positions, projectiles and the killer's id are abstracted away: whether *)
(* validatePlayer finds a hit is a choice.  The connection of a player and *)
(* the clock belong to the environment.                                    *)
(***************************************************************************)
EXTENDS Integers, FiniteSets

CONSTANTS
  Players,    \* the ids GameInfo::GameInfo gives to the clients of the match
  NoPlayer    \* content of an element of "invalid" that was never written

ASSUME PlayersAssumption ==
  /\ IsFiniteSet(Players)
  /\ Players # {}
  /\ NoPlayer \notin Players

Phase == 1 .. 4
Slot  == 1 .. Cardinality(Players)

\* Mutant: after cleanlatch comes a fifth latch.
FollowingNoWrap(k) == k + 1
Following(k) == IF k = 4 THEN 1 ELSE k + 1

\* Mutant: the latch that is deleted is the one just passed.
PrecedingIsSelf(k) == k
Preceding(k) == IF k = 1 THEN 4 ELSE k - 1

VARIABLES
  latch,      \* the counter of each of the four latches
  mainPhase,  \* the latch the main thread is at, and what it does there
  mainStep,
  phase,      \* the latch each client thread was last at, and what it does
  step,
  killed,     \* thread_local bool killed
  expired,    \* time(NULL) - timer >= 3, for the thread_local timer
  seen,       \* size of "invalid" read by an emplace_back in progress
  slots,      \* vector "invalid": its storage,
  count,      \*   its size,
  reaped,     \*   and how many elements the clean-up loop has handled
  clients,    \* ids in "clients", which are those in "clients_threads"
  players,    \* keys of the map "players"
  told,       \* the ids each client was sent a 'K' message about
  announced,  \* ids that were sent a 'W' message
  peer        \* the other end of each connection

threadVars == <<phase, step, killed, expired, seen>>
vectorVars == <<slots, count>>
mainVars   == <<mainPhase, mainStep, reaped, clients, players, told, announced>>
vars == <<latch, mainPhase, mainStep, phase, step, killed, expired, seen, slots,
          count, reaped, clients, players, told, announced, peer>>

\* "closed": the association ended and the server's kernel knows it.
\* "silent": the peer is unreachable and the kernel does not know it.
PeerState == {"up", "closed", "silent"}

TypeOK ==
  /\ latch \in [Phase -> Int]
  /\ mainPhase \in Phase
  /\ mainStep \in {"spawn", "arrive", "wait", "reap", "over"}
  /\ phase \in [Players -> Phase]
  /\ step \in [Players -> {"unborn", "arrive", "wait", "work", "append", "ended"}]
  /\ killed \in [Players -> BOOLEAN]
  /\ expired \in [Players -> BOOLEAN]
  /\ seen \in [Players -> Nat]
  /\ slots \in [Slot -> Players \union {NoPlayer}]
  /\ count \in Nat
  /\ reaped \in 0 .. count
  /\ clients \subseteq Players
  /\ players \subseteq Players
  /\ told \in [Players -> SUBSET (Players \union {NoPlayer})]
  /\ announced \subseteq Players
  /\ peer \in [Players -> PeerState]

\* GameInfo::Game up to the creation of the latches: nothing else runs yet.
Init ==
  /\ latch = [k \in Phase |-> Cardinality(Players) + 1]
  /\ mainPhase = 1
  /\ mainStep = "spawn"
  /\ phase = [p \in Players |-> 1]
  /\ step = [p \in Players |-> "unborn"]
  /\ killed = [p \in Players |-> FALSE]
  /\ expired = [p \in Players |-> FALSE]
  /\ seen = [p \in Players |-> 0]
  /\ slots = [i \in Slot |-> NoPlayer]
  /\ count = 0
  /\ reaped = 0
  /\ clients = Players
  /\ players = Players
  /\ told = [p \in Players |-> {}]
  /\ announced = {}
  /\ peer = [p \in Players |-> "up"]

-----------------------------------------------------------------------------
(* The threads of the players                                              *)

\* ClientSynchronize: arrive_and_wait counts the latch down ...
ClientArrive(p) ==
  /\ step[p] = "arrive"
  /\ latch' = [latch EXCEPT ![phase[p]] = @ - 1]
  /\ step' = [step EXCEPT ![p] = "wait"]
  /\ UNCHANGED <<phase, killed, expired, seen, vectorVars, mainVars, peer>>

\* ... and returns once the counter is zero.
ClientPass(p) ==
  /\ step[p] = "wait"
  /\ phase[p] # 4
  /\ latch[phase[p]] = 0
  /\ step' = [step EXCEPT ![p] = "work"]
  /\ UNCHANGED <<latch, phase, killed, expired, seen, vectorVars, mainVars, peer>>

\* On to the next latch.
Done(p) ==
  /\ step' = [step EXCEPT ![p] = "arrive"]
  /\ phase' = [phase EXCEPT ![p] = Following(phase[p])]

\* After cleanlatch the thread of a killed player leaves its loop.
ClientLoop(p) ==
  /\ step[p] = "wait"
  /\ phase[p] = 4
  /\ latch[4] = 0
  /\ IF killed[p]
     THEN /\ step' = [step EXCEPT ![p] = "ended"]
          /\ UNCHANGED phase
     ELSE Done(p)
  /\ UNCHANGED <<latch, killed, expired, seen, vectorVars, mainVars, peer>>

\* gameinfo->invalid.emplace_back(id, ..) begins: it reads the vector's size.
Kill(p) ==
  /\ step' = [step EXCEPT ![p] = "append"]
  /\ seen' = [seen EXCEPT ![p] = count]
  /\ UNCHANGED <<phase, expired>>

\* The emplace_back ends.  No lock guards the vector, so another thread may
\* have appended since "seen" was read; then the new size comes either from
\* the old size (the other entry is lost) or from the size found now (one
\* element is overwritten and another one never written).
EmplaceBack(p) ==
  /\ step[p] = "append"
  /\ slots' = [slots EXCEPT ![seen[p] + 1] = p]
  /\ count' \in {seen[p] + 1, count + 1}
  /\ killed' = [killed EXCEPT ![p] = TRUE]
  /\ Done(p)
  /\ UNCHANGED <<latch, expired, seen, mainVars, peer>>

\* Poll fails or reports POLLHUP: killed.  A read from a closed connection
\* leaves the uninitialised header buffer as it is, so it can still look like
\* an update.  Otherwise an update, a timeout, or trash.
PhaseGetPlayerUpdate(p) ==
  /\ step[p] = "work"
  /\ phase[p] = 1
  /\ \/ Kill(p)
     \/ /\ peer[p] # "silent"
        /\ expired' = [expired EXCEPT ![p] = FALSE]
        /\ Done(p)
        /\ UNCHANGED seen
     \/ Done(p) /\ UNCHANGED <<expired, seen>>
  /\ UNCHANGED <<latch, killed, vectorVars, mainVars, peer>>

\* Mutant: ClientThread::Thread validates players that are already killed.
PhaseValidateKilled(p) ==
  /\ step[p] = "work"
  /\ phase[p] = 2
  /\ \/ players \ {p} # {} /\ Kill(p)
     \/ Done(p) /\ UNCHANGED <<expired, seen>>
  /\ UNCHANGED <<latch, killed, vectorVars, mainVars, peer>>

\* validatePlayer looks at the projectiles of every other player in the map.
PhaseValidatePlayer(p) ==
  /\ step[p] = "work"
  /\ phase[p] = 2
  /\ \/ ~killed[p] /\ players \ {p} # {} /\ Kill(p)
     \/ Done(p) /\ UNCHANGED <<expired, seen>>
  /\ UNCHANGED <<latch, killed, vectorVars, mainVars, peer>>

\* Mutant: no three-second check.
PhaseSendNoTimeout(p) ==
  /\ step[p] = "work"
  /\ phase[p] = 3
  /\ \/ ~killed[p] /\ Kill(p)
     \/ /\ killed[p] \/ peer[p] # "closed"
        /\ Done(p)
        /\ UNCHANGED <<expired, seen>>
  /\ UNCHANGED <<latch, killed, vectorVars, mainVars, peer>>

\* A send to a closed connection fails, one to any other may fail.  Then the
\* three-second check, skipped for a thread that is already killed.
PhaseSendPlayerUpdate(p) ==
  /\ step[p] = "work"
  /\ phase[p] = 3
  /\ \/ ~killed[p] /\ Kill(p)
     \/ /\ killed[p] \/ (peer[p] # "closed" /\ ~expired[p])
        /\ Done(p)
        /\ UNCHANGED <<expired, seen>>
  /\ UNCHANGED <<latch, killed, vectorVars, mainVars, peer>>

ClientThread(p) ==
  \/ ClientArrive(p)
  \/ ClientPass(p)
  \/ ClientLoop(p)
  \/ EmplaceBack(p)
  \/ PhaseGetPlayerUpdate(p)
  \/ PhaseValidatePlayer(p)
  \/ PhaseSendPlayerUpdate(p)

-----------------------------------------------------------------------------
(* The main thread of the match                                            *)

\* clients_threads[id] = jthread(ClientThread::Thread, ..)
Spawn(p) ==
  /\ mainStep = "spawn"
  /\ step[p] = "unborn"
  /\ step' = [step EXCEPT ![p] = "arrive"]
  /\ UNCHANGED <<latch, phase, killed, expired, seen, vectorVars, mainVars, peer>>

EnterLoop ==
  /\ mainStep = "spawn"
  /\ \A p \in Players : step[p] # "unborn"
  /\ mainStep' = "arrive"
  /\ UNCHANGED <<latch, mainPhase, reaped, clients, players, told, announced,
                 threadVars, vectorVars, peer>>

\* MainWaitAndSynchronize: arrive_and_wait on the latch of the phase ...
MainArrive ==
  /\ mainStep = "arrive"
  /\ latch' = [latch EXCEPT ![mainPhase] = @ - 1]
  /\ mainStep' = "wait"
  /\ UNCHANGED <<mainPhase, reaped, clients, players, told, announced,
                 threadVars, vectorVars, peer>>

MainPassed(k) == mainStep = "wait" /\ mainPhase = k /\ latch[k] = 0

\* Mutant: the renewed latch does not count the main thread.
MainRenewClientsOnly ==
  /\ \E k \in 1 .. 3 : MainPassed(k)
  /\ latch' = [latch EXCEPT ![Preceding(mainPhase)] = Cardinality(clients)]
  /\ mainPhase' = Following(mainPhase)
  /\ mainStep' = "arrive"
  /\ UNCHANGED <<reaped, clients, players, told, announced, threadVars,
                 vectorVars, peer>>

\* ... then delete and renew the latch of the phase before.
MainRenew ==
  /\ \E k \in 1 .. 3 : MainPassed(k)
  /\ latch' = [latch EXCEPT ![Preceding(mainPhase)] = Cardinality(clients) + 1]
  /\ mainPhase' = Following(mainPhase)
  /\ mainStep' = "arrive"
  /\ UNCHANGED <<reaped, clients, players, told, announced, threadVars,
                 vectorVars, peer>>

\* Mutant: the loop over "invalid" stops one entry early.
SendKillsButLast ==
  /\ MainPassed(4)
  /\ told' = [c \in Players |->
                IF c \in clients THEN told[c] \union {slots[i] : i \in 1 .. count - 1}
                ELSE told[c]]
  /\ reaped' = 0
  /\ mainStep' = "reap"
  /\ UNCHANGED <<latch, mainPhase, clients, players, announced, threadVars,
                 vectorVars, peer>>

\* ValidatePositionsAndKillPlayers: one 'K' per entry to every client, ...
SendKills ==
  /\ MainPassed(4)
  /\ told' = [c \in Players |->
                IF c \in clients THEN told[c] \union {slots[i] : i \in 1 .. count}
                ELSE told[c]]
  /\ reaped' = 0
  /\ mainStep' = "reap"
  /\ UNCHANGED <<latch, mainPhase, clients, players, announced, threadVars,
                 vectorVars, peer>>

\* ... then per entry: join the thread, close and erase the client, erase the
\* player, ...
EraseEntry(v) ==
  /\ v \in clients => step[v] = "ended"
  /\ clients' = clients \ {v}
  /\ players' = players \ {v}

\* Mutant: cleanlatch is counted down as well.
CountDownAllFour == latch' = [k \in Phase |-> latch[k] - 1]

\* Mutant: validationlatch keeps its size.
CountDownNotValidation ==
  latch' = [k \in Phase |-> IF k \in {2, 4} THEN latch[k] ELSE latch[k] - 1]

\* ... and count down the three latches sized for one player more.
CountDown == latch' = [k \in Phase |-> IF k = 4 THEN latch[k] ELSE latch[k] - 1]

Reap ==
  /\ mainStep = "reap"
  /\ reaped < count
  /\ EraseEntry(slots[reaped + 1])
  /\ CountDown
  /\ reaped' = reaped + 1
  /\ UNCHANGED <<mainPhase, mainStep, told, announced, threadVars, vectorVars, peer>>

\* Mutant: 'W' goes to everybody as soon as two players are left.
AnnounceTwo == announced' = IF Cardinality(clients) <= 2 THEN announced \union clients
                            ELSE announced

\* CheckForExitGame: a single client left is told that it won, ...
AnnounceWinner == announced' = IF Cardinality(clients) = 1 THEN announced \union clients
                               ELSE announced

\* Mutant: sendlatch is not renewed.
KeepSendLatch == UNCHANGED latch

RenewSendLatch == latch' = [latch EXCEPT ![3] = Cardinality(clients) + 1]

\* ... and the match is over when nobody is left.  invalid.clear() comes first;
\* sendlatch is renewed if CheckForExitGame returns.
CheckForExitGame ==
  /\ mainStep = "reap"
  /\ reaped = count
  /\ count' = 0
  /\ reaped' = 0
  /\ AnnounceWinner
  /\ \/ /\ clients = {}
        /\ mainStep' = "over"
        /\ UNCHANGED <<latch, mainPhase>>
     \/ /\ clients # {}
        /\ RenewSendLatch
        /\ mainPhase' = Following(mainPhase)
        /\ mainStep' = "arrive"
  /\ UNCHANGED <<clients, players, told, threadVars, slots, peer>>

MainThread ==
  \/ \E p \in Players : Spawn(p)
  \/ EnterLoop
  \/ MainArrive
  \/ MainRenew
  \/ SendKills
  \/ Reap
  \/ CheckForExitGame

-----------------------------------------------------------------------------
(* The environment                                                         *)

\* Three seconds have passed since the thread last read an update.
Expire(p) ==
  /\ ~expired[p]
  /\ step[p] \notin {"unborn", "ended"}
  /\ expired' = [expired EXCEPT ![p] = TRUE]
  /\ UNCHANGED <<latch, mainVars, phase, step, killed, seen, vectorVars, peer>>

\* The client program closes its socket, or its network goes away and the
\* kernel finds out later, if at all.
LosePeer(p) ==
  /\ peer[p] # "closed"
  /\ \E s \in {"closed", "silent"} \ {peer[p]} : peer' = [peer EXCEPT ![p] = s]
  /\ UNCHANGED <<latch, mainVars, threadVars, vectorVars>>

Next ==
  \/ MainThread
  \/ \E p \in Players : ClientThread(p) \/ Expire(p) \/ LosePeer(p)

\* The operating system runs every thread, and time passes; nobody has to
\* close a connection.
Fairness ==
  /\ WF_vars(MainThread)
  /\ \A p \in Players : WF_vars(ClientThread(p)) /\ WF_vars(Expire(p))

Spec == Init /\ [][Next]_vars
FairSpec == Spec /\ Fairness

-----------------------------------------------------------------------------
(* Properties                                                              *)

Working(p, k) == phase[p] = k /\ step[p] \in {"work", "append"}

\* A killed player still counted as a member whose entry in "invalid" is gone:
\* a concurrent emplace_back overwrote it.
Lost(p) == p \in clients /\ killed[p] /\ \A i \in 1 .. count : slots[i] # p
LostEntry == \E p \in Players : Lost(p)

\* The map "players" is shared without a lock.  PhaseGetPlayerUpdate writes
\* it, validation and the sending of updates read all of it, and the clean-up
\* erases from it: whoever writes never overlaps with anybody who reads the
\* whole map, and the clean-up never overlaps with either.
PlayersRaceFree ==
  /\ \A p, q \in Players :
       Working(p, 1) => ~Working(q, 2) /\ ~Working(q, 3)
  /\ mainStep = "reap" => \A p \in Players : \A k \in 1 .. 3 : ~Working(p, k)

\* MainWaitAndSynchronize deletes the latch of the preceding phase, and the end
\* of the clean-up deletes sendlatch (or all four): no client thread is still
\* inside arrive_and_wait on a latch about to be deleted.  A thread whose entry
\* was lost is not joined and may still be in cleanlatch.
NoLatchDeletedInUse ==
  /\ \A k \in 1 .. 3 : MainPassed(k) => \A p \in Players :
       step[p] = "wait" /\ phase[p] = Preceding(k) => Lost(p)
  /\ mainStep = "reap" /\ reaped = count => \A p \in Players :
       step[p] = "wait" => phase[p] # 3 /\ clients # {}

\* std::latch requires that a counter is never counted below zero.  Only
\* sendlatch, which Reap counts down after it was released, goes below.
LatchPrecondition ==
  \A k \in Phase : k # 3 \/ mainStep \notin {"reap", "over"} => latch[k] >= 0

\* Entries of "invalid" that name a thread twice would take the latches down
\* once too often; a player the clean-up removes is a player of the match.
InvalidIsSet ==
  \A i, j \in 1 .. count : slots[i] = slots[j] /\ slots[i] \in clients => i = j

\* Whoever is still in the match was told of exactly the players that are not
\* (a 'K' message per killed player, to every client, before anybody is
\* removed), so that all clients show the same survivors.
SurvivorsToldOfKills ==
  mainStep # "reap" => \A c \in clients : told[c] \ {NoPlayer} = Players \ clients

\* 'W' goes to one client only, once every other player is out.
WinnerIsLast ==
  \A w \in announced : announced = {w} /\ clients \subseteq {w}

\* The match never stops with players left, unless an entry was lost.
NoDeadlock ==
  ENABLED (MainThread \/ \E p \in Players : ClientThread(p))
    \/ mainStep = "over" \/ LostEntry

\* A player whose connection is gone is removed from the match (README: a
\* player who loses the connection counts as eliminated).
LostPeerRemoved ==
  \A p \in Players : peer[p] # "up" ~> p \notin clients \/ LostEntry

\* The 60 Hz loop keeps turning as long as the match is not over.
FramesGoOn ==
  []<>((mainPhase = 1 /\ mainStep = "wait") \/ mainStep = "over" \/ LostEntry)

\* The loop runs "at least untill all players are dead" (comment in
\* GameInfo::Game), and then the match is over.
EndsWhenAllKilled == (\A p \in Players : killed[p]) ~> mainStep = "over"

-----------------------------------------------------------------------------
(* The inductive invariant behind PlayersRaceFree and LatchPrecondition.   *)
(* "Current" is the latch being filled: the one the main thread is at, or  *)
(* the next one as soon as that one is released.  Every thread is between  *)
(* the latch before it and this one, and its counter is at least the       *)
(* number of arrivals still to come, so it is not released early.          *)

Released == mainStep = "reap" \/ (mainStep = "wait" /\ latch[mainPhase] = 0)
Current  == IF Released THEN Following(mainPhase) ELSE mainPhase

\* p has ended or will do nothing else.
Out(p) == step[p] = "ended" \/ (killed[p] /\ phase[p] = 4 /\ step[p] = "wait")

InWindow(p, k) ==
  \/ Out(p)
  \/ phase[p] = Preceding(k) /\ step[p] \in {"wait", "work", "append"}
  \/ phase[p] = k /\ step[p] \in {"unborn", "arrive", "wait"}

Members      == {p \in Players : ~Out(p)}
NotArrived(k) == {p \in Members : ~(phase[p] = k /\ step[p] = "wait")}
KilledClients == {p \in clients : killed[p]}

\* Arrivals the main thread and the clean-up loop still owe to latch Current.
MainOwes == IF mainStep = "wait" /\ ~Released THEN 0 ELSE 1
ReapOwes == IF mainPhase = 4 /\ Released THEN count - reaped ELSE 0

ThreadInv ==
  \A p \in Players :
    /\ p \notin clients => step[p] = "ended"
    /\ step[p] = "ended" => killed[p] /\ phase[p] = 4
    /\ phase[p] = 4 => step[p] \notin {"unborn", "work", "append"}
    /\ step[p] = "unborn" => mainStep = "spawn"
    /\ step[p] = "append" => ~killed[p]
    /\ phase[p] = 1 => ~killed[p]

MainInv ==
  /\ mainStep = "spawn" => mainPhase = 1
  /\ mainStep = "reap" => mainPhase = 4
  /\ mainStep # "reap" => reaped = 0
  /\ mainStep = "over" => \A p \in Players : step[p] = "ended"

WindowInv == mainStep # "over" => \A p \in Players : InWindow(p, Current)

\* Not more entries than killed members: each append adds at most one of each.
CountInv ==
  mainStep # "reap" =>
    /\ count <= Cardinality(KilledClients)
    /\ \A p \in Players : step[p] = "append" => seen[p] <= Cardinality(KilledClients)

CurrentInv ==
  mainStep # "over" =>
    latch[Current] >= Cardinality(NotArrived(Current)) + MainOwes + ReapOwes

\* The latches that are not filled yet are large enough for everybody who will
\* arrive.  Latch 2 of the first phase was counted down once per entry, also
\* for an entry that removed nobody: it has room for the members only.
FreshInv ==
  mainStep \notin {"over", "reap"} =>
    /\ mainPhase = 1 /\ ~Released => latch[2] >= Cardinality(Members) + 1
    /\ mainPhase = 1 => latch[3] >= Cardinality(clients) + 1
    /\ mainPhase = 2 /\ ~Released => latch[3] >= Cardinality(clients) + 1
    /\ mainPhase = 2 => latch[4] >= Cardinality(clients) + 1
    /\ mainPhase = 3 /\ ~Released => latch[4] >= Cardinality(clients) + 1
    /\ mainPhase = 3 => latch[1] >= Cardinality(clients) + 1
    /\ mainPhase = 4 /\ ~Released => latch[1] >= Cardinality(clients) + 1
    /\ mainPhase = 4 => latch[2] >= Cardinality(clients) + 1

ReapInv ==
  mainStep = "reap" => latch[2] >= Cardinality(Members) + 1 + count - reaped

IInv == /\ TypeOK
        /\ ThreadInv
        /\ MainInv
        /\ WindowInv
        /\ CountInv
        /\ CurrentInv
        /\ FreshInv
        /\ ReapInv
        /\ LatchPrecondition

\* What IInv leaves open is a latch that is too large: nobody would ever pass it.
\* Unless an entry was lost, the counter of the latch being filled is exactly the
\* number of arrivals to come, however the count-downs of the clean-up, the
\* renewals and the arrivals were interleaved (GameMain.cpp:31-55, 90-92).
ArrivalsToCome ==
  mainStep # "over" /\ ~ LostEntry =>
    latch[Current] = Cardinality(NotArrived(Current)) + MainOwes + ReapOwes

-----------------------------------------------------------------------------
(* What the latches are for.                                               *)

\* The phase being worked on is the one of the latch before the current one.
Stage == IF mainStep = "over" THEN 4 ELSE Preceding(Current)

Progress(p) ==
  IF Out(p) THEN "out"
  ELSE IF phase[p] = Current THEN "done"
  ELSE IF step[p] = "wait" THEN "ready" ELSE "busy"

Barrier == INSTANCE LockStep WITH stage <- Stage, at <- [p \in Players |-> Progress(p)]

\* The players go through the phases in lockstep, whatever latches are renewed,
\* counted down or left too large by a lost entry.
ImplementsLockStep == Barrier!Spec
=============================================================================
