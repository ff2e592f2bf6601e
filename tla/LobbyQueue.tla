----------------------------- MODULE LobbyQueue -----------------------------
(***************************************************************************)
(* The lobby thread of the server: Lobby::Server accepts connections and   *)
(* runs Queue::RunQueue, which serves the queues of waiting clients one    *)
(* after another and starts a match from a queue.  Queues are removed from *)
(* the vector while a for loop walks it by index.                          *)
(*                                                                         *)
(* Time passes only while the thread waits in poll for a connection, which *)
(* takes half a second at most: time(NULL) has advanced by a second then,  *)
(* or not.  Avatars, addresses and the content of the messages to the      *)
(* clients are abstracted away.                                            *)
(***************************************************************************)
EXTENDS Integers, Sequences, FiniteSets, SequencesExt

CONSTANTS
  Conns,      \* the connections a client may open
  Capacity,   \* clients a queue can hold (4)
  StartSize,  \* clients a match needs (3)
  KeepSize,   \* clients a queue needs to keep its timer running (2)
  Countdown   \* time a queue waits before its match starts (30 s)

ASSUME LobbyAssumption ==
  /\ IsFiniteSet(Conns)
  /\ Capacity \in Nat /\ StartSize \in Nat /\ KeepSize \in Nat /\ Countdown \in Nat
  /\ 1 <= KeepSize /\ KeepSize < StartSize /\ StartSize <= Capacity

VARIABLES
  clients,  \* vector of queues, each a vector of clients
  timer,    \* per queue time(NULL)-timer[t]
  named,    \* clients whose "queue" pointer is set: they have an avatar
  t,        \* index of the for loop in RunQueue (an int, from 0)
  pc,       \* the call the lobby thread is about to make
  games,    \* vector of jthreads: the players of each and whether it runs
  failed,   \* clients whose accept failed: their socket is -1
  shut,     \* connections the lobby closed
  peer      \* the client program at the other end

vars == <<clients, timer, named, t, pc, games, failed, shut, peer>>

\* What a connected peer has sent that was not read yet ("avatar", "trash"),
\* or that it closed the connection.
PeerState == {"away", "calling", "quiet", "avatar", "trash", "closed"}

\* Elapsed time is compared with Countdown only, so it is capped above it.
Cap(n) == IF n > Countdown THEN Countdown + 1 ELSE n
NewTimer == 0

TypeOK ==
  /\ clients \in Seq(Seq(Conns))
  /\ timer \in Seq(0 .. Countdown + 1)
  /\ named \subseteq Conns
  /\ t \in -1 .. Cardinality(Conns)
  /\ pc \in {"accept", "color", "start", "send", "clean", "crashed"}
  /\ games \in Seq([players : SUBSET Conns, running : BOOLEAN])
  /\ failed \subseteq Conns
  /\ shut \subseteq Conns
  /\ peer \in [Conns -> PeerState]

Init ==
  /\ clients = <<>>
  /\ timer = <<>>
  /\ named = {}
  /\ t = 0
  /\ pc = "accept"
  /\ games = <<>>
  /\ failed = {}
  /\ shut = {}
  /\ peer = [c \in Conns |-> "away"]

Queued  == UNION {ToSet(clients[q]) : q \in DOMAIN clients}
Playing == UNION {games[g].players : g \in DOMAIN games}

-----------------------------------------------------------------------------
(* Waiting for connections                                                 *)

Tick(tm, d) == [q \in DOMAIN tm |-> Cap(tm[q] + d)]

\* The first queue with room takes the client, or a new queue is opened.
AddClient(c, tm) ==
  LET open == SelectInSeq(clients, LAMBDA q : Len(q) < Capacity)
  IN  IF open > 0
      THEN /\ clients' = [clients EXCEPT ![open] = Append(@, c)]
           /\ timer' = tm
      ELSE /\ clients' = Append(clients, <<c>>)
           /\ timer' = Append(tm, NewTimer)

\* RunQueue begins at the first queue, if there is one.
EnterRunQueue ==
  /\ t' = 0
  /\ pc' = IF timer' = <<>> THEN "clean" ELSE "color"

\* A connection is pending.  Nobody looks at whether accept succeeded.
WaitAndAcceptConnection ==
  /\ pc = "accept"
  /\ \E c \in Conns, d \in {0, 1} :
       /\ peer[c] = "calling"
       /\ AddClient(c, Tick(timer, d))
       /\ \/ peer' = [peer EXCEPT ![c] = "quiet"] /\ UNCHANGED failed
          \/ peer' = [peer EXCEPT ![c] = "closed"] /\ failed' = failed \union {c}
  /\ EnterRunQueue
  /\ UNCHANGED <<named, games, shut>>

\* poll timed out.
NoConnection(d) ==
  /\ pc = "accept"
  /\ \A c \in Conns : peer[c] # "calling"
  /\ timer' = Tick(timer, d)
  /\ EnterRunQueue
  /\ UNCHANGED <<clients, named, games, failed, shut, peer>>

-----------------------------------------------------------------------------
(* RunQueue                                                                *)

EveryoneNamed(q) == ToSet(q) \subseteq named

\* Mutant: clients without an avatar do not hold the timer.
TryResetBySize(q, a) ==
  LET b == IF Len(q) < KeepSize THEN NewTimer ELSE a
  IN  IF Len(q) = Capacity /\ EveryoneNamed(q)
      THEN Cap(b + Countdown) ELSE b

\* The timer of a queue restarts while it is nearly empty or somebody still
\* chooses an avatar; a full queue that is ready does not wait.
TryResetTimer(q, a) ==
  LET b == IF Len(q) < KeepSize \/ ~EveryoneNamed(q) THEN NewTimer ELSE a
  IN  IF Len(q) = Capacity /\ EveryoneNamed(q)
      THEN Cap(b + Countdown) ELSE b

\* The elements of s that are in K, in their order: the others are erased.
Kept(s, K) ==
  LET kept[i \in 0 .. Len(s)] ==
        IF i = 0 THEN <<>>
        ELSE IF s[i] \in K THEN Append(kept[i - 1], s[i]) ELSE kept[i - 1]
  IN  kept[Len(s)]

\* Mutant: the timer of an emptied queue stays.
DismissKeepTimer(D, a) ==
  LET q == Kept(clients[t + 1], Conns \ D)
  IN  /\ shut' = shut \union D
      /\ timer' = [timer EXCEPT ![t + 1] = a]
      /\ clients' = IF q = <<>> THEN RemoveAt(clients, t + 1)
                    ELSE [clients EXCEPT ![t + 1] = q]

\* The clients D leave queue t, of which the timer is now "a".  An emptied
\* queue is removed and the index stepped back.
Dismiss(D, a) ==
  LET q == Kept(clients[t + 1], Conns \ D)
  IN  /\ shut' = shut \union D
      /\ IF q = <<>>
         THEN /\ clients' = RemoveAt(clients, t + 1)
              /\ timer' = RemoveAt(timer, t + 1)
         ELSE /\ clients' = [clients EXCEPT ![t + 1] = q]
              /\ timer' = [timer EXCEPT ![t + 1] = a]

\* Mutant: the index is stepped back twice.
BackTwice == IF Len(clients') < Len(clients) THEN t - 2 ELSE t

\* How far the index moves when queue t may have been removed.
Back == IF Len(clients') < Len(clients) THEN t - 1 ELSE t

\* Clients without an avatar that have something to read: an avatar makes them
\* named, anything else gets them removed.  A read from a closed connection
\* leaves the header buffer as it was, which may look like an avatar.  Sockets
\* with descriptor -1 are ignored by poll.
ColorAndName ==
  /\ pc = "color"
  /\ LET unnamed == ToSet(clients[t + 1]) \ named
         ready   == {c \in unnamed \ failed : peer[c] \in {"avatar", "trash", "closed"}}
     IN  \E N \in SUBSET {c \in ready : peer[c] # "trash"} :
           /\ {c \in ready : peer[c] = "avatar"} \subseteq N
           /\ named' = named \union N
           /\ peer' = [c \in Conns |-> IF c \in N /\ peer[c] = "avatar" THEN "quiet"
                                       ELSE peer[c]]
           /\ Dismiss(ready \ N, TryResetTimer(clients[t + 1], timer[t + 1]))
  /\ t' = Back
  /\ pc' = IF timer' = <<>> THEN "clean" ELSE "start"
  /\ UNCHANGED <<games, failed>>

\* A call with index -1 reads memory in front of the vector: the program may
\* crash, or it finds what looks like an empty queue and does nothing.
OutOfRange(next) ==
  /\ t = -1
  /\ \/ pc' = "crashed" /\ UNCHANGED t
     \/ next
  /\ UNCHANGED <<clients, timer, named, games, failed, shut, peer>>

ToSend == pc' = "send" /\ UNCHANGED t

\* Mutant: a match starts from a queue of any size.
ReadyAnySize(q, a) == a > Countdown

\* Mutant: a match needs one client more.
ReadyAbove(q, a) == Len(q) > StartSize /\ a > Countdown

Ready(q, a) == Len(q) >= StartSize /\ a > Countdown

CheckStartNewGame ==
  /\ pc = "start"
  /\ \/ OutOfRange(ToSend)
     \/ /\ t >= 0
        /\ ~Ready(clients[t + 1], timer[t + 1])
        /\ ToSend
        /\ UNCHANGED <<clients, timer, named, games, failed, shut, peer>>
     \/ /\ t >= 0
        /\ Ready(clients[t + 1], timer[t + 1])
        /\ games' = Append(games, [players |-> ToSet(clients[t + 1]), running |-> TRUE])
        /\ clients' = RemoveAt(clients, t + 1)
        /\ timer' = RemoveAt(timer, t + 1)
        /\ t' = t - 1
        /\ pc' = IF timer' = <<>> THEN "clean" ELSE "send"
        /\ UNCHANGED <<named, failed, shut, peer>>

\* The for loop goes on to the next index.
NextQueue(i) ==
  /\ t' = i
  /\ pc' = IF i < Len(timer') THEN "color" ELSE "clean"

LoopOn == t' = t + 1 /\ pc' = "color"

\* Mutant: neither POLLHUP nor a failed send is looked at.
SendIgnoringErrors ==
  /\ pc = "send"
  /\ \/ OutOfRange(LoopOn)
     \/ /\ t >= 0
        /\ UNCHANGED <<clients, timer, named, shut, games, failed, peer>>
        /\ NextQueue(t + 1)

\* The clients with an avatar are sent the state of their queue.  Sending to a
\* closed connection fails, sending to another one may (its buffer is full).
SendQueueState ==
  /\ pc = "send"
  /\ \/ OutOfRange(LoopOn)
     \/ /\ t >= 0
        /\ LET members == ToSet(clients[t + 1]) \intersect named
           IN  \E D \in SUBSET members :
                 /\ {c \in members : peer[c] = "closed"} \subseteq D
                 /\ Dismiss(D, timer[t + 1])
                 /\ named' = named \ D
        /\ NextQueue(Back + 1)
        /\ UNCHANGED <<games, failed, peer>>

\* std::jthread::joinable is false only after a join, a detach or a move, not
\* because the thread's function has returned; nobody joins these.
Joinable(g) == TRUE

ClearOldGames ==
  /\ pc = "clean"
  /\ games' = Kept(games, {g \in ToSet(games) : Joinable(g)})
  /\ pc' = "accept"
  /\ UNCHANGED <<clients, timer, named, t, failed, shut, peer>>

LobbyThread ==
  \/ WaitAndAcceptConnection
  \/ \E d \in {0, 1} : NoConnection(d)
  \/ ColorAndName
  \/ CheckStartNewGame
  \/ SendQueueState
  \/ ClearOldGames

-----------------------------------------------------------------------------
(* The environment                                                         *)

Connect(c) ==
  /\ peer[c] = "away"
  /\ peer' = [peer EXCEPT ![c] = "calling"]
  /\ UNCHANGED <<clients, timer, named, t, pc, games, failed, shut>>

\* A client program sends its avatar once; anything else would be trash.
Send(c) ==
  /\ peer[c] = "quiet"
  /\ c \in Queued \ named
  /\ \E s \in {"avatar", "trash"} : peer' = [peer EXCEPT ![c] = s]
  /\ UNCHANGED <<clients, timer, named, t, pc, games, failed, shut>>

HangUp(c) ==
  /\ peer[c] \in {"quiet", "avatar", "trash"}
  /\ c \in Queued
  /\ peer' = [peer EXCEPT ![c] = "closed"]
  /\ UNCHANGED <<clients, timer, named, t, pc, games, failed, shut>>

\* The function of a game thread returns.
GameOver ==
  /\ \E g \in DOMAIN games :
       games[g].running /\ games' = [games EXCEPT ![g].running = FALSE]
  /\ UNCHANGED <<clients, timer, named, t, pc, failed, shut, peer>>

Next ==
  \/ LobbyThread
  \/ \E c \in Conns : Connect(c) \/ Send(c) \/ HangUp(c)
  \/ GameOver

\* The lobby thread keeps running and the clock advances; no client has to do
\* anything.
Spec == Init /\ [][Next]_vars
FairSpec == Spec /\ WF_vars(LobbyThread) /\ SF_vars(NoConnection(1))

-----------------------------------------------------------------------------
(* Properties                                                              *)

\* The two vectors go together; no queue is empty, none has more clients than
\* a match takes, and a connection is in one place of one queue, or in one
\* match, or closed: none leaks, none is closed and still used.
QueuesAgree ==
  /\ Len(clients) = Len(timer)
  /\ \A q \in DOMAIN clients : Len(clients[q]) \in 1 .. Capacity
  /\ \A q, r \in DOMAIN clients :
       \A i \in DOMAIN clients[q], j \in DOMAIN clients[r] :
         clients[q][i] = clients[r][j] => q = r /\ i = j
  /\ \A g, h \in DOMAIN games : g # h => games[g].players \cap games[h].players = {}
  /\ Queued \cap Playing = {} /\ Queued \cap shut = {} /\ Playing \cap shut = {}
  /\ \A c \in Conns :
       c \in Queued \union Playing \union shut <=> peer[c] \notin {"away", "calling"}

\* PlayerHandling::createPlayer dereferences the "queue" pointer of every
\* client of a match, so nobody may get there without an avatar, and a failed
\* accept must not become a player.
OnlyNamedPlay ==
  \A g \in DOMAIN games :
    /\ games[g].players \subseteq named \ failed
    /\ Cardinality(games[g].players) \in StartSize .. Capacity

\* The lobby as each connection sees it.
Place(c) ==
  IF c \in Playing THEN "playing"
  ELSE IF c \in shut THEN "dropped"
  ELSE IF c \notin Queued THEN "outside"
  ELSE IF c \in named THEN "waiting" ELSE "choosing"

Promise == INSTANCE LobbyPromise WITH place <- [c \in Conns |-> Place(c)]

\* Matches start from clients that wait, all of them together, and nobody who
\* plays or was dropped comes back.
ImplementsPromise == Promise!Spec

QueueOf(c) == CHOOSE q \in DOMAIN clients : c \in ToSet(clients[q])

\* The queue of c is not complete: too few clients, or one without an avatar.
Incomplete(c) ==
  Len(clients[QueueOf(c)]) < StartSize \/ ~EveryoneNamed(clients[QueueOf(c)])

\* A queue does not stay complete forever without a match being started.
CompleteQueueStarts ==
  \A c \in Conns : []<>(c \notin Queued \/ Incomplete(c) \/ pc = "crashed")

\* Whoever hangs up in the lobby is removed from it, named or not.
GoneClientsLeave ==
  \A c \in Conns :
    peer[c] = "closed" /\ c \notin failed ~> c \notin Queued \/ pc = "crashed"

-----------------------------------------------------------------------------
(* What the documentation and the comments say.                            *)

\* RunQueue works "For all queues" (Queue.cpp:157): the functions it calls are
\* given the index of a queue.
ServesQueues == pc \in {"color", "start", "send"} => t + 1 \in DOMAIN clients

NamedIn(q) == ToSet(clients[q]) \intersect named

EnoughWith(c) == c \in Queued /\ Cardinality(NamedIn(QueueOf(c))) >= StartSize

\* README:21, when three players wait, a match starts after the countdown, and
\* those who connect meanwhile play too.  (Failed accepts aside.)
WaitingPlayersPlay ==
  \A c \in Conns :
    EnoughWith(c) ~> ~EnoughWith(c) \/ failed # {} \/ pc = "crashed"
=============================================================================
