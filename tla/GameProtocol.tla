---------------------------- MODULE GameProtocol ----------------------------
(***************************************************************************)
(* Whole sessions: client programs (ClientStages), the lobby and one match *)
(* of the server, and the messages between them.                           *)
(*                                                                         *)
(* The threads of the match are seen as GameMain and LockStep justify:     *)
(* the phases of a round follow each other, and within a phase the threads *)
(* take their turns in any order.  Of the lobby (LobbyQueue) only what it  *)
(* does to a client is left, with the messages that it sends: a match may  *)
(* start with any of the clients that wait.                                *)
(***************************************************************************)
EXTENDS ClientStages

CONSTANT StartSize   \* clients a match needs

ASSUME StartAssumption == StartSize \in 1 .. Cardinality(Players)

VARIABLES
  place,      \* where the server has the client
  phase,      \* of the match: before it, one of its four phases, or after it
  todo,       \* client threads that have not done their part of the phase
  clients,    \* GameInfo::clients; as large as "players" and "clients_threads"
  invalid,    \* GameInfo::invalid
  expired,    \* clients without an update for three seconds
  announced,  \* clients that 'W' was sent to
  missed      \* clients that a message could not be sent to (for properties)

\* A client is "dropped" by the lobby, and "out" when its match has removed it.
Places == {"outside", "choosing", "waiting", "playing", "dropped", "out"}

matchVars  == <<phase, todo, clients, invalid, expired, announced>>
serverVars == <<place, matchVars, missed>>
vars == <<clientVars, conn, down, up, serverVars>>

TypeOK ==
  /\ ClientTypeOK
  /\ place \in [Players -> Places]
  /\ phase \in {"none", "receive", "validate", "send", "kill", "reap", "over"}
  /\ todo \subseteq clients
  /\ clients \subseteq Players
  /\ invalid \in Seq(Players) /\ Len(invalid) <= Cardinality(Players)
  /\ expired \subseteq Players
  /\ announced \subseteq Players
  /\ missed \subseteq Players

Init ==
  /\ ClientInit
  /\ place = [p \in Players |-> "outside"]
  /\ phase = "none"
  /\ todo = {}
  /\ clients = {}
  /\ invalid = <<>>
  /\ expired = {}
  /\ announced = {}
  /\ missed = {}

Msg(type, ids) == [type |-> type, ids |-> ids]

Room(p) == Buffer - Len(down[p])

\* Mutant: nothing bounds what is sent.
SentUnbounded(p, ms) == IF conn[p] # "open" THEN <<>> ELSE ms

\* The longest prefix of "ms" that can be sent to p.
Sent(p, ms) ==
  IF conn[p] # "open" THEN <<>>
  ELSE SubSeq(ms, 1, IF Len(ms) < Room(p) THEN Len(ms) ELSE Room(p))

\* The header of a packet is read in one frame, the rest in the next one.
HeaderRead(p) ==
  \/ stage[p] = "queue" /\ stageShouldChange[p]
  \/ stage[p] = "game" /\ ~iniciated[p]

\* The server closes the connection: what has not arrived yet may be lost.
Close(p, ms) ==
  /\ conn' = [conn EXCEPT ![p] = IF @ = "open" THEN "cut" ELSE @]
  /\ \E n \in (IF HeaderRead(p) THEN 1 ELSE 0) .. Len(ms) :
       /\ down' = [down EXCEPT ![p] = SubSeq(ms, 1, n)]
       /\ missed' = IF n < Len(ms) THEN missed \union {p} ELSE missed

-----------------------------------------------------------------------------
(* The lobby                                                               *)

Accept(p) ==
  /\ place[p] = "outside"
  /\ conn[p] # "none"
  /\ place' = [place EXCEPT ![p] = "choosing"]
  /\ UNCHANGED <<clientVars, conn, down, up, matchVars, missed>>

\* The avatar has arrived, or the client has hung up.  An avatar that arrived before
\* is still read then, if the connection is not reported as closed; and when nothing
\* is left to read, what is in the variable for the header may look like an avatar.
ColorAndName(p) ==
  /\ place[p] = "choosing"
  /\ \/ /\ up[p] # <<>>
        /\ up' = [up EXCEPT ![p] = Tail(@)]
        /\ place' = [place EXCEPT ![p] = "waiting"]
        /\ UNCHANGED <<conn, down, missed>>
     \/ /\ conn[p] = "left"
        /\ place' = [place EXCEPT ![p] = "dropped"]
        /\ UNCHANGED <<conn, down, up, missed>>
     \/ /\ conn[p] = "left"
        /\ up[p] = <<>>
        /\ place' = [place EXCEPT ![p] = "waiting"]
        /\ UNCHANGED <<conn, down, up, missed>>
  /\ UNCHANGED <<clientVars, matchVars>>

\* The state of the queue and the time left; a client that the second one
\* cannot be sent to is dropped.
SendQueueState(p) ==
  /\ place[p] = "waiting"
  /\ LET ms == <<Msg("QUE", {}), Msg("T", {})>>
         sent == Sent(p, ms)
     IN  IF sent = ms
         THEN /\ down' = [down EXCEPT ![p] = @ \o ms]
              /\ UNCHANGED <<conn, place, missed>>
         ELSE /\ Close(p, down[p] \o sent)
              /\ place' = [place EXCEPT ![p] = "dropped"]
  /\ UNCHANGED <<clientVars, up, matchVars>>

\* Queue::CheckStartNewGame for one of the queues, and GameInfo::Game up to its loop:
\* everybody in it is sent the players of the match; a failure is not looked at.
StartGame ==
  /\ phase = "none"
  /\ \E G \in SUBSET {p \in Players : place[p] = "waiting"} :
       /\ Cardinality(G) >= StartSize
       /\ clients' = G
       /\ todo' = G
       /\ place' = [p \in Players |-> IF p \in G THEN "playing" ELSE place[p]]
       /\ down' = [p \in Players |->
                     IF p \in G THEN down[p] \o Sent(p, <<Msg("NCP", G)>>) ELSE down[p]]
       /\ missed' = missed \union {p \in G : Sent(p, <<Msg("NCP", G)>>) = <<>>}
  /\ phase' = "receive"
  /\ UNCHANGED <<clientVars, conn, up, invalid, expired, announced>>

-----------------------------------------------------------------------------
(* The threads of the clients                                              *)

Killed(p) == p \in ToSet(invalid)

\* LockStep: the last thread of a phase releases all of them into the next one.
Turn(p, ph, next) ==
  /\ phase = ph
  /\ p \in todo
  /\ IF todo = {p} THEN phase' = next /\ todo' = clients
     ELSE phase' = phase /\ todo' = todo \ {p}
  /\ UNCHANGED <<clients, announced>>

Kill(p) == invalid' = Append(invalid, p)

\* An update, nothing within 9 ms or trash, or the end of the connection.  A
\* closed connection may look like an update (see GameMain).
PhaseGetPlayerUpdate(p) ==
  /\ Turn(p, "receive", "validate")
  /\ \/ /\ up[p] # <<>>
        /\ up' = [up EXCEPT ![p] = Tail(@)]
        /\ expired' = expired \ {p}
        /\ UNCHANGED invalid
     \/ UNCHANGED <<up, expired, invalid>>
     \/ conn[p] = "left" /\ expired' = expired \ {p} /\ UNCHANGED <<up, invalid>>
     \/ conn[p] = "left" /\ Kill(p) /\ UNCHANGED <<up, expired>>
  /\ UNCHANGED <<clientVars, conn, down, place, missed>>

PhaseValidatePlayer(p) ==
  /\ Turn(p, "validate", "send")
  /\ \/ ~Killed(p) /\ clients # {p} /\ Kill(p)
     \/ UNCHANGED invalid
  /\ UNCHANGED <<clientVars, conn, down, up, expired, place, missed>>

\* Mutant: the updates name everybody who was in the match at its start.
PhaseSendEverybody(p) ==
  /\ Turn(p, "send", "kill")
  /\ LET sent == Sent(p, <<Msg("NUP", Players \ {p})>>)
     IN  \/ Killed(p) /\ UNCHANGED <<down, invalid>>
         \/ ~Killed(p) /\ sent = <<>> /\ Kill(p) /\ UNCHANGED down
         \/ /\ ~Killed(p) /\ conn[p] = "open"
            /\ IF p \in expired THEN Kill(p) ELSE UNCHANGED invalid
            /\ down' = [down EXCEPT ![p] = @ \o sent]
  /\ UNCHANGED <<clientVars, conn, up, expired, place, missed>>

\* The other players of the map, those killed in this round included.  When the
\* buffer is full the update is skipped or, if poll is of another opinion, the
\* send fails.
PhaseSendPlayerUpdate(p) ==
  /\ Turn(p, "send", "kill")
  /\ LET sent == Sent(p, <<Msg("NUP", clients \ {p})>>)
     IN  \/ Killed(p) /\ UNCHANGED <<down, invalid>>
         \/ ~Killed(p) /\ sent = <<>> /\ Kill(p) /\ UNCHANGED down
         \/ /\ ~Killed(p) /\ conn[p] = "open"
            /\ IF p \in expired THEN Kill(p) ELSE UNCHANGED invalid
            /\ down' = [down EXCEPT ![p] = @ \o sent]
  /\ UNCHANGED <<clientVars, conn, up, expired, place, missed>>

-----------------------------------------------------------------------------
(* The clean-up                                                            *)

\* Mutant: the players that a kill is about are not told of it.
KillsOfOthers(p) ==
  LET others == SelectSeq(invalid, LAMBDA v : v # p)
  IN  [i \in DOMAIN others |-> Msg("K", {others[i]})]

\* Mutant: only the players that a kill is about are told of it.
KillsOfSelf(p) == IF p \in ToSet(invalid) THEN <<Msg("K", {p})>> ELSE <<>>

Kills(p) == [i \in DOMAIN invalid |-> Msg("K", {invalid[i]})]

\* Every kill is sent to everybody; failures are not looked at.
SendKills ==
  /\ phase = "kill"
  /\ phase' = "reap"
  /\ todo' = {}
  /\ down' = [p \in Players |->
                IF p \in clients THEN down[p] \o Sent(p, Kills(p)) ELSE down[p]]
  /\ missed' = missed \union {p \in clients : Sent(p, Kills(p)) # Kills(p)}
  /\ UNCHANGED <<clientVars, conn, up, place, clients, invalid, expired, announced>>

\* The killed player's connection is closed and everything about it erased.
Reap ==
  /\ phase = "reap"
  /\ invalid # <<>>
  /\ LET v == Head(invalid)
     IN  /\ clients' = clients \ {v}
         /\ Close(v, down[v])
         /\ expired' = expired \ {v}
         /\ place' = [place EXCEPT ![v] = "out"]
  /\ invalid' = Tail(invalid)
  /\ UNCHANGED <<clientVars, up, phase, todo, announced>>

\* Mutant: 'W' is sent once only.
AnnounceOnce ==
  LET W == {p \in clients : clients = {p} /\ p \notin announced}
  IN  /\ announced' = announced \union W
      /\ down' = [p \in Players |->
                    IF p \in W THEN down[p] \o Sent(p, <<Msg("W", {p})>>) ELSE down[p]]

\* The last client left is told in every round that it has won ...
Announce ==
  LET W == {p \in clients : clients = {p}}
  IN  /\ announced' = announced \union W
      /\ down' = [p \in Players |->
                    IF p \in W THEN down[p] \o Sent(p, <<Msg("W", {p})>>) ELSE down[p]]

\* ... until it has left as well.
CheckForExitGame ==
  /\ phase = "reap"
  /\ invalid = <<>>
  /\ Announce
  /\ phase' = IF clients = {} THEN "over" ELSE "receive"
  /\ todo' = clients
  /\ UNCHANGED <<clientVars, conn, up, place, clients, invalid, expired, missed>>

Match ==
  \/ SendKills
  \/ Reap
  \/ CheckForExitGame
  \/ \E p \in Players : \/ PhaseGetPlayerUpdate(p)
                        \/ PhaseValidatePlayer(p)
                        \/ PhaseSendPlayerUpdate(p)

\* Three seconds without an update.
Expire(p) ==
  /\ p \in clients
  /\ p \notin expired
  /\ expired' = expired \union {p}
  /\ UNCHANGED <<clientVars, conn, down, up, place, phase, todo, clients, invalid,
                 announced, missed>>

ClientStep(p) ==
  /\ Login(p) \/ Select(p) \/ Frame(p) \/ QueueTimeout(p) \/ Quit(p)
  /\ UNCHANGED serverVars

Lobby == StartGame \/ \E p \in Players : Accept(p) \/ ColorAndName(p) \/ SendQueueState(p)

Next ==
  \/ Lobby
  \/ Match
  \/ \E p \in Players : ClientStep(p) \/ Expire(p)

\* The match goes on and time passes; a client program makes its frames.  No
\* user has to do anything, and the lobby may wait.
Fairness ==
  /\ WF_vars(Match)
  /\ \A p \in Players :
       /\ WF_vars(Expire(p))
       /\ WF_vars(Frame(p) /\ UNCHANGED serverVars)
       /\ WF_vars(QueueTimeout(p) /\ UNCHANGED serverVars)

Spec == Init /\ [][Next]_vars
FairSpec == Spec /\ Fairness

-----------------------------------------------------------------------------
(* Properties                                                              *)

Announcements(p) == {i \in DOMAIN down[p] : down[p][i].type = "K"}

\* players.at in GameStage1::handleUpdate does not throw: an update never names
\* a player that an earlier 'K' has removed, though the kills of a round are
\* sent after its updates and before the map of the server changes.
UpdatesNameKnownPlayers ==
  \A p \in Players : \A i \in DOMAIN down[p] :
    stage[p] = "game" /\ iniciated[p] /\ down[p][i].type = "NUP" =>
      down[p][i].ids \subseteq
        known[p] \ UNION {down[p][j].ids : j \in {j \in Announcements(p) : j < i}}

\* A player in the match has, or is about to have, the same opponents as the
\* server, unless a message to it could not be sent.
SurvivorsAgree ==
  phase # "reap" => \A p \in clients :
    stage[p] = "game" /\ iniciated[p] /\ p \notin missed =>
      known[p] \ UNION {down[p][i].ids : i \in Announcements(p)} = clients \ {p}

\* Every message is read by the stage it is meant for: no update reaches a
\* client that still queues unless the packet that creates the players was not
\* sent, and the game starts with that packet and never sees the lobby's.
MessagesMeetTheirStage ==
  \A p \in Players :
    /\ stage[p] = "queue" /\ Receives(p, {"NUP", "K", "W", "trash"}) => p \in missed
    /\ HeaderRead(p) => Receives(p, {"NCP"})
    /\ stage[p] = "game" /\ iniciated[p] => \A i \in DOMAIN down[p] :
         down[p][i].type \in {"NUP", "K", "W"}

\* Behind the login stage there is a connection: a reset and a change of stage
\* are never requested in one frame, which would skip the login.
NoStageSkipped ==
  \A p \in Players : stage[p] \in {"select", "queue", "game"} => conn[p] \in {"open", "cut"}

\* Whoever the server has dropped, from the lobby or from the match, gets back
\* to the login stage (or has quit), unless the message that tells a player so
\* was lost: the game stage has no timeout of its own.
DroppedClientsLeave ==
  \A p \in Players :
    place[p] \in {"dropped", "out"} ~>
      stage[p] \in {"login", "exit"} \/ (stage[p] = "game" /\ p \in missed)

\* The winner closes its connection, which ends the match (comment in
\* CheckForExitGame).
WinnerEndsMatch == announced # {} ~> phase = "over"

\* README:4, the last player on the board wins: nobody that was told so is
\* then shown as defeated.
WinnerNotDefeated == \A p \in announced : resetReason[p] # "defeated"
=============================================================================
