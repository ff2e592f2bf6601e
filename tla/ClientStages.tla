---------------------------- MODULE ClientStages ----------------------------
(***************************************************************************)
(* The client programs and their connections.  A client goes through four  *)
(* stages: login, the choice of an avatar, the queue of the lobby, and the *)
(* game.  GameManager::run makes frames: the input of the current stage,   *)
(* then a reset or a change of stage that the input asked for.             *)
(*                                                                         *)
(* A connection holds messages in each direction.  SCTP keeps their        *)
(* boundaries and their order; sends never block, and fail when the buffer *)
(* is full or the other end has closed.                                    *)
(*                                                                         *)
(* A client opens one connection only: what it does after its return to    *)
(* the login stage would be the behaviour of another client.               *)
(***************************************************************************)
EXTENDS Integers, Sequences, FiniteSets, SequencesExt

CONSTANTS
  Players,   \* the clients; also the ids the match gives to them
  Buffer,    \* messages a connection holds towards the client
  UpBuffer   \* ... and towards the server

ASSUME ClientAssumption ==
  IsFiniteSet(Players) /\ Buffer \in Nat \ {0} /\ UpBuffer \in Nat \ {0}

VARIABLES
  stage,              \* GameManager::currentStage
  step,               \* what the current frame does next
  shouldReset,        \* the requests made by the input of this frame
  stageShouldChange,
  resetReason,
  iniciated,          \* GameStage1 has read the packet that creates the players,
  known,              \*   and the keys of its map "players"
  conn,               \* the connection: who has closed it
  down,               \* messages on their way to the client
  up                  \* messages on their way to the server

frameVars  == <<shouldReset, stageShouldChange, resetReason>>
gameVars   == <<iniciated, known>>
clientVars == <<stage, step, frameVars, gameVars>>

\* The packets and messages of the server; "ids" are the players it is about.
\* "trash" is the rest of a packet of which only the header was read.
Message == [type : {"QUE", "T", "NCP", "NUP", "K", "W", "trash"}, ids : SUBSET Players]

ClientTypeOK ==
  /\ stage \in [Players -> {"login", "select", "queue", "game", "exit"}]
  /\ step \in [Players -> {"input", "read", "end"}]
  /\ shouldReset \in [Players -> BOOLEAN]
  /\ stageShouldChange \in [Players -> BOOLEAN]
  /\ resetReason \in [Players -> {"", "no connection", "defeated", "won"}]
  /\ iniciated \in [Players -> BOOLEAN]
  /\ known \in [Players -> SUBSET Players]
  /\ conn \in [Players -> {"none", "open", "left", "cut"}]
  /\ down \in [Players -> Seq(Message)]
  /\ \A p \in Players : Len(down[p]) <= Buffer
  /\ up \in [Players -> Seq({"QUE", "NUP"})]
  /\ \A p \in Players : Len(up[p]) <= UpBuffer

ClientInit ==
  /\ stage = [p \in Players |-> "login"]
  /\ step = [p \in Players |-> "input"]
  /\ shouldReset = [p \in Players |-> FALSE]
  /\ stageShouldChange = [p \in Players |-> FALSE]
  /\ resetReason = [p \in Players |-> ""]
  /\ iniciated = [p \in Players |-> FALSE]
  /\ known = [p \in Players |-> {}]
  /\ conn = [p \in Players |-> "none"]
  /\ down = [p \in Players |-> <<>>]
  /\ up = [p \in Players |-> <<>>]

-----------------------------------------------------------------------------
(* Requests to GameManager                                                 *)

setChangeState(p) ==
  /\ stageShouldChange' = [stageShouldChange EXCEPT ![p] = TRUE]
  /\ UNCHANGED shouldReset

resetRequest(p, why) ==
  /\ shouldReset' = [shouldReset EXCEPT ![p] = TRUE]
  /\ resetReason' = [resetReason EXCEPT ![p] = why]
  /\ UNCHANGED stageShouldChange

At(p, s, x) == stage[p] = s /\ step[p] = x

Then(p, x) == step' = [step EXCEPT ![p] = x]

Receives(p, types) == down[p] # <<>> /\ Head(down[p]).type \in types

Received(p) == down' = [down EXCEPT ![p] = Tail(@)]

\* sendData on the non-blocking socket of the client.
CanSend(p) == conn[p] = "open" /\ Len(up[p]) < UpBuffer

SendUp(p, m) == up' = [up EXCEPT ![p] = IF CanSend(p) THEN Append(@, m) ELSE @]

-----------------------------------------------------------------------------
(* The stages.  Frames in which nothing happens are left out.              *)

\* GameStageLogin::connect succeeds.
Login(p) ==
  /\ At(p, "login", "input")
  /\ conn[p] = "none"
  /\ conn' = [conn EXCEPT ![p] = "open"]
  /\ resetReason' = [resetReason EXCEPT ![p] = ""]
  /\ setChangeState(p)
  /\ Then(p, "end")
  /\ UNCHANGED <<stage, gameVars, down, up>>

\* GameStageSelect::queue sends the avatar, or finds that it cannot.
Select(p) ==
  /\ At(p, "select", "input")
  /\ SendUp(p, "QUE")
  /\ IF CanSend(p)
     THEN setChangeState(p) /\ resetReason' = [resetReason EXCEPT ![p] = ""]
     ELSE resetRequest(p, "no connection")
  /\ Then(p, "end")
  /\ UNCHANGED <<stage, gameVars, conn, down>>

\* GameStageQueue::input: no packet for three seconds.
QueueTimeout(p) ==
  /\ At(p, "queue", "input")
  /\ down[p] = <<>> \/ Receives(p, {"trash"})
  /\ resetRequest(p, "no connection")
  /\ Then(p, "end")
  /\ UNCHANGED <<stage, gameVars, conn, down, up>>

\* Mutant: the packet does not restart the clock of the three seconds.
QueueCreateStaleTimer(p) ==
  /\ At(p, "queue", "input")
  /\ Receives(p, {"NCP"})
  /\ stageShouldChange' = [stageShouldChange EXCEPT ![p] = TRUE]
  /\ \E late \in BOOLEAN : shouldReset' = [shouldReset EXCEPT ![p] = late]
  /\ Then(p, "end")
  /\ UNCHANGED <<stage, resetReason, gameVars, conn, down, up>>

\* Mutant: the whole packet is read by the queue stage.
QueueCreateTakesAll(p) ==
  /\ At(p, "queue", "input")
  /\ Receives(p, {"NCP"})
  /\ setChangeState(p)
  /\ Received(p)
  /\ Then(p, "end")
  /\ UNCHANGED <<stage, resetReason, gameVars, conn, up>>

\* GameStageQueue::input reads one header per frame.  The rest of the packet
\* that creates the players is left to the next stage.
QueueCreate(p) ==
  /\ At(p, "queue", "input")
  /\ Receives(p, {"NCP"})
  /\ setChangeState(p)
  /\ Then(p, "end")
  /\ UNCHANGED <<stage, resetReason, gameVars, conn, down, up>>

\* The state of the queue is only shown; 'W' and 'K' do nothing here.
QueueMessage(p) ==
  /\ At(p, "queue", "input")
  /\ Receives(p, {"QUE", "T", "K", "W"})
  /\ Received(p)
  /\ UNCHANGED <<clientVars, conn, up>>

\* Nobody reads what follows the header of an update: it is read as headers,
\* three bytes per frame, until its end.  That one of them looks like a header is
\* left to PacketCodec.
QueueTrash(p) ==
  /\ At(p, "queue", "input")
  /\ \/ /\ Receives(p, {"NUP"})
        /\ down' = [down EXCEPT ![p][1].type = "trash"]
     \/ Receives(p, {"trash"}) /\ Received(p)
  /\ UNCHANGED <<clientVars, conn, up>>

\* GameStage1::input: handleCreate in the first frame, then handleUpdate sends
\* this player's update, whether or not that succeeds.
GameInput(p) ==
  /\ At(p, "game", "input")
  /\ SendUp(p, "NUP")
  /\ \/ iniciated[p] /\ UNCHANGED <<gameVars, down>>
     \/ /\ ~iniciated[p]
        /\ iniciated' = [iniciated EXCEPT ![p] = TRUE]
        /\ known' = [known EXCEPT ![p] = Head(down[p]).ids \ {p}]
        /\ Received(p)
  /\ Then(p, "read")
  /\ UNCHANGED <<stage, frameVars, conn>>

\* ... and reads whatever there is.  players.at throws for an unknown id.
ReadUpdate(p) ==
  /\ At(p, "game", "read")
  /\ Receives(p, {"NUP"})
  /\ Received(p)
  /\ UNCHANGED <<clientVars, conn, up>>

ReadKill(p) ==
  /\ At(p, "game", "read")
  /\ Receives(p, {"K"})
  /\ \/ /\ Head(down[p]).ids = {p}
        /\ resetRequest(p, "defeated")
        /\ UNCHANGED known
     \/ /\ Head(down[p]).ids # {p}
        /\ known' = [known EXCEPT ![p] = @ \ Head(down[p]).ids]
        /\ UNCHANGED frameVars
  /\ Received(p)
  /\ UNCHANGED <<stage, step, iniciated, conn, up>>

ReadWin(p) ==
  /\ At(p, "game", "read")
  /\ Receives(p, {"W"})
  /\ resetRequest(p, "won")
  /\ Received(p)
  /\ UNCHANGED <<stage, step, gameVars, conn, up>>

\* Nothing more to read, also when the server has closed the connection.  The
\* frame ends here if it made no request.
ReadNone(p) ==
  /\ At(p, "game", "read")
  /\ down[p] = <<>>
  /\ Then(p, IF shouldReset[p] THEN "end" ELSE "input")
  /\ UNCHANGED <<stage, frameVars, gameVars, conn, down, up>>

NextStage(s) == CASE s = "login"  -> "select"
                  [] s = "select" -> "queue"
                  [] s = "queue"  -> "game"

\* GameManager::run after the input: reset, which goes back to the first of
\* four new stages, and then the change of stage.
EndFrame(p) ==
  /\ step[p] = "end"
  /\ LET s == IF shouldReset[p] THEN "login" ELSE stage[p]
     IN  stage' = [stage EXCEPT ![p] = IF stageShouldChange[p] THEN NextStage(s) ELSE s]
  /\ IF shouldReset[p]
     THEN /\ conn' = [conn EXCEPT ![p] = "left"]
          /\ down' = [down EXCEPT ![p] = <<>>]
          /\ known' = [known EXCEPT ![p] = {}]
          /\ iniciated' = [iniciated EXCEPT ![p] = FALSE]
     ELSE UNCHANGED <<conn, down, gameVars>>
  /\ shouldReset' = [shouldReset EXCEPT ![p] = FALSE]
  /\ stageShouldChange' = [stageShouldChange EXCEPT ![p] = FALSE]
  /\ Then(p, "input")
  /\ UNCHANGED <<resetReason, up>>

\* Of these every step follows from the one before; Login and Select are
\* clicks of the user.
Frame(p) ==
  \/ QueueCreate(p)
  \/ QueueMessage(p)
  \/ QueueTrash(p)
  \/ GameInput(p)
  \/ ReadUpdate(p)
  \/ ReadKill(p)
  \/ ReadWin(p)
  \/ ReadNone(p)
  \/ EndFrame(p)

\* The user closes the window.
Quit(p) ==
  /\ step[p] = "input"
  /\ conn[p] \in {"open", "cut"}
  /\ stage' = [stage EXCEPT ![p] = "exit"]
  /\ conn' = [conn EXCEPT ![p] = "left"]
  /\ down' = [down EXCEPT ![p] = <<>>]
  /\ UNCHANGED <<step, frameVars, gameVars, up>>
=============================================================================
