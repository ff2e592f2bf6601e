--------------------------- MODULE MCGameProtocol ---------------------------
EXTENDS GameProtocol

\* Clients are compared for equality only.
Symmetry == Permutations(Players)

\* For the liveness properties, from where everybody waits in the lobby, which may
\* send its messages, drop a client or start the match, but need not.
WaitingInit ==
  /\ stage = [p \in Players |-> "queue"]
  /\ step = [p \in Players |-> "input"]
  /\ shouldReset = [p \in Players |-> FALSE]
  /\ stageShouldChange = [p \in Players |-> FALSE]
  /\ resetReason = [p \in Players |-> ""]
  /\ iniciated = [p \in Players |-> FALSE]
  /\ known = [p \in Players |-> {}]
  /\ conn = [p \in Players |-> "open"]
  /\ down = [p \in Players |-> <<>>]
  /\ up = [p \in Players |-> <<>>]
  /\ place = [p \in Players |-> "waiting"]
  /\ phase = "none"
  /\ todo = {}
  /\ clients = {}
  /\ invalid = <<>>
  /\ expired = {}
  /\ announced = {}
  /\ missed = {}

\* A match starts when the messages of the lobby have been read: read in the match
\* (as in Spec) they would only make the state larger.
WaitingNext ==
  \/ StartGame /\ \A p \in Players : down[p] = <<>>
  \/ Match
  \/ \E p \in Players : SendQueueState(p) \/ ClientStep(p) \/ Expire(p)

WaitingSpec == WaitingInit /\ [][WaitingNext]_vars /\ Fairness
=============================================================================
