------------------------------ MODULE LockStep ------------------------------
(***************************************************************************)
(* What the four latches of a match promise to the player threads: they go *)
(* through the phases together.  Nobody begins the work of a phase before  *)
(* everybody who is still in the match has finished the phase before, and  *)
(* whoever was killed leaves at the end of phase 3.  The module GameMain   *)
(* implements this one.                                                    *)
(***************************************************************************)
EXTENDS Integers

CONSTANT Players

VARIABLES
  stage,  \* the phase being worked on
  at      \* how far each player is with it: "ready", "busy", "done" or "out"

Init ==
  /\ stage = 4
  /\ at = [p \in Players |-> "done"]

Begin(p) ==
  /\ stage # 4
  /\ at[p] = "ready"
  /\ at' = [at EXCEPT ![p] = "busy"]
  /\ UNCHANGED stage

\* Phase 4 belongs to the main thread: the players have nothing to do in it.
Finish(p) ==
  /\ at[p] = IF stage = 4 THEN "ready" ELSE "busy"
  /\ at' = [at EXCEPT ![p] = "done"]
  /\ UNCHANGED stage

Retire(p) ==
  /\ stage = 3
  /\ at[p] = "done"
  /\ at' = [at EXCEPT ![p] = "out"]
  /\ UNCHANGED stage

\* The last arrival, of a player who retires or not, releases everybody.
Advance ==
  /\ \A p \in Players : at[p] \in {"done", "out"}
  /\ stage' = IF stage = 4 THEN 1 ELSE stage + 1
  /\ at' \in [Players -> {"ready", "out"}]
  /\ \A p \in Players : at[p] = "out" => at'[p] = "out"
  /\ \A p \in Players : at[p] = "done" /\ at'[p] = "out" => stage = 3

Next ==
  \/ \E p \in Players : Begin(p) \/ Finish(p) \/ Retire(p)
  \/ Advance

Spec == Init /\ [][Next]_<<stage, at>>
=============================================================================
