------------------------------- MODULE RunLife -------------------------------
(***************************************************************************)
(* What the store of terminal pipeline runs promises: a run is begun once, *)
(* gets one verdict and keeps it, and only a run that has its verdict is   *)
(* ever given as the answer for a file.                                    *)
(***************************************************************************)
CONSTANTS Runs, Hashes, Verdicts, NONE

VARIABLES
  state,    \* state[r]: NONE, "RUNNING" or the verdict of run r
  answer    \* answer[h]: the run that answers for files with hash h

vars == <<state, answer>>

Init ==
  /\ state = [r \in Runs |-> NONE]
  /\ answer = <<>>

Start(r) ==
  /\ state[r] = NONE
  /\ state' = [state EXCEPT ![r] = "RUNNING"]
  /\ UNCHANGED answer

Finish(r, v) ==
  /\ state[r] = "RUNNING"
  /\ state' = [state EXCEPT ![r] = v]
  /\ UNCHANGED answer

Answer(h, r) ==
  /\ state[r] \in Verdicts
  /\ answer' = [g \in DOMAIN answer \cup {h} |-> IF g = h THEN r ELSE answer[g]]
  /\ UNCHANGED state

Next ==
  \/ \E r \in Runs : Start(r) \/ (\E v \in Verdicts : Finish(r, v))
  \/ answer' # answer /\ \E h \in Hashes, r \in Runs : Answer(h, r)

Spec == Init /\ [][Next]_vars
=============================================================================
