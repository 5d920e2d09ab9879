---------------------------- MODULE TaskLifecycle ----------------------------
(***************************************************************************)
(* What the pipeline promises about a task, whoever processes it: it is    *)
(* started at most once, in the order of publication, by one of at most    *)
(* Slots consumers at a time; it ends at most once, either done or failed; *)
(* and it may be lost while it runs, after which nothing more is ever      *)
(* heard of it.  There is no second attempt.                               *)
(***************************************************************************)
EXTENDS Naturals, Sequences, FiniteSets

CONSTANTS Task, Slots

VARIABLES
  phase,   \* phase[t]: where the task is in its life
  order    \* the queued tasks, oldest first

Phase == {"new", "queued", "running", "done", "failed", "lost"}

Running == { t \in Task : phase[t] = "running" }

Move(t, from, to) ==
  /\ phase[t] = from
  /\ phase' = [phase EXCEPT ![t] = to]

Init ==
  /\ phase = [t \in Task |-> "new"]
  /\ order = << >>

Queue(t) ==
  /\ Move(t, "new", "queued")
  /\ order' = Append(order, t)

Start ==
  /\ order # << >>
  /\ Cardinality(Running) < Slots
  /\ Move(Head(order), "queued", "running")
  /\ order' = Tail(order)

Finish(t) ==
  /\ \E end \in {"done", "failed", "lost"} : Move(t, "running", end)
  /\ UNCHANGED order

Next == Start \/ \E t \in Task : Queue(t) \/ Finish(t)

Spec == Init /\ [][Next]_<< phase, order >>
=============================================================================
