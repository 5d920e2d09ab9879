---------------------------- MODULE MCSchedules ----------------------------
(***************************************************************************)
(* Model values for checking Schedules with TLC: an entry of one app, one  *)
(* of another, and one with a cron expression that cannot be run.          *)
(***************************************************************************)
EXTENDS Schedules

CONSTANTS i1, i2, p, q, daily, weekly, bad

Posted == { [app |-> p, cron |-> daily] }
Valid == Posted \cup { [app |-> q, cron |-> weekly] }
All == Valid \cup { [app |-> p, cron |-> bad] }

\* A fresh platform, and one with two schedules of one app.
Empty == [i \in Id |-> None]
Full == [i \in Id |-> [app |-> p, cron |-> daily]]
Tables == { Empty, Full }
NoTable == { Empty }
=============================================================================
