------------------------------ MODULE Watchdog ------------------------------
(***************************************************************************)
(* The hardware watchdog: every five seconds it reads the temperature of   *)
(* the CPU, sends a message when it is warm, kills the containers of the   *)
(* heavy roles when it is hot, and takes the platform down when it is      *)
(* critical.  Two flags of its loop are to keep it from doing the first    *)
(* two again and again.                                                    *)
(*                                                                         *)
(* wdpc names what it does next: read (the sensors), down (docker compose  *)
(* down), kill (docker ps and docker kill of a role), notice, exited.      *)
(* Whatever docker or curl answer, the loop goes on.                       *)
(***************************************************************************)
EXTENDS Naturals

CONSTANTS
  Role,           \* values of the label beg-os.role that stage 1 kills
  MaxHeat,        \* bound: changes of the temperature or of the sensors
  MaxDockerEvents \* bound: containers that somebody starts, and docker commands that fail

ASSUME WatchdogAssumption == Role # {} /\ MaxHeat \in Nat /\ MaxDockerEvents \in Nat

VARIABLES
  heat, blind,    \* the temperature; no thermal zone can be read
  wdpc, peak,     \* peak: the last reading
  warned, stage1_triggered,
  toKill,         \* roles that kill_containers has still to be called for
  up,             \* roles that containers are running of
  excused,        \* those started after a hot reading, and those docker failed to kill
  heatEvents, dockerEvents

watchdogVars == << heat, blind, wdpc, peak, warned, stage1_triggered, toKill, up, excused,
                   heatEvents, dockerEvents >>

\* Below 80 degrees, from 80 on, from 85 on, from 90 on.
Level == 0 .. 3
WARN == 1
STAGE1 == 2
EMERGENCY == 3

WatchdogTypeOK ==
  /\ heat \in Level /\ blind \in BOOLEAN /\ peak \in Level
  /\ wdpc \in {"read", "down", "kill", "notice", "exited"}
  /\ warned \in BOOLEAN /\ stage1_triggered \in BOOLEAN
  /\ toKill \subseteq Role /\ up \subseteq Role /\ excused \subseteq Role
  /\ wdpc = "kill" <=> toKill # {}
  /\ heatEvents \in 0 .. MaxHeat /\ dockerEvents \in 0 .. MaxDockerEvents

WatchdogInit ==
  /\ heat = 0 /\ blind = FALSE /\ peak = 0
  /\ wdpc = "read" /\ warned = FALSE /\ stage1_triggered = FALSE /\ toKill = {}
  /\ up = Role /\ excused = {}
  /\ heatEvents = 0 /\ dockerEvents = 0

CountDockerEvent == dockerEvents < MaxDockerEvents /\ dockerEvents' = dockerEvents + 1

-----------------------------------------------------------------------------
\* The temperature changes, or the zones can be read no more, or again.
Heat(h, b) ==
  /\ heatEvents < MaxHeat /\ << h, b >> # << heat, blind >>
  /\ heatEvents' = heatEvents + 1
  /\ heat' = h /\ blind' = b
  /\ UNCHANGED << wdpc, peak, warned, stage1_triggered, toKill, up, excused,
                  dockerEvents >>

\* Somebody starts the containers of a role.
StartContainers(r) ==
  /\ r \notin up
  /\ CountDockerEvent
  /\ up' = up \cup {r}
  /\ excused' = IF peak >= STAGE1 THEN excused \cup {r} ELSE excused
  /\ UNCHANGED << heat, blind, wdpc, peak, warned, stage1_triggered, toKill,
                  heatEvents >>

-----------------------------------------------------------------------------
(* main.                                                                   *)

\* Mutant: the flag is not reset when it is cool again.
Stage1AfterOnce(reading) == stage1_triggered \/ reading >= STAGE1

\* The flag after a reading, which keeps its value in an emergency.
Stage1After(reading) == IF reading = EMERGENCY THEN stage1_triggered ELSE reading >= STAGE1

CommandAfter(reading) ==
  CASE reading = EMERGENCY -> "down"
    [] reading = STAGE1 /\ ~stage1_triggered -> "kill"
    [] OTHER -> "notice"

\* One round up to its first command: the maximum of what can be read, 0 of nothing.  The
\* messages of stage 1 and of an emergency are sent before docker is called.
ReadTemps ==
  LET reading == IF blind THEN 0 ELSE heat
  IN /\ wdpc = "read"
     /\ peak' = reading
     /\ wdpc' = CommandAfter(reading)
     /\ stage1_triggered' = Stage1After(reading)
     /\ toKill' = IF wdpc' = "kill" THEN Role ELSE {}
     /\ excused' = IF reading < STAGE1 THEN {} ELSE excused
     /\ UNCHANGED << heat, blind, warned, up, heatEvents, dockerEvents >>

\* kill_containers, role by role; what docker fails to list or kill is not tried again.
KillContainers(r) ==
  /\ wdpc = "kill" /\ r \in toKill
  /\ \/ up' = up \ {r} /\ excused' = excused \ {r} /\ UNCHANGED dockerEvents
     \/ CountDockerEvent /\ excused' = excused \cup {r} /\ UNCHANGED up
  /\ toKill' = toKill \ {r}
  /\ wdpc' = IF toKill' = {} THEN "notice" ELSE "kill"
  /\ UNCHANGED << heat, blind, peak, warned, stage1_triggered, heatEvents >>

\* The end of the round: a message when it has become warm, and the sleep.
Notice ==
  /\ wdpc = "notice"
  /\ wdpc' = "read"
  /\ warned' = (peak >= WARN)
  /\ UNCHANGED << heat, blind, peak, stage1_triggered, toKill, up, excused, heatEvents,
                  dockerEvents >>

\* docker compose down, which may fail or take too long; the watchdog exits all the same.
ComposeDown ==
  /\ wdpc = "down"
  /\ wdpc' = "exited"
  /\ \/ up' = {} /\ UNCHANGED dockerEvents
     \/ CountDockerEvent /\ UNCHANGED up
  /\ UNCHANGED << heat, blind, peak, warned, stage1_triggered, toKill, excused,
                  heatEvents >>

WatchdogStep == ReadTemps \/ (\E r \in Role : KillContainers(r)) \/ Notice \/ ComposeDown

WatchdogNext ==
  \/ WatchdogStep
  \/ \E h \in Level, b \in BOOLEAN : Heat(h, b)
  \/ \E r \in Role : StartContainers(r)

WatchdogSpec == WatchdogInit /\ [][WatchdogNext]_watchdogVars

-----------------------------------------------------------------------------
\* Between two rounds, as long as readings are hot, no container of a heavy role runs that
\* was there when the first of them was taken, or started before it, unless docker failed
\* to kill it: in every excursion anew, from whatever level it came.
HotStopsTheWork == wdpc = "read" /\ peak >= STAGE1 => up \subseteq excused
=============================================================================
