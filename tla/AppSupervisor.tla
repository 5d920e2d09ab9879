---------------------------- MODULE AppSupervisor ----------------------------
(***************************************************************************)
(* The app supervisor of the platform controller and the processes it      *)
(* starts.  Every start of an app gets the next port, which the SDK        *)
(* registers with the bridge as the URL to call the app at, before the     *)
(* server of the app binds the port its main.py asks for.  Processes are   *)
(* in sessions of their own: they outlive the controller, and one that     *)
(* takes more than 5 s to obey SIGTERM outlives its stop.                  *)
(*                                                                         *)
(* start_app and stop_app hold the event loop from beginning to end (the   *)
(* wait of 5 s blocks it), so each is one step of the controller; a tick   *)
(* of the watch loop is one step for each dead app, with no request served *)
(* in between.  Other parts of the controller's startup appear as its      *)
(* death at any time.                                                      *)
(***************************************************************************)
EXTENDS Naturals, Sequences

CONSTANTS
  App,
  OwnPort,         \* the port an app's main.py passes to run; 0: the one of its callback URL
  MaxStarts,       \* bound: processes ever started
  MaxLives,        \* bound: times the controller is started
  MaxEdits,        \* bound: changes of app folders
  MaxAppFailures   \* bound: crashes of apps and controller, failing registrations

ASSUME SupervisorAssumption ==
  /\ OwnPort \in [App -> Nat]
  /\ MaxStarts \in Nat /\ MaxLives \in Nat /\ MaxEdits \in Nat /\ MaxAppFailures \in Nat

VARIABLES
  folder,       \* folder[a]: what start_app would find
  procs,        \* the processes ever started, the oldest first
  running,      \* running_apps: running[a] is the process known as a's, 0 when none
  nextPort,
  controller, life,   \* life: how often it was started
  toDiscover,   \* folders discover_and_start has still to look at
  watching,     \* the watch task is alive
  dead,         \* what is left of _watch_tick's list
  calledAt,     \* the bridge's callback of an app: the process that registered it, or 0
  edits, appFailures

controllerVars == << running, nextPort, controller, life, toDiscover, watching, dead >>
bounds == << edits, appFailures >>
supervisorVars == << folder, procs, controllerVars, calledAt, bounds >>

\* A process to supervise; a container's, or a manifest AppProcess rejects with ValueError;
\* something else raises (not a JSON object, or the start itself fails); no folder.
Folder == {"process", "skipped", "broken", "none"}

Process ==
  [app : App, port : 1 .. MaxStarts, life : 1 .. MaxLives, told : BOOLEAN,
   registered : BOOLEAN, at : {"starting", "serving", "exited"}]

ProcOrNone == 0 .. Len(procs)
Alive(n) == procs[n].at # "exited"

\* running_apps knows only processes of this life of the controller, under their app's name.
SupervisorTypeOK ==
  /\ folder \in [App -> Folder]
  /\ procs \in Seq(Process) /\ Len(procs) <= MaxStarts
  /\ running \in [App -> ProcOrNone] /\ calledAt \in [App -> ProcOrNone]
  /\ nextPort \in 1 .. MaxStarts + 1
  /\ controller \in {"down", "discovering", "up"} /\ life \in 0 .. MaxLives
  /\ toDiscover \subseteq App /\ dead \subseteq App
  /\ watching => controller = "up"
  /\ dead # {} => watching
  /\ controller = "down" => \A a \in App : running[a] = 0
  /\ edits \in 0 .. MaxEdits /\ appFailures \in 0 .. MaxAppFailures
  /\ \A a \in App :
       /\ running[a] # 0 => procs[running[a]].app = a /\ procs[running[a]].life = life
       /\ calledAt[a] # 0 => procs[calledAt[a]].app = a

SupervisorInit ==
  /\ folder = [a \in App |-> "process"]
  /\ procs = << >>
  /\ running = [a \in App |-> 0] /\ calledAt = [a \in App |-> 0]
  /\ nextPort = 1
  /\ controller = "down" /\ life = 0
  /\ toDiscover = {} /\ dead = {} /\ watching = FALSE
  /\ edits = 0 /\ appFailures = 0

CountAppFailure == appFailures < MaxAppFailures /\ appFailures' = appFailures + 1

-----------------------------------------------------------------------------
(* Starting and stopping an app.                                           *)

\* AppProcess.stop: the process ends within 5 s, or it is left to itself.
StopOutcomes(a) ==
  IF running[a] = 0 \/ ~Alive(running[a]) THEN {procs}
  ELSE { [procs EXCEPT ![running[a]].at = "exited"], [procs EXCEPT ![running[a]].told = TRUE] }

\* Mutant: a port is free again when its app has stopped.
FreePort(a) ==
  CHOOSE p \in 1 .. MaxStarts : \A b \in App \ {a} : running[b] # 0 => procs[running[b]].port # p

GivenPort(a) == nextPort

Spawn(a, others) ==
  /\ folder[a] = "process" /\ Len(procs) < MaxStarts
  /\ procs' = Append(others, [app |-> a, port |-> GivenPort(a), life |-> life, told |-> FALSE,
                              registered |-> FALSE, at |-> "starting"])
  /\ running' = [running EXCEPT ![a] = Len(procs) + 1]
  /\ nextPort' = nextPort + 1

\* Mutant: an app that is known as running is left alone.
StartOnlyNew(a) == running[a] = 0 /\ Spawn(a, procs)

\* Mutant: the process known as the app's is not stopped first.
StartWithoutStop(a) == Spawn(a, procs)

\* start_app of a folder with an app to start.
StartProcess(a) == \E stopped \in StopOutcomes(a) : Spawn(a, stopped)

\* start_app stops the app, and starts nothing: it is a container's, or was rejected,
\* or the start raised.
OnlyStop(a) ==
  /\ procs' \in StopOutcomes(a)
  /\ running' = [running EXCEPT ![a] = 0]
  /\ UNCHANGED nextPort

StartApp(a) ==
  \/ StartProcess(a)
  \/ folder[a] = "skipped" /\ OnlyStop(a)
StartAppRaises(a) == folder[a] \in {"broken", "none"} /\ OnlyStop(a)

-----------------------------------------------------------------------------
(* The controller.                                                         *)

StartController ==
  /\ controller = "down" /\ life < MaxLives
  /\ controller' = "discovering"
  /\ life' = life + 1
  /\ nextPort' = 1
  /\ toDiscover' = App
  /\ UNCHANGED << folder, procs, running, watching, dead, calledAt, bounds >>

\* One round of the loop of discover_and_start, over the folders in any order.
Discover(a) ==
  /\ controller = "discovering" /\ a \in toDiscover
  /\ \/ StartApp(a)
     \/ folder[a] = "none" /\ UNCHANGED << procs, running, nextPort >>
  /\ toDiscover' = toDiscover \ {a}
  /\ UNCHANGED << folder, controller, life, watching, dead, calledAt, bounds >>

\* Mutant: what the controller knows is kept, for its next life.
ControllerGoneButKnows ==
  /\ controller' = "down"
  /\ toDiscover' = {} /\ dead' = {} /\ watching' = FALSE
  /\ UNCHANGED << folder, procs, running, nextPort, life, calledAt, edits >>

\* What the controller knows is gone; the processes stay.
ControllerGone ==
  /\ controller' = "down"
  /\ running' = [a \in App |-> 0]
  /\ toDiscover' = {} /\ dead' = {} /\ watching' = FALSE
  /\ UNCHANGED << folder, procs, nextPort, life, calledAt, edits >>

\* The exception ends the startup, and with it the controller.
DiscoverFails(a) ==
  /\ controller = "discovering" /\ a \in toDiscover
  /\ folder[a] = "broken"
  /\ ControllerGone
  /\ UNCHANGED appFailures

FinishStartup ==
  /\ controller = "discovering" /\ toDiscover = {}
  /\ controller' = "up" /\ watching' = TRUE
  /\ UNCHANGED << folder, procs, running, nextPort, life, toDiscover, dead, calledAt, bounds >>

CrashController ==
  /\ controller # "down"
  /\ CountAppFailure
  /\ ControllerGone

\* POST /apps/reload; an exception becomes a 500.
Reload(a) ==
  /\ controller = "up" /\ dead = {}
  /\ StartApp(a) \/ StartAppRaises(a)
  /\ UNCHANGED << folder, controller, life, toDiscover, watching, dead, calledAt, bounds >>

KnownDead == { a \in App : running[a] # 0 /\ ~Alive(running[a]) }

WatchTick ==
  /\ watching /\ dead = {}
  /\ KnownDead # {}
  /\ dead' = KnownDead
  /\ UNCHANGED << folder, procs, running, nextPort, controller, life, toDiscover, watching,
                  calledAt, bounds >>

RestartDead(a) ==
  /\ a \in dead
  /\ StartApp(a)
  /\ dead' = dead \ {a}
  /\ UNCHANGED << folder, controller, life, toDiscover, watching, calledAt, bounds >>

\* Nothing catches the exception: it ends the tick and the watch task.
WatchTaskDies(a) ==
  /\ a \in dead
  /\ StartAppRaises(a)
  /\ dead' = {} /\ watching' = FALSE
  /\ UNCHANGED << folder, controller, life, toDiscover, calledAt, bounds >>

-----------------------------------------------------------------------------
(* The processes, and calls to them.                                       *)

Listens(n) ==
  LET fixed == OwnPort[procs[n].app] IN IF fixed = 0 THEN procs[n].port ELSE fixed

\* Who answers a request to the URL process m registered, if anybody does.
Answers(n, m) == procs[n].at = "serving" /\ Listens(n) = procs[m].port

PortTaken(n) ==
  \E m \in 1 .. Len(procs) : procs[m].at = "serving" /\ Listens(m) = Listens(n)

\* BelgradeApp.run: the startup event sends one request to the bridge, whatever becomes of
\* it; then the server binds its port, and exits when it cannot or was told to stop.
Startup(n) ==
  /\ procs[n].at = "starting"
  /\ \E ok \in BOOLEAN :
       /\ IF ok THEN UNCHANGED appFailures ELSE CountAppFailure
       /\ calledAt' = IF ok THEN [calledAt EXCEPT ![procs[n].app] = n] ELSE calledAt
       /\ procs' = [procs EXCEPT
            ![n].registered = ok,
            ![n].at = IF procs[n].told \/ PortTaken(n) THEN "exited" ELSE "serving"]
  /\ UNCHANGED << folder, controllerVars, edits >>

\* A process that was told to stop finishes in the end.
ObeyLate(n) ==
  /\ procs[n].told /\ procs[n].at = "serving"
  /\ procs' = [procs EXCEPT ![n].at = "exited"]
  /\ UNCHANGED << folder, controllerVars, calledAt, bounds >>

CrashApp(n) ==
  /\ Alive(n)
  /\ CountAppFailure
  /\ procs' = [procs EXCEPT ![n].at = "exited"]
  /\ UNCHANGED << folder, controllerVars, calledAt, edits >>

\* Somebody deploys, edits or removes an app.
Edit(a, f) ==
  /\ edits < MaxEdits
  /\ f # folder[a]
  /\ edits' = edits + 1
  /\ folder' = [folder EXCEPT ![a] = f]
  /\ UNCHANGED << procs, controllerVars, calledAt, appFailures >>

Proc == 1 .. MaxStarts
Started(n) == n \in 1 .. Len(procs)

SupervisorNext ==
  \/ StartController \/ FinishStartup \/ CrashController \/ WatchTick
  \/ \E a \in App :
       \/ Discover(a) \/ DiscoverFails(a) \/ Reload(a) \/ RestartDead(a) \/ WatchTaskDies(a)
       \/ \E f \in Folder : Edit(a, f)
  \/ \E n \in Proc : Started(n) /\ (Startup(n) \/ ObeyLate(n) \/ CrashApp(n))

SupervisorSpec == SupervisorInit /\ [][SupervisorNext]_supervisorVars

\* The controller's event loop runs, and so do the processes of apps; nobody need start a
\* controller, reload an app or edit a folder.
SupervisorFairness ==
  /\ WF_supervisorVars(WatchTick)
  /\ WF_supervisorVars(\E a \in App : RestartDead(a) \/ WatchTaskDies(a))
  /\ WF_supervisorVars(\E n \in Proc : Started(n) /\ (Startup(n) \/ ObeyLate(n)))

-----------------------------------------------------------------------------
\* Of the processes a controller has started and not told to stop, at most one of an app is
\* alive, the one it knows: none is forgotten, whatever dies, is reloaded or edited when.
NoneIsForgotten ==
  \A n \in 1 .. Len(procs) :
    controller # "down" /\ Alive(n) /\ ~procs[n].told /\ procs[n].life = life =>
      running[procs[n].app] = n

\* A URL that was registered with the bridge under this controller, and that calls may be on
\* their way to long after, is answered by nobody but its app, also when that has moved on,
\* or by a server that chose its port itself.
AnsweredByItsApp ==
  \A m, n \in 1 .. Len(procs) :
    procs[m].registered /\ procs[m].life = life /\ procs[n].life = life /\ Answers(n, m) =>
      procs[n].app = procs[m].app \/ OwnPort[procs[n].app] # 0

\* "Watchdog loop restarts any app that exits unexpectedly": it serves again in the end,
\* unless the watch task dies, its folder holds nothing to start any more, or the bound of
\* starts is reached (as when a process of an earlier life, which nobody stops, keeps the
\* app's own port, and every restart exits again).
Serving(a) == running[a] # 0 /\ procs[running[a]].at = "serving"
DeadAppComesBack ==
  \A a \in App :
    watching /\ a \in KnownDead ~>
      Serving(a) \/ ~watching \/ running[a] = 0 \/ Len(procs) = MaxStarts
=============================================================================
