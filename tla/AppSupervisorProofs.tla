------------------------- MODULE AppSupervisorProofs -------------------------
(***************************************************************************)
(* The supervisor forgets no process it has started, and gives no port of  *)
(* one app to another while it lives.                                      *)
(*                                                                         *)
(* The processes of one life of the controller have different ports; those *)
(* of this life have ports below the next one, which is never beyond the   *)
(* number of starts.  What processes do by themselves, and what a stop     *)
(* does to one, only ever makes them older: they keep their app, port and  *)
(* life, and come back neither from the dead nor from being told to stop.  *)
(*                                                                         *)
(* The second part adds a call on its way (AppCalls), beside which the     *)
(* supervisor takes only steps of its own.                                 *)
(***************************************************************************)
EXTENDS AppCalls, SequenceTheorems, TLAPS

\* s is what the processes may become without a start.
Later(s) ==
  /\ s \in Seq(Process)
  /\ Len(s) = Len(procs)
  /\ \A n \in 1 .. Len(procs) :
       /\ s[n].app = procs[n].app /\ s[n].port = procs[n].port /\ s[n].life = procs[n].life
       /\ s[n].at # "exited" => Alive(n)
       /\ procs[n].told => s[n].told

PortsApart ==
  /\ nextPort <= Len(procs) + 1
  /\ controller # "down" => life > 0
  /\ \A n \in 1 .. Len(procs) :
       /\ procs[n].life <= life
       /\ procs[n].life = life => procs[n].port < nextPort
       /\ \A m \in 1 .. Len(procs) :
            procs[m].life = procs[n].life /\ m # n => procs[m].port # procs[n].port

IInv == SupervisorTypeOK /\ PortsApart /\ NoneIsForgotten

\* The part of the type that is about processes, and the rest of it.
ProcsOK ==
  /\ procs \in Seq(Process) /\ Len(procs) <= MaxStarts
  /\ running \in [App -> ProcOrNone] /\ calledAt \in [App -> ProcOrNone]
  /\ \A a \in App :
       /\ running[a] # 0 => procs[running[a]].app = a /\ procs[running[a]].life = life
       /\ calledAt[a] # 0 => procs[calledAt[a]].app = a

ControlOK ==
  /\ folder \in [App -> Folder]
  /\ nextPort \in 1 .. MaxStarts + 1
  /\ controller \in {"down", "discovering", "up"} /\ life \in 0 .. MaxLives
  /\ toDiscover \subseteq App /\ dead \subseteq App
  /\ watching => controller = "up"
  /\ dead # {} => watching
  /\ controller = "down" => \A a \in App : running[a] = 0
  /\ edits \in 0 .. MaxEdits /\ appFailures \in 0 .. MaxAppFailures

LEMMA TypeSplit == SupervisorTypeOK <=> ProcsOK /\ ControlOK
BY DEF SupervisorTypeOK, ProcsOK, ControlOK

\* One process of a sequence replaced by an older one of the same app.
LEMMA Aging ==
  ASSUME procs \in Seq(Process), NEW n \in 1 .. Len(procs), NEW e \in Process,
         e.app = procs[n].app, e.port = procs[n].port, e.life = procs[n].life,
         e.at # "exited" => Alive(n), procs[n].told => e.told
  PROVE  Later([procs EXCEPT ![n] = e])
<1> DEFINE s == [procs EXCEPT ![n] = e]
<1>1. s \in Seq(Process) /\ Len(s) = Len(procs)
  BY ExceptSeq
<1>2. \A m \in 1 .. Len(procs) : s[m] = IF m = n THEN e ELSE procs[m]
  OBVIOUS
<1> QED
  BY <1>1, <1>2 DEF Later, Alive

LEMMA Stopping ==
  ASSUME SupervisorTypeOK, NEW a \in App, NEW s \in StopOutcomes(a)
  PROVE  /\ Later(s)
         /\ running[a] # 0 => s[running[a]].at = "exited" \/ s[running[a]].told
<1> DEFINE n == running[a]
<1>1. CASE n = 0 \/ ~Alive(n)
  <2>1. s = procs
    BY <1>1 DEF StopOutcomes
  <2> QED
    BY <1>1, <2>1 DEF SupervisorTypeOK, Later, Alive
<1>2. CASE n # 0 /\ Alive(n)
  <2>1. n \in 1 .. Len(procs) /\ procs \in Seq(Process) /\ procs[n] \in Process
    BY <1>2 DEF SupervisorTypeOK, ProcOrNone
  <2>2. PICK e \in Process :
          /\ s = [procs EXCEPT ![n] = e]
          /\ e = [procs[n] EXCEPT !.at = "exited"] \/ e = [procs[n] EXCEPT !.told = TRUE]
    BY <1>2, <2>1 DEF StopOutcomes, Process
  <2>3. e.at = "exited" \/ e.told
    BY <2>1, <2>2 DEF Process
  <2>4. /\ e.app = procs[n].app /\ e.port = procs[n].port /\ e.life = procs[n].life
        /\ e.at # "exited" => Alive(n)
        /\ procs[n].told => e.told
    BY <2>1, <2>2 DEF Process, Alive
  <2>5. Later(s)
    BY <2>1, <2>2, <2>4, Aging
  <2> QED
    BY <2>1, <2>2, <2>3, <2>5
<1> QED
  BY <1>1, <1>2

\* What is known of processes stays known of older ones.
LEMMA AgingKeeps ==
  ASSUME IInv, Later(procs'), running' = running, nextPort' = nextPort,
         controller' = controller, life' = life
  PROVE  PortsApart' /\ NoneIsForgotten'
<1>1. PortsApart'
  BY DEF IInv, PortsApart, Later
<1>2. NoneIsForgotten'
  <2> SUFFICES ASSUME NEW n \in 1 .. Len(procs'), controller' # "down", Alive(n)',
                      ~procs'[n].told, procs'[n].life = life'
               PROVE  running'[procs'[n].app] = n
    BY DEF NoneIsForgotten
  <2>1. /\ n \in 1 .. Len(procs) /\ procs'[n].app = procs[n].app /\ procs'[n].life = procs[n].life
        /\ Alive(n) /\ (procs[n].told => procs'[n].told)
    BY DEF Later, Alive
  <2>2. ~procs[n].told
    BY <2>1
  <2> QED
    BY <2>1, <2>2 DEF IInv, NoneIsForgotten
<1> QED
  BY <1>1, <1>2

\* Older processes are typed as they were, and known as what they were known as.
LEMMA AgingTyped ==
  ASSUME SupervisorTypeOK, Later(procs'), life' = life,
         NEW f, f = running \/ f = calledAt
  PROVE  /\ procs' \in Seq(Process) /\ Len(procs') <= MaxStarts
         /\ f \in [App -> ProcOrNone']
         /\ \A a \in App : f[a] # 0 =>
              /\ procs'[f[a]].app = a
              /\ procs'[f[a]].life = procs[f[a]].life
<1>1. ProcOrNone' = ProcOrNone /\ f \in [App -> ProcOrNone]
  BY DEF SupervisorTypeOK, Later, ProcOrNone
<1>2. \A a \in App : f[a] # 0 => f[a] \in 1 .. Len(procs) /\ procs[f[a]].app = a
  BY <1>1 DEF SupervisorTypeOK, ProcOrNone
<1> QED
  BY <1>1, <1>2 DEF SupervisorTypeOK, Later

LEMMA SpawnStep ==
  ASSUME SupervisorAssumption, IInv, controller # "down", NEW a \in App, StartProcess(a),
         controller' = controller, life' = life
  PROVE  /\ procs' \in Seq(Process) /\ Len(procs') <= MaxStarts
         /\ Len(procs') = Len(procs) + 1
         /\ running' = [running EXCEPT ![a] = Len(procs')]
         /\ procs'[Len(procs')].app = a /\ procs'[Len(procs')].life = life
         /\ \A n \in 1 .. Len(procs) : procs'[n].app = procs[n].app /\ procs'[n].life = procs[n].life
         /\ nextPort' \in 1 .. MaxStarts + 1
         /\ PortsApart' /\ NoneIsForgotten'
<1>1. PICK s \in StopOutcomes(a) : Spawn(a, s)
  BY DEF StartProcess
<1>2. Later(s) /\ (running[a] # 0 => s[running[a]].at = "exited" \/ s[running[a]].told)
  BY <1>1, Stopping DEF IInv
<1> DEFINE new == [app |-> a, port |-> nextPort, life |-> life, told |-> FALSE,
                   registered |-> FALSE, at |-> "starting"]
<1>3. /\ Len(procs) \in Nat /\ Len(procs) < MaxStarts /\ MaxStarts \in Nat
      /\ nextPort \in 1 .. MaxStarts /\ life \in 1 .. MaxLives /\ MaxLives \in Nat
  BY <1>1 DEF IInv, SupervisorTypeOK, PortsApart, Spawn, SupervisorAssumption
<1>4. new \in Process
  BY <1>3 DEF Process
<1>5. /\ procs' = Append(s, new)
      /\ nextPort' = nextPort + 1
      /\ running' = [running EXCEPT ![a] = Len(procs) + 1]
  BY <1>1 DEF Spawn, GivenPort
<1>6. /\ procs' \in Seq(Process) /\ Len(procs') = Len(procs) + 1
      /\ procs'[Len(procs) + 1] = new
      /\ \A n \in 1 .. Len(procs) : procs'[n] = s[n]
  BY <1>2, <1>3, <1>4, <1>5 DEF Later
<1>7. \A n \in 1 .. Len(procs) :
        /\ procs'[n].app = procs[n].app /\ procs'[n].port = procs[n].port
        /\ procs'[n].life = procs[n].life
        /\ procs'[n].at # "exited" => Alive(n)
        /\ procs[n].told => procs'[n].told
  BY <1>2, <1>6 DEF Later
<1>8. PortsApart'
  <2>1. nextPort \in Nat /\ nextPort' = nextPort + 1 /\ nextPort <= Len(procs) + 1
    BY <1>3, <1>5 DEF IInv, PortsApart
  <2>2. /\ procs'[Len(procs) + 1].life = life
        /\ procs'[Len(procs) + 1].port = nextPort
    BY <1>6
  <2>3. ASSUME NEW n \in 1 .. Len(procs)
        PROVE  /\ procs'[n].port \in Nat
               /\ procs'[n].life <= life
               /\ procs'[n].life = life => procs'[n].port < nextPort
    <3>1. procs[n] \in Process
      BY DEF IInv, SupervisorTypeOK
    <3>2. procs[n].port \in Nat
      BY <3>1 DEF Process
    <3> QED
      BY <1>7, <3>2 DEF IInv, PortsApart
  <2>4. ASSUME NEW n \in 1 .. Len(procs), NEW m \in 1 .. Len(procs), m # n,
               procs'[n].life = procs'[m].life
        PROVE  procs'[m].port # procs'[n].port
    BY <1>7, <2>4 DEF IInv, PortsApart
  <2>5. ASSUME NEW n \in 1 .. Len(procs')
        PROVE  n \in 1 .. Len(procs) \/ n = Len(procs) + 1
    BY <1>3, <1>6
  <2>6. ASSUME NEW n \in 1 .. Len(procs')
        PROVE  procs'[n].life <= life /\ (procs'[n].life = life => procs'[n].port < nextPort')
    <3>1. CASE n \in 1 .. Len(procs)
      BY <2>1, <2>3, <3>1
    <3>2. CASE n = Len(procs) + 1
      BY <1>3, <2>1, <2>2, <3>2
    <3> QED
      BY <2>5, <3>1, <3>2
  <2>7. ASSUME NEW n \in 1 .. Len(procs'), NEW m \in 1 .. Len(procs'), m # n,
               procs'[n].life = procs'[m].life
        PROVE  procs'[m].port # procs'[n].port
    <3>1. CASE n \in 1 .. Len(procs) /\ m \in 1 .. Len(procs)
      BY <2>4, <2>7, <3>1
    <3>2. CASE n = Len(procs) + 1 /\ m \in 1 .. Len(procs)
      <4>1. procs'[m].port \in Nat /\ procs'[m].port < nextPort
        BY <2>2, <2>3, <2>7, <3>2
      <4> QED
        BY <2>1, <2>2, <3>2, <4>1
    <3>3. CASE n \in 1 .. Len(procs) /\ m = Len(procs) + 1
      <4>1. procs'[n].port \in Nat /\ procs'[n].port < nextPort
        BY <2>2, <2>3, <2>7, <3>3
      <4> QED
        BY <2>1, <2>2, <3>3, <4>1
    <3> QED
      BY <2>5, <2>7, <3>1, <3>2, <3>3
  <2>8. controller # "down" => life > 0
    BY <1>3
  <2>9. nextPort' <= Len(procs') + 1
    BY <1>3, <1>6, <2>1
  <2> QED
    BY <2>6, <2>7, <2>8, <2>9 DEF PortsApart
<1>9. NoneIsForgotten'
  <2> SUFFICES ASSUME NEW n \in 1 .. Len(procs'), Alive(n)', ~procs'[n].told,
                      procs'[n].life = life
               PROVE  running'[procs'[n].app] = n
    BY DEF NoneIsForgotten
  <2>1. running \in [App -> ProcOrNone] /\ procs'[n].app \in App
    <3>1. procs'[n] \in Process
      BY <1>6
    <3> QED
      BY <3>1 DEF IInv, SupervisorTypeOK, Process
  <2>2. CASE n = Len(procs) + 1
    BY <1>5, <1>6, <2>1, <2>2
  <2>3. CASE n # Len(procs) + 1
    <3>1. n \in 1 .. Len(procs) /\ procs'[n] = s[n]
      BY <1>3, <1>6, <2>3
    <3>2. Alive(n) /\ ~procs[n].told /\ procs[n].life = life /\ procs'[n].app = procs[n].app
      BY <1>7, <3>1 DEF Alive
    <3>3. running[procs[n].app] = n
      BY <3>1, <3>2 DEF IInv, NoneIsForgotten
    <3>4. procs[n].app # a
      BY <1>2, <3>1, <3>3 DEF Alive
    <3> QED
      BY <1>5, <2>1, <3>2, <3>3, <3>4
  <2> QED
    BY <2>2, <2>3
<1>10. /\ running' = [running EXCEPT ![a] = Len(procs')]
       /\ procs'[Len(procs')].app = a /\ procs'[Len(procs')].life = life
  <2>1. Len(procs') = Len(procs) + 1
    BY <1>6
  <2>2. running' = [running EXCEPT ![a] = Len(procs')]
    BY <1>5, <2>1
  <2>3. procs'[Len(procs')].app = a /\ procs'[Len(procs')].life = life
    BY <1>6, <2>1
  <2> QED
    BY <2>2, <2>3
<1>11. Len(procs') <= MaxStarts /\ nextPort' \in 1 .. MaxStarts + 1
  BY <1>3, <1>5, <1>6
<1>12. /\ procs' \in Seq(Process) /\ Len(procs') = Len(procs) + 1
       /\ \A n \in 1 .. Len(procs) : procs'[n].app = procs[n].app /\ procs'[n].life = procs[n].life
  BY <1>6, <1>7
<1> QED
  BY <1>8, <1>9, <1>10, <1>11, <1>12

LEMMA OnlyStopStep ==
  ASSUME IInv, NEW a \in App, OnlyStop(a), controller' = controller, life' = life
  PROVE  /\ Later(procs')
         /\ running' = [running EXCEPT ![a] = 0]
         /\ PortsApart' /\ NoneIsForgotten'
<1>1. Later(procs') /\ (running[a] # 0 => procs'[running[a]].at = "exited" \/ procs'[running[a]].told)
  BY Stopping DEF IInv, OnlyStop
<1>2. PortsApart'
  BY <1>1 DEF IInv, PortsApart, Later, OnlyStop
<1>3. NoneIsForgotten'
  <2> SUFFICES ASSUME NEW n \in 1 .. Len(procs'), controller' # "down", Alive(n)',
                      ~procs'[n].told, procs'[n].life = life
               PROVE  running'[procs'[n].app] = n
    BY DEF NoneIsForgotten
  <2>1. n \in 1 .. Len(procs) /\ Alive(n) /\ ~procs[n].told /\ procs[n].life = life
        /\ procs'[n].app = procs[n].app
    BY <1>1 DEF Later, Alive
  <2>2. running[procs[n].app] = n
    BY <2>1 DEF IInv, NoneIsForgotten
  <2>3. procs[n].app # a
    BY <1>1, <2>1, <2>2 DEF Alive
  <2>4. procs[n].app \in App /\ running \in [App -> ProcOrNone]
    <3>1. procs[n] \in Process
      BY <2>1 DEF IInv, SupervisorTypeOK
    <3> QED
      BY <3>1 DEF IInv, SupervisorTypeOK, Process
  <2> QED
    BY <2>1, <2>2, <2>3, <2>4 DEF OnlyStop
<1> QED
  BY <1>1, <1>2, <1>3 DEF OnlyStop

\* What every step of the controller that starts or stops an app leaves.
LEMMA StartStep ==
  ASSUME SupervisorAssumption, IInv, controller # "down", NEW a \in App,
         StartApp(a) \/ StartAppRaises(a),
         controller' = controller, life' = life, calledAt' = calledAt
  PROVE  /\ ProcsOK' /\ PortsApart' /\ NoneIsForgotten'
         /\ nextPort' \in 1 .. MaxStarts + 1
<1>1. CASE StartProcess(a)
  <2>1. /\ procs' \in Seq(Process) /\ Len(procs') <= MaxStarts
        /\ Len(procs') = Len(procs) + 1
        /\ running' = [running EXCEPT ![a] = Len(procs')]
        /\ procs'[Len(procs')].app = a /\ procs'[Len(procs')].life = life
        /\ \A n \in 1 .. Len(procs) :
             procs'[n].app = procs[n].app /\ procs'[n].life = procs[n].life
        /\ nextPort' \in 1 .. MaxStarts + 1
        /\ PortsApart' /\ NoneIsForgotten'
    BY <1>1, SpawnStep
  <2>2. Len(procs) \in Nat
    BY DEF IInv, SupervisorTypeOK
  <2>3. ProcOrNone' = 0 .. Len(procs) + 1 /\ Len(procs') \in ProcOrNone'
    BY <2>1, <2>2 DEF ProcOrNone
  <2>4. running \in [App -> 0 .. Len(procs)] /\ calledAt \in [App -> 0 .. Len(procs)]
    BY DEF IInv, SupervisorTypeOK, ProcOrNone
  <2>5. running' \in [App -> ProcOrNone'] /\ calledAt' \in [App -> ProcOrNone']
    BY <2>1, <2>2, <2>3, <2>4
  <2>6. ASSUME NEW b \in App, calledAt'[b] # 0
        PROVE  procs'[calledAt'[b]].app = b
    <3>1. calledAt[b] \in 1 .. Len(procs) /\ procs[calledAt[b]].app = b
      BY <2>4, <2>6 DEF IInv, SupervisorTypeOK
    <3> QED
      BY <2>1, <3>1
  <2>7. ASSUME NEW b \in App, running'[b] # 0
        PROVE  procs'[running'[b]].app = b /\ procs'[running'[b]].life = life'
    <3>1. CASE b = a
      BY <2>1, <2>4, <3>1
    <3>2. CASE b # a
      <4>1. running'[b] = running[b] /\ running[b] \in 1 .. Len(procs)
        BY <2>1, <2>4, <2>7, <3>2
      <4>2. procs[running[b]].app = b /\ procs[running[b]].life = life
        BY <4>1 DEF IInv, SupervisorTypeOK
      <4> QED
        BY <2>1, <4>1, <4>2
    <3> QED
      BY <3>1, <3>2
  <2> QED
    BY <2>1, <2>5, <2>6, <2>7 DEF ProcsOK
<1>2. CASE OnlyStop(a)
  <2>1. Later(procs') /\ running' = [running EXCEPT ![a] = 0] /\ PortsApart' /\ NoneIsForgotten'
    BY <1>2, OnlyStopStep
  <2>2. /\ procs' \in Seq(Process) /\ Len(procs') <= MaxStarts
        /\ running \in [App -> ProcOrNone']
        /\ \A b \in App : running[b] # 0 =>
             procs'[running[b]].app = b /\ procs'[running[b]].life = procs[running[b]].life
    BY <2>1, AgingTyped DEF IInv
  <2>3. /\ calledAt \in [App -> ProcOrNone']
        /\ \A b \in App : calledAt[b] # 0 => procs'[calledAt[b]].app = b
    BY <2>1, AgingTyped DEF IInv
  <2>4. running' \in [App -> ProcOrNone']
    BY <2>1, <2>2 DEF ProcOrNone, IInv, SupervisorTypeOK, Later
  <2>5. ASSUME NEW b \in App, running'[b] # 0
        PROVE  procs'[running'[b]].app = b /\ procs'[running'[b]].life = life
    BY <2>1, <2>2, <2>5 DEF IInv, SupervisorTypeOK
  <2>6. ProcsOK'
    BY <2>2, <2>3, <2>4, <2>5 DEF ProcsOK
  <2>7. nextPort' \in 1 .. MaxStarts + 1
    BY <1>2 DEF OnlyStop, IInv, SupervisorTypeOK
  <2> QED
    BY <2>1, <2>6, <2>7
<1> QED
  BY <1>1, <1>2 DEF StartApp, StartAppRaises

\* What a step of a process leaves.
LEMMA AgingStep ==
  ASSUME IInv, Later(procs'), NEW n \in 1 .. Len(procs),
         UNCHANGED << folder, controllerVars, edits >>,
         calledAt' = calledAt \/ calledAt' = [calledAt EXCEPT ![procs[n].app] = n],
         appFailures' \in 0 .. MaxAppFailures
  PROVE  IInv'
<1>1. PortsApart' /\ NoneIsForgotten'
  BY AgingKeeps DEF controllerVars
<1>2. /\ procs' \in Seq(Process) /\ Len(procs') <= MaxStarts
      /\ running \in [App -> ProcOrNone']
      /\ \A b \in App : running[b] # 0 =>
           procs'[running[b]].app = b /\ procs'[running[b]].life = procs[running[b]].life
  BY AgingTyped DEF IInv, controllerVars
<1>3. /\ calledAt \in [App -> ProcOrNone']
      /\ \A b \in App : calledAt[b] # 0 => procs'[calledAt[b]].app = b
  BY AgingTyped DEF IInv, controllerVars
<1>4. n \in ProcOrNone' /\ procs'[n].app = procs[n].app
  BY DEF Later, ProcOrNone
<1>5. /\ calledAt' \in [App -> ProcOrNone']
      /\ \A b \in App : calledAt'[b] # 0 => procs'[calledAt'[b]].app = b
  BY <1>3, <1>4
<1>6. ProcsOK'
  BY <1>2, <1>5 DEF ProcsOK, IInv, SupervisorTypeOK, controllerVars
<1>7. ControlOK'
  BY DEF ControlOK, IInv, SupervisorTypeOK, controllerVars
<1> QED
  BY <1>1, <1>6, <1>7, TypeSplit, PTL DEF IInv

\* What a process does by itself.
LEMMA OwnStep ==
  ASSUME IInv, NEW n \in Proc, Started(n), Startup(n) \/ ObeyLate(n) \/ CrashApp(n)
  PROVE  Later(procs')
<1>1. n \in 1 .. Len(procs) /\ procs \in Seq(Process) /\ procs[n] \in Process
  BY DEF IInv, SupervisorTypeOK, Started
<1>2. PICK e \in Process :
        /\ procs' = [procs EXCEPT ![n] = e]
        /\ e.app = procs[n].app /\ e.port = procs[n].port /\ e.life = procs[n].life
        /\ e.told = procs[n].told
        /\ Alive(n)
  <2>1. CASE Startup(n)
    <3>1. PICK ok \in BOOLEAN :
            procs' = [procs EXCEPT
              ![n].registered = ok,
              ![n].at = IF procs[n].told \/ PortTaken(n) THEN "exited" ELSE "serving"]
      BY <2>1 DEF Startup
    <3> DEFINE e == [procs[n] EXCEPT !.registered = ok,
                       !.at = IF procs[n].told \/ PortTaken(n) THEN "exited" ELSE "serving"]
    <3>2. e \in Process /\ procs' = [procs EXCEPT ![n] = e]
      BY <1>1, <3>1 DEF Process
    <3>3. /\ e.app = procs[n].app /\ e.port = procs[n].port /\ e.life = procs[n].life
          /\ e.told = procs[n].told
      BY <1>1 DEF Process
    <3> QED
      BY <2>1, <3>2, <3>3 DEF Startup, Alive
  <2>2. CASE ObeyLate(n) \/ CrashApp(n)
    <3> DEFINE e == [procs[n] EXCEPT !.at = "exited"]
    <3>1. e \in Process /\ procs' = [procs EXCEPT ![n] = e]
      BY <1>1, <2>2 DEF Process, ObeyLate, CrashApp
    <3>2. /\ e.app = procs[n].app /\ e.port = procs[n].port /\ e.life = procs[n].life
          /\ e.told = procs[n].told
      BY <1>1 DEF Process
    <3> QED
      BY <2>2, <3>1, <3>2 DEF ObeyLate, CrashApp, Alive
  <2> QED
    BY <2>1, <2>2
<1> QED
  BY <1>1, <1>2, Aging

LEMMA InitInv == SupervisorAssumption /\ SupervisorInit => IInv
<1> SUFFICES ASSUME SupervisorAssumption, SupervisorInit PROVE IInv
  OBVIOUS
<1>1. Len(procs) = 0 /\ procs \in Seq(Process)
  BY DEF SupervisorInit
<1>2. ProcsOK
  BY <1>1 DEF SupervisorInit, SupervisorAssumption, ProcsOK, ProcOrNone
<1>3. ControlOK
  BY DEF SupervisorInit, SupervisorAssumption, ControlOK, Folder
<1>4. PortsApart /\ NoneIsForgotten
  BY <1>1 DEF SupervisorInit, PortsApart, NoneIsForgotten
<1> QED
  BY <1>2, <1>3, <1>4, TypeSplit DEF IInv

\* Nothing of the processes changes when the controller and folders do.
LEMMA SameProcs ==
  ASSUME ProcsOK, UNCHANGED << procs, calledAt >>,
         (running' = running /\ life' = life) \/ running' = [a \in App |-> 0]
  PROVE  ProcsOK'
BY DEF ProcsOK, ProcOrNone

LEMMA ControllerGoneStep ==
  ASSUME IInv, ControllerGone, appFailures' \in 0 .. MaxAppFailures
  PROVE  IInv'
<1>1. ProcsOK'
  BY SameProcs, TypeSplit DEF IInv, ControllerGone
<1>2. ControlOK'
  BY DEF IInv, SupervisorTypeOK, ControllerGone, ControlOK
<1>3. PortsApart' /\ NoneIsForgotten'
  BY DEF IInv, PortsApart, NoneIsForgotten, ControllerGone
<1> QED
  BY <1>1, <1>2, <1>3, TypeSplit, PTL DEF IInv

LEMMA NextInv == SupervisorAssumption /\ IInv /\ [SupervisorNext]_supervisorVars => IInv'
<1> SUFFICES ASSUME SupervisorAssumption, IInv, [SupervisorNext]_supervisorVars PROVE IInv'
  OBVIOUS
<1> USE DEF IInv
<1>0. ProcsOK /\ ControlOK
  BY TypeSplit
<1>00. SupervisorTypeOK' <=> ProcsOK' /\ ControlOK'
  BY TypeSplit, PTL
<1>1. CASE StartController
  <2>1. ProcsOK'
    BY <1>0, <1>1, SameProcs DEF StartController, ControlOK, ProcsOK, ProcOrNone
  <2>2. ControlOK'
    BY <1>0, <1>1 DEF StartController, ControlOK, bounds, SupervisorAssumption
  <2>3. life \in Nat /\ life' = life + 1 /\ procs' = procs /\ nextPort' = 1 /\ Len(procs) \in Nat
    BY <1>0, <1>1 DEF StartController, ControlOK, ProcsOK
  <2>4. \A n \in 1 .. Len(procs) : procs[n].life <= life /\ procs[n].life \in Nat
    <3> SUFFICES ASSUME NEW n \in 1 .. Len(procs) PROVE procs[n].life <= life /\ procs[n].life \in Nat
      OBVIOUS
    <3>1. procs[n] \in Process
      BY <1>0 DEF ProcsOK
    <3> QED
      BY <3>1 DEF PortsApart, Process
  <2>5. PortsApart' /\ NoneIsForgotten'
    BY <2>3, <2>4 DEF PortsApart, NoneIsForgotten
  <2> QED
    BY <1>00, <2>1, <2>2, <2>5
<1>2. CASE FinishStartup
  <2>1. ProcsOK'
    BY <1>0, <1>2, SameProcs DEF FinishStartup
  <2>2. ControlOK'
    BY <1>0, <1>2 DEF FinishStartup, ControlOK, bounds
  <2>3. PortsApart' /\ NoneIsForgotten'
    BY <1>2 DEF FinishStartup, ControlOK, PortsApart, NoneIsForgotten, Alive
  <2> QED
    BY <1>00, <2>1, <2>2, <2>3
<1>3. CASE CrashController
  <2>1. appFailures' \in 0 .. MaxAppFailures
    BY <1>0, <1>3 DEF CrashController, CountAppFailure, ControlOK, SupervisorAssumption
  <2> QED
    BY <1>3, <2>1, ControllerGoneStep DEF CrashController
<1>4. CASE WatchTick
  <2>1. ProcsOK'
    BY <1>0, <1>4, SameProcs DEF WatchTick
  <2>2. ControlOK'
    BY <1>0, <1>4 DEF WatchTick, ControlOK, bounds, KnownDead
  <2>3. PortsApart' /\ NoneIsForgotten'
    BY <1>4 DEF WatchTick, PortsApart, NoneIsForgotten, Alive
  <2> QED
    BY <1>00, <2>1, <2>2, <2>3
<1>5. ASSUME NEW a \in App, Discover(a) PROVE IInv'
  <2>1. CASE StartApp(a)
    <3>1. ProcsOK' /\ PortsApart' /\ NoneIsForgotten' /\ nextPort' \in 1 .. MaxStarts + 1
      BY <1>5, <2>1, StartStep DEF Discover
    <3>2. ControlOK'
      BY <1>0, <1>5, <3>1 DEF Discover, ControlOK, bounds
    <3> QED
      BY <1>00, <3>1, <3>2
  <2>2. CASE UNCHANGED << procs, running, nextPort >>
    <3>1. ProcsOK'
      BY <1>0, <1>5, <2>2, SameProcs DEF Discover
    <3>2. ControlOK'
      BY <1>0, <1>5, <2>2 DEF Discover, ControlOK, bounds
    <3>3. PortsApart' /\ NoneIsForgotten'
      BY <1>5, <2>2 DEF Discover, PortsApart, NoneIsForgotten, Alive
    <3> QED
      BY <1>00, <3>1, <3>2, <3>3
  <2> QED
    BY <1>5, <2>1, <2>2 DEF Discover
<1>6. ASSUME NEW a \in App, DiscoverFails(a) PROVE IInv'
  BY <1>0, <1>6, ControllerGoneStep DEF DiscoverFails, ControlOK
<1>7. ASSUME NEW a \in App, Reload(a) PROVE IInv'
  <2>1. ProcsOK' /\ PortsApart' /\ NoneIsForgotten' /\ nextPort' \in 1 .. MaxStarts + 1
    BY <1>7, StartStep DEF Reload
  <2>2. ControlOK'
    BY <1>0, <1>7, <2>1 DEF Reload, ControlOK, bounds
  <2> QED
    BY <1>00, <2>1, <2>2
<1>8. ASSUME NEW a \in App, RestartDead(a) PROVE IInv'
  <2>1. controller # "down"
    BY <1>0, <1>8 DEF RestartDead, ControlOK
  <2>2. ProcsOK' /\ PortsApart' /\ NoneIsForgotten' /\ nextPort' \in 1 .. MaxStarts + 1
    BY <1>8, <2>1, StartStep DEF RestartDead
  <2>3. ControlOK'
    BY <1>0, <1>8, <2>1, <2>2 DEF RestartDead, ControlOK, bounds
  <2> QED
    BY <1>00, <2>2, <2>3
<1>9. ASSUME NEW a \in App, WatchTaskDies(a) PROVE IInv'
  <2>1. controller # "down"
    BY <1>0, <1>9 DEF WatchTaskDies, ControlOK
  <2>2. ProcsOK' /\ PortsApart' /\ NoneIsForgotten' /\ nextPort' \in 1 .. MaxStarts + 1
    BY <1>9, <2>1, StartStep DEF WatchTaskDies
  <2>3. ControlOK'
    BY <1>0, <1>9, <2>1, <2>2 DEF WatchTaskDies, ControlOK, bounds
  <2> QED
    BY <1>00, <2>2, <2>3
<1>10. ASSUME NEW a \in App, NEW f \in Folder, Edit(a, f) PROVE IInv'
  <2>1. ProcsOK'
    BY <1>0, <1>10, SameProcs DEF Edit, controllerVars
  <2>2. ControlOK'
    BY <1>0, <1>10 DEF Edit, ControlOK, controllerVars, SupervisorAssumption
  <2>3. PortsApart' /\ NoneIsForgotten'
    BY <1>10 DEF Edit, PortsApart, NoneIsForgotten, Alive, controllerVars
  <2> QED
    BY <1>00, <2>1, <2>2, <2>3
<1>11. ASSUME NEW n \in Proc, Started(n), Startup(n) \/ ObeyLate(n) \/ CrashApp(n)
       PROVE  IInv'
  <2>1. n \in 1 .. Len(procs) /\ procs \in Seq(Process) /\ procs[n] \in Process
    BY <1>0, <1>11 DEF Started, ProcsOK
  <2>2. appFailures' \in 0 .. MaxAppFailures
    <3>1. appFailures' = appFailures \/ CountAppFailure
      BY <1>11 DEF Startup, ObeyLate, CrashApp, bounds
    <3> QED
      BY <1>0, <3>1 DEF CountAppFailure, ControlOK, SupervisorAssumption
  <2>4. Later(procs')
    BY <1>11, OwnStep
  <2>5. UNCHANGED << folder, controllerVars, edits >>
    BY <1>11 DEF Startup, ObeyLate, CrashApp, bounds
  <2>6. calledAt' = calledAt \/ calledAt' = [calledAt EXCEPT ![procs[n].app] = n]
    BY <1>11 DEF Startup, ObeyLate, CrashApp
  <2> QED
    BY <2>1, <2>2, <2>4, <2>5, <2>6, AgingStep
<1>12. CASE UNCHANGED supervisorVars
  <2>1. ProcsOK' /\ ControlOK'
    BY <1>0, <1>12, SameProcs DEF supervisorVars, controllerVars, bounds, ControlOK
  <2>2. PortsApart' /\ NoneIsForgotten'
    BY <1>12 DEF supervisorVars, controllerVars, PortsApart, NoneIsForgotten, Alive
  <2> QED
    BY <1>00, <2>1, <2>2
<1> QED
  BY <1>1, <1>2, <1>3, <1>4, <1>5, <1>6, <1>7, <1>8, <1>9, <1>10, <1>11, <1>12
     DEF SupervisorNext

LEMMA SpecInv == SupervisorSpec => []IInv
<1>1. SupervisorInit => IInv
  BY InitInv, SupervisorAssumption
<1>2. IInv /\ [SupervisorNext]_supervisorVars => IInv'
  BY NextInv, SupervisorAssumption
<1> QED
  BY <1>1, <1>2, PTL DEF SupervisorSpec

\* running_apps knows only processes of this life of the controller, each under its app,
\* and the watch loop has a list only while the controller serves requests.
THEOREM SupervisorTypeCorrect == SupervisorSpec => []SupervisorTypeOK
<1>1. IInv => SupervisorTypeOK
  BY DEF IInv
<1> QED
  BY <1>1, SpecInv, PTL

\* Whatever apps there are, and however processes die, are slow to stop, are reloaded or
\* started anew: no process but the one known as its app's is alive without having been
\* told to stop, of those this life of the controller has started.
THEOREM NoProcessIsForgotten == SupervisorSpec => []NoneIsForgotten
<1>1. IInv => NoneIsForgotten
  BY DEF IInv
<1> QED
  BY <1>1, SpecInv, PTL

\* A callback URL is answered by its own app as long as the controller lives: ports are
\* counted up and never reused, so also a call that is late finds nobody else there,
\* unless that server chose its port itself.
THEOREM CallbacksFindTheirApp == SupervisorSpec => []AnsweredByItsApp
<1>1. IInv => AnsweredByItsApp
  <2> SUFFICES ASSUME IInv, NEW m \in 1 .. Len(procs), NEW n \in 1 .. Len(procs),
                      procs[m].life = life, procs[n].life = life, Answers(n, m),
                      OwnPort[procs[n].app] = 0
               PROVE  procs[n].app = procs[m].app
    BY DEF AnsweredByItsApp
  <2>1. procs[n].port = procs[m].port
    BY DEF Answers, Listens
  <2>2. n = m
    BY <2>1 DEF IInv, PortsApart
  <2> QED
    BY <2>2
<1> QED
  BY <1>1, SpecInv, PTL

-----------------------------------------------------------------------------
(* The callback of a known process.                                        *)

\* No process is forgotten or given another app, port or life, and none is told to go on.
Kept ==
  /\ Len(procs) \in Nat /\ Len(procs') \in Nat /\ Len(procs) <= Len(procs')
  /\ \A n \in 1 .. Len(procs) :
       /\ procs'[n].app = procs[n].app /\ procs'[n].port = procs[n].port
       /\ procs'[n].life = procs[n].life
       /\ procs[n].told => procs'[n].told

\* What CallsGoToTheKnown says is so whether or not the process serves.
ToTheKnown ==
  \A a \in App :
    running[a] # 0 /\ procs[running[a]].registered =>
      /\ calledAt[a] # 0
      /\ \/ calledAt[a] = running[a]
         \/ procs[calledAt[a]].told
         \/ procs[calledAt[a]].life # life

LEMMA LaterKept ==
  ASSUME SupervisorTypeOK, Later(procs')
  PROVE  Kept
<1>1. Len(procs) \in Nat
  BY DEF SupervisorTypeOK
<1>2. QED
  BY <1>1 DEF Later, Kept

\* A start or a stop: what becomes of the processes of before.
LEMMA StartKeeps ==
  ASSUME IInv, NEW a \in App, StartApp(a) \/ StartAppRaises(a)
  PROVE  /\ Kept
         /\ \A n \in 1 .. Len(procs) : procs'[n].registered = procs[n].registered
         /\ \/ running' = [running EXCEPT ![a] = 0]
            \/ /\ running' = [running EXCEPT ![a] = Len(procs) + 1]
               /\ procs'[Len(procs) + 1].registered = FALSE
<1>0. procs \in Seq(Process) /\ Len(procs) \in Nat /\ running \in [App -> ProcOrNone]
  BY DEF IInv, SupervisorTypeOK
<1>1. ASSUME NEW s \in StopOutcomes(a)
      PROVE  /\ Later(s)
             /\ \A n \in 1 .. Len(procs) : s[n].registered = procs[n].registered
  <2>1. Later(s)
    BY Stopping DEF IInv
  <2>2. ASSUME NEW n \in 1 .. Len(procs)
        PROVE  s[n].registered = procs[n].registered
    <3>1. procs[n] \in Process
      BY <1>0
    <3> QED BY <1>0, <1>1, <3>1 DEF StopOutcomes, Process
  <2> QED BY <2>1, <2>2
<1>2. CASE StartProcess(a)
  <2>1. PICK s \in StopOutcomes(a) : Spawn(a, s)
    BY <1>2 DEF StartProcess
  <2>2. PICK new : /\ procs' = Append(s, new) /\ new.registered = FALSE
                   /\ running' = [running EXCEPT ![a] = Len(procs) + 1]
    BY <2>1 DEF Spawn
  <2>3. s \in Seq(Process) /\ Len(s) = Len(procs)
    BY <1>1 DEF Later
  <2>4. /\ Len(procs') = Len(procs) + 1 /\ procs'[Len(procs) + 1] = new
        /\ \A n \in 1 .. Len(procs) : procs'[n] = s[n]
    BY <2>2, <2>3
  <2>5. Kept
    BY <1>0, <1>1, <2>4 DEF Kept, Later
  <2> QED BY <1>1, <2>2, <2>4, <2>5
<1>3. CASE OnlyStop(a)
  <2>1. procs' \in StopOutcomes(a) /\ running' = [running EXCEPT ![a] = 0]
    BY <1>3 DEF OnlyStop
  <2>2. Later(procs')
    BY <2>1, Stopping DEF IInv
  <2>3. Kept
    BY <2>2, LaterKept DEF IInv
  <2> QED BY <1>1, <2>1, <2>3
<1>4. QED
  BY <1>2, <1>3 DEF StartApp, StartAppRaises

\* The steps of the supervisor and its processes, by what they do to the processes.
LEMMA StepKinds ==
  ASSUME IInv, SupervisorNext
  PROVE  \/ \E a \in App : /\ StartApp(a) \/ StartAppRaises(a)
                           /\ UNCHANGED << calledAt, life >>
         \/ \E n \in Proc : Started(n) /\ (Startup(n) \/ ObeyLate(n) \/ CrashApp(n))
         \/ UNCHANGED procs /\ UNCHANGED calledAt /\ running' = [a \in App |-> 0]
         \/ UNCHANGED procs /\ UNCHANGED calledAt /\ UNCHANGED running
              /\ (life' = life \/ controller = "down")
<1>1. CASE StartController
  BY <1>1 DEF StartController
<1>2. CASE FinishStartup \/ WatchTick
  BY <1>2 DEF FinishStartup, WatchTick
<1>3. CASE CrashController
  BY <1>3 DEF CrashController, ControllerGone
<1>4. ASSUME NEW a \in App, Discover(a) \/ DiscoverFails(a)
      PROVE  \/ (StartApp(a) \/ StartAppRaises(a)) /\ UNCHANGED << calledAt, life >>
             \/ UNCHANGED procs /\ UNCHANGED calledAt /\ running' = [b \in App |-> 0]
             \/ UNCHANGED procs /\ UNCHANGED calledAt /\ UNCHANGED running /\ life' = life
  BY <1>4 DEF Discover, DiscoverFails, ControllerGone
<1>5. ASSUME NEW a \in App, Reload(a) \/ RestartDead(a) \/ WatchTaskDies(a)
      PROVE  (StartApp(a) \/ StartAppRaises(a)) /\ UNCHANGED << calledAt, life >>
  BY <1>5 DEF Reload, RestartDead, WatchTaskDies
<1>6. ASSUME NEW a \in App, NEW f \in Folder, Edit(a, f)
      PROVE  UNCHANGED procs /\ UNCHANGED calledAt /\ UNCHANGED running /\ life' = life
  BY <1>6 DEF Edit, controllerVars
<1>7. QED
  BY <1>1, <1>2, <1>3, <1>4, <1>5, <1>6 DEF SupervisorNext

LEMMA KeptStep ==
  ASSUME IInv, SupervisorNext
  PROVE  Kept
<1>1. ASSUME NEW a \in App, StartApp(a) \/ StartAppRaises(a)
      PROVE  Kept
  BY <1>1, StartKeeps
<1>2. ASSUME NEW n \in Proc, Started(n), Startup(n) \/ ObeyLate(n) \/ CrashApp(n)
      PROVE  Kept
  BY <1>2, OwnStep, LaterKept DEF IInv
<1>3. CASE UNCHANGED procs
  BY <1>3 DEF Kept, IInv, SupervisorTypeOK
<1>4. QED
  BY <1>1, <1>2, <1>3, StepKinds

LEMMA ToTheKnownStep ==
  ASSUME IInv, ToTheKnown, SupervisorNext
  PROVE  ToTheKnown'
<1>0. /\ running \in [App -> ProcOrNone] /\ calledAt \in [App -> ProcOrNone]
      /\ Len(procs) \in Nat /\ procs \in Seq(Process)
      /\ \A a \in App : running[a] # 0 => /\ procs[running[a]].app = a
                                          /\ procs[running[a]].life = life /\ controller # "down"
                                          /\ running[a] \in 1 .. Len(procs)
      /\ \A a \in App : calledAt[a] # 0 => /\ procs[calledAt[a]].app = a
                                           /\ calledAt[a] \in 1 .. Len(procs)
  BY DEF IInv, SupervisorTypeOK, ProcOrNone
<1>k. Kept
  BY KeptStep
<1> SUFFICES ASSUME NEW b \in App, running'[b] # 0, procs'[running'[b]].registered
             PROVE  /\ calledAt'[b] # 0
                    /\ \/ calledAt'[b] = running'[b]
                       \/ procs'[calledAt'[b]].told
                       \/ procs'[calledAt'[b]].life # life'
  BY DEF ToTheKnown
<1> DEFINE Goal == /\ calledAt'[b] # 0
                   /\ \/ calledAt'[b] = running'[b]
                      \/ procs'[calledAt'[b]].told
                      \/ procs'[calledAt'[b]].life # life'
<1>s. ASSUME running'[b] = running[b], procs[running[b]].registered,
             calledAt'[b] = calledAt[b], life' = life
      PROVE  Goal
  <2>1. PICK c : c = calledAt[b] /\ c \in 1 .. Len(procs)
                 /\ (c = running[b] \/ procs[c].told \/ procs[c].life # life)
    BY <1>0, <1>s DEF ToTheKnown
  <2> QED BY <1>s, <1>0, <1>k, <2>1 DEF Kept
<1>1. ASSUME NEW a \in App, StartApp(a) \/ StartAppRaises(a), UNCHANGED << calledAt, life >>
      PROVE  Goal
  <2>1. /\ \A n \in 1 .. Len(procs) : procs'[n].registered = procs[n].registered
        /\ \/ running' = [running EXCEPT ![a] = 0]
           \/ /\ running' = [running EXCEPT ![a] = Len(procs) + 1]
              /\ procs'[Len(procs) + 1].registered = FALSE
    BY <1>1, StartKeeps
  <2>2. b # a
    BY <1>0, <2>1
  <2>3. running'[b] = running[b]
    BY <1>0, <2>1, <2>2
  <2>4. procs[running[b]].registered
    BY <1>0, <2>1, <2>3
  <2> QED BY <1>1, <1>s, <2>3, <2>4
<1>2. ASSUME NEW n \in Proc, Started(n), ObeyLate(n) \/ CrashApp(n)
      PROVE  Goal
  <2>1. procs' = [procs EXCEPT ![n].at = "exited"] /\ UNCHANGED << running, calledAt, life >>
    BY <1>2 DEF ObeyLate, CrashApp, controllerVars
  <2>a. running[b] \in 1 .. Len(procs)
    BY <1>0, <2>1
  <2>b. procs[running[b]] \in Process
    BY <1>0, <2>a
  <2>2. procs'[running[b]].registered = procs[running[b]].registered
    BY <1>0, <2>1, <2>a, <2>b DEF Process
  <2> QED BY <1>s, <2>1, <2>2
<1>3. ASSUME NEW n \in Proc, Started(n), Startup(n)
      PROVE  Goal
  <2>1. PICK ok \in BOOLEAN :
          /\ calledAt' = IF ok THEN [calledAt EXCEPT ![procs[n].app] = n] ELSE calledAt
          /\ procs' = [procs EXCEPT
               ![n].registered = ok,
               ![n].at = IF procs[n].told \/ PortTaken(n) THEN "exited" ELSE "serving"]
    BY <1>3 DEF Startup
  <2>2. UNCHANGED << running, life >> /\ Alive(n) /\ n \in 1 .. Len(procs)
    BY <1>3 DEF Startup, controllerVars, Alive, Started
  <2>3. /\ \A m \in 1 .. Len(procs) : m # n => procs'[m] = procs[m]
        /\ procs'[n].registered = ok
    <3>1. procs[n] \in Process
      BY <1>0, <2>2
    <3> QED BY <1>0, <2>1, <2>2, <3>1, SMTT(30) DEF Process
  <2>4. CASE ok /\ procs[n].app = b
    <3>1. calledAt'[b] = n
      BY <1>0, <2>1, <2>4
    <3>2. running[b] = n \/ procs[n].told \/ procs[n].life # life
      BY <1>0, <2>2, <2>4 DEF IInv, NoneIsForgotten
    <3> QED BY <1>k, <2>2, <3>1, <3>2 DEF Kept
  <2>5. CASE ~(ok /\ procs[n].app = b)
    <3>1. calledAt'[b] = calledAt[b]
      BY <1>0, <2>1, <2>5
    <3>2. running[b] # n
      BY <1>0, <2>2, <2>3, <2>5
    <3>3. procs[running[b]].registered
      BY <1>0, <2>2, <2>3, <3>2
    <3> QED BY <1>s, <2>2, <3>1, <3>3
  <2> QED BY <2>4, <2>5
<1>4. CASE UNCHANGED procs /\ UNCHANGED calledAt /\ running' = [a \in App |-> 0]
  BY <1>4
<1>5. CASE UNCHANGED procs /\ UNCHANGED calledAt /\ UNCHANGED running
           /\ (life' = life \/ controller = "down")
  BY <1>0, <1>5, <1>s
<1>6. QED
  BY <1>1, <1>2, <1>3, <1>4, <1>5, StepKinds

-----------------------------------------------------------------------------
(* Calls.                                                                  *)

\* The supervisor that runs beside a call does what the supervisor does.
LEMMA BesideStep ==
  ASSUME SupervisorAssumption, CallBoundAssumption, SupervisorTypeOK, Beside!SupervisorNext
  PROVE  SupervisorNext
<1>1. /\ Len(procs) \in Nat /\ life \in Nat /\ appFailures \in Nat /\ edits \in Nat
      /\ MaxStarts \in Nat /\ CallStarts \in Nat /\ CallStarts <= MaxStarts
      /\ MaxLives \in Nat /\ CallLives \in Nat /\ CallLives <= MaxLives
      /\ MaxAppFailures \in Nat /\ CallFailures \in Nat /\ CallFailures <= MaxAppFailures
  BY DEF SupervisorAssumption, CallBoundAssumption, SupervisorTypeOK
<1>2. Beside!CountAppFailure => CountAppFailure
  BY <1>1 DEF Beside!CountAppFailure, CountAppFailure
<1>3. Beside!ControllerGone => ControllerGone
  BY DEF Beside!ControllerGone, ControllerGone
<1>4. \A a \in App : Beside!StopOutcomes(a) = StopOutcomes(a)
  BY DEF Beside!StopOutcomes, StopOutcomes, Beside!Alive, Alive
<1>5. ASSUME NEW a \in App, NEW s, Beside!Spawn(a, s)
      PROVE  Spawn(a, s)
  BY <1>1, <1>5 DEF Beside!Spawn, Spawn, Beside!GivenPort, GivenPort
<1>6. ASSUME NEW a \in App
      PROVE  /\ Beside!StartApp(a) => StartApp(a)
             /\ Beside!StartAppRaises(a) => StartAppRaises(a)
  <2>1. Beside!OnlyStop(a) => OnlyStop(a)
    BY <1>4 DEF Beside!OnlyStop, OnlyStop
  <2>2. Beside!StartProcess(a) => StartProcess(a)
    BY <1>4, <1>5 DEF Beside!StartProcess, StartProcess
  <2> QED BY <2>1, <2>2 DEF Beside!StartApp, StartApp, Beside!StartAppRaises, StartAppRaises
<1>7. CASE Beside!StartController
  BY <1>1, <1>7 DEF Beside!StartController, StartController, Beside!bounds, bounds, SupervisorNext
<1>8. CASE Beside!FinishStartup
  BY <1>8 DEF Beside!FinishStartup, FinishStartup, Beside!bounds, bounds, SupervisorNext
<1>9. CASE Beside!CrashController
  BY <1>2, <1>3, <1>9 DEF Beside!CrashController, CrashController, SupervisorNext
<1>10. CASE Beside!WatchTick
  BY <1>10 DEF Beside!WatchTick, WatchTick, Beside!bounds, bounds, Beside!KnownDead, KnownDead,
     Beside!Alive, Alive, SupervisorNext
<1>11. ASSUME NEW a \in App, Beside!Discover(a)
       PROVE  SupervisorNext
  <2>1. Discover(a)
    BY <1>6, <1>11 DEF Beside!Discover, Discover, Beside!bounds, bounds
  <2> QED BY <2>1 DEF SupervisorNext
<1>12. ASSUME NEW a \in App, Beside!DiscoverFails(a)
       PROVE  SupervisorNext
  <2>1. DiscoverFails(a)
    BY <1>3, <1>12 DEF Beside!DiscoverFails, DiscoverFails
  <2> QED BY <2>1 DEF SupervisorNext
<1>13. ASSUME NEW a \in App, Beside!Reload(a)
       PROVE  SupervisorNext
  <2>1. Reload(a)
    BY <1>6, <1>13 DEF Beside!Reload, Reload, Beside!bounds, bounds
  <2> QED BY <2>1 DEF SupervisorNext
<1>14. ASSUME NEW a \in App, Beside!RestartDead(a)
       PROVE  SupervisorNext
  <2>1. RestartDead(a)
    BY <1>6, <1>14 DEF Beside!RestartDead, RestartDead, Beside!bounds, bounds
  <2> QED BY <2>1 DEF SupervisorNext
<1>15. ASSUME NEW a \in App, Beside!WatchTaskDies(a)
       PROVE  SupervisorNext
  <2>1. WatchTaskDies(a)
    BY <1>6, <1>15 DEF Beside!WatchTaskDies, WatchTaskDies, Beside!bounds, bounds
  <2> QED BY <2>1 DEF SupervisorNext
<1>16. ASSUME NEW a \in App, NEW f, Beside!Edit(a, f)
       PROVE  FALSE
  BY <1>1, <1>16 DEF Beside!Edit
<1>17. ASSUME NEW n \in Beside!Proc, Beside!Started(n),
              Beside!Startup(n) \/ Beside!ObeyLate(n) \/ Beside!CrashApp(n)
       PROVE  SupervisorNext
  <2>1. n \in Proc /\ Started(n)
    BY <1>1, <1>17 DEF Beside!Proc, Proc, Beside!Started, Started
  <2>2. Beside!PortTaken(n) = PortTaken(n)
    BY DEF Beside!PortTaken, PortTaken, Beside!Listens, Listens
  <2>3. CASE Beside!Startup(n)
    <3>1. Startup(n)
      BY <1>2, <2>2, <2>3 DEF Beside!Startup, Startup, Beside!controllerVars, controllerVars
    <3> QED BY <2>1, <3>1 DEF SupervisorNext
  <2>4. CASE Beside!ObeyLate(n)
    <3>1. ObeyLate(n)
      BY <2>4 DEF Beside!ObeyLate, ObeyLate, Beside!controllerVars, controllerVars,
         Beside!bounds, bounds
    <3> QED BY <2>1, <3>1 DEF SupervisorNext
  <2>5. CASE Beside!CrashApp(n)
    <3>1. CrashApp(n)
      BY <1>2, <2>5 DEF Beside!CrashApp, CrashApp, Beside!controllerVars, controllerVars,
         Beside!Alive, Alive
    <3> QED BY <2>1, <3>1 DEF SupervisorNext
  <2> QED BY <1>17, <2>3, <2>4, <2>5
<1>18. QED
  BY <1>7, <1>8, <1>9, <1>10, <1>11, <1>12, <1>13, <1>14, <1>15, <1>16, <1>17
  DEF Beside!SupervisorNext

\* Where the call is, and what that says of the process it was sent to.
CallInv ==
  /\ at \in {"routed", "inside", "done"} \/ ran # << >> => target # 0
  /\ target # 0 => procs[target].app = callee
  /\ at = "inside" /\ via = "api" =>
       \/ procs[inside].app = callee
       \/ OwnPort[procs[inside].app] # 0
       \/ procs[inside].life # procs[target].life
  /\ at \in {"asked", "listed", "routed", "inside"} => ran = << >>
  /\ at = "done" => Len(ran) = 1
  /\ told \in {"ok", "not found"} => at = "ended"

AppsInv == IInv /\ ToTheKnown /\ AppsTypeOK /\ CallInv /\ AnswerIsTrue

LEMMA AppsInvInit == SupervisorAssumption /\ AppsInit => AppsInv
<1> SUFFICES ASSUME SupervisorAssumption, AppsInit PROVE AppsInv
  OBVIOUS
<1>1. IInv /\ SupervisorTypeOK
  BY InitInv DEF AppsInit, IInv
<1>2. ToTheKnown
  BY DEF AppsInit, SupervisorInit, ToTheKnown
<1>3. /\ at = "asked" /\ target = 0 /\ inside = 0 /\ ran = << >> /\ told = "nothing"
      /\ via \in Way /\ callee \in App /\ part \in {"supervisor", "call"}
  BY DEF AppsInit, CallInit
<1>4. 0 \in ProcOrNone
  BY <1>1 DEF SupervisorTypeOK, ProcOrNone
<1>5. AppsTypeOK
  BY <1>1, <1>3, <1>4 DEF AppsTypeOK, Place, Answer
<1>6. CallInv /\ AnswerIsTrue
  BY <1>3 DEF CallInv, AnswerIsTrue, RunsInItsApp
<1>7. QED
  BY <1>1, <1>2, <1>5, <1>6 DEF AppsInv

\* Processes are started, stopped and die while the call is where it was.
LEMMA CallIsKept ==
  ASSUME AppsInv, SupervisorTypeOK', Kept, UNCHANGED << part, callVars >>
  PROVE  AppsTypeOK' /\ CallInv' /\ AnswerIsTrue'
<1>0. /\ Len(procs) \in Nat /\ Len(procs') \in Nat /\ Len(procs) <= Len(procs')
      /\ target \in 0 .. Len(procs) /\ inside \in 0 .. Len(procs) /\ ran \in Seq(1 .. Len(procs))
      /\ UNCHANGED << part, via, callee, at, target, inside, ran, told >>
  BY DEF AppsInv, AppsTypeOK, Kept, ProcOrNone, callVars
<1>1. \A i \in 1 .. Len(ran) : ran[i] \in 1 .. Len(procs)
  BY <1>0, ElementOfSeq
<1>2. ran' \in Seq(1 .. Len(procs'))
  <2>1. \A i \in 1 .. Len(ran) : ran[i] \in 1 .. Len(procs')
    BY <1>0, <1>1
  <2> QED BY <1>0, <2>1
<1>3. target' \in ProcOrNone' /\ inside' \in ProcOrNone'
  BY <1>0 DEF ProcOrNone
<1>4. AppsTypeOK'
  BY <1>0, <1>2, <1>3 DEF AppsInv, AppsTypeOK
<1>5. target # 0 => procs'[target].app = procs[target].app /\ procs'[target].life = procs[target].life
  BY <1>0 DEF Kept
<1>6. at = "inside" => /\ procs'[inside].app = procs[inside].app
                       /\ procs'[inside].life = procs[inside].life
  BY <1>0 DEF Kept, AppsInv, AppsTypeOK
<1>7. CallInv'
  BY <1>0, <1>5, <1>6 DEF AppsInv, CallInv
<1>8. RunsInItsApp'
  <2> SUFFICES ASSUME NEW i \in 1 .. Len(ran)
               PROVE  \/ procs'[ran[i]].app = callee
                      \/ /\ via = "api"
                         /\ \/ OwnPort[procs'[ran[i]].app] # 0
                            \/ procs'[ran[i]].life # procs'[target].life
    BY <1>0 DEF RunsInItsApp
  <2>1. procs'[ran[i]].app = procs[ran[i]].app /\ procs'[ran[i]].life = procs[ran[i]].life
    BY <1>1 DEF Kept
  <2>a. ran # << >>
    OBVIOUS
  <2>b. target # 0
    BY <2>a DEF AppsInv, CallInv
  <2>2. procs'[target].life = procs[target].life
    BY <1>5, <2>b
  <2> QED BY <2>1, <2>2 DEF AppsInv, AnswerIsTrue, RunsInItsApp
<1>9. QED
  BY <1>0, <1>4, <1>7, <1>8 DEF AppsInv, AnswerIsTrue

\* The call goes on.
LEMMA CallGoesOn ==
  ASSUME AppsInv, CallStep, UNCHANGED << part, supervisorVars >>
  PROVE  AppsTypeOK' /\ CallInv' /\ AnswerIsTrue'
<1>0. /\ Len(procs) \in Nat /\ ran \in Seq(1 .. Len(procs))
      /\ target \in 0 .. Len(procs) /\ inside \in 0 .. Len(procs)
      /\ via \in Way /\ callee \in App /\ at \in Place /\ told \in Answer
      /\ (at \in {"inside", "done"} => inside # 0)
      /\ part \in {"supervisor", "call"}
  BY DEF AppsInv, AppsTypeOK, ProcOrNone, SupervisorTypeOK
<1>s. UNCHANGED << folder, procs, running, nextPort, controller, life, toDiscover, watching, dead,
                   calledAt, edits, appFailures, part >>
  BY DEF supervisorVars, controllerVars, bounds
<1>t. SupervisorTypeOK'
  BY <1>s DEF AppsInv, IInv, SupervisorTypeOK, ProcOrNone
<1>c. calledAt \in [App -> 0 .. Len(procs)] /\ \A a \in App : calledAt[a] # 0 => procs[calledAt[a]].app = a
  BY DEF AppsInv, IInv, SupervisorTypeOK, ProcOrNone
\* Nothing is done in this step.
<1>u. ASSUME ran' = ran, via' = via, callee' = callee, at' \in Place, told' \in Answer,
             target' \in 0 .. Len(procs), inside' \in 0 .. Len(procs),
             at' \in {"inside", "done"} => inside' # 0,
             at' \in {"routed", "inside", "done"} => target' # 0,
             target' = target \/ (ran = << >> /\ (target' # 0 => procs[target'].app = callee)),
             at' = "inside" /\ via = "api" =>
                 \/ procs[inside'].app = callee
                 \/ OwnPort[procs[inside'].app] # 0
                 \/ procs[inside'].life # procs[target'].life,
             at' \in {"asked", "listed", "routed", "inside"} => ran = << >>,
             at' = "done" => Len(ran) = 1,
             told' \in {"ok", "not found"} => at' = "ended",
             told' = "ok" => Len(ran) = 1,
             told' = "not found" => ran = << >>
      PROVE  AppsTypeOK' /\ CallInv' /\ AnswerIsTrue'
  <2>1. AppsTypeOK'
    BY <1>0, <1>s, <1>t, <1>u DEF AppsTypeOK, ProcOrNone
  <2>2. CallInv'
    BY <1>0, <1>s, <1>u DEF AppsInv, CallInv
  <2>3. RunsInItsApp'
    <3>1. CASE target' = target
      BY <1>s, <1>u, <3>1 DEF AppsInv, AnswerIsTrue, RunsInItsApp
    <3>2. CASE ran' = << >>
      <4>1. Len(ran') = 0
        BY <3>2
      <4> QED BY <4>1 DEF RunsInItsApp
    <3> QED BY <1>u, <3>1, <3>2
  <2>4. AnswerIsTrue'
    BY <1>s, <1>u, <2>3 DEF AppsInv, AnswerIsTrue
  <2> QED BY <2>1, <2>2, <2>4
<1>e. \A x \in Answer : End(x) => at' = "ended" /\ told' = IF told = "nothing" THEN x ELSE told
  BY DEF End
<1>i. CallInv /\ AnswerIsTrue
  BY DEF AppsInv
<1>1. CASE ListTools
  BY <1>0, <1>u, <1>1, <1>i DEF ListTools, End, CallInv, AnswerIsTrue, Place, Answer
<1>2. CASE LookUp
  <2>1. target' = calledAt[callee] /\ target' \in 0 .. Len(procs)
        /\ (target' # 0 => procs[target'].app = callee)
    BY <1>0, <1>2, <1>c DEF LookUp
  <2>2. ran = << >>
    BY <1>2 , <1>i DEF LookUp, CallInv
  <2> QED BY <1>0, <1>u, <1>2, <1>i, <2>1, <2>2
          DEF LookUp, End, CallInv, AnswerIsTrue, Place, Answer
<1>3. CASE Send
  <2>1. CASE End("failed") /\ inside' = inside
    BY <1>0, <1>u, <1>3, <1>i, <2>1 DEF Send, End, CallInv, AnswerIsTrue, Place, Answer
  <2>2. ASSUME NEW n \in 1 .. Len(procs), Answers(n, target), inside' = n, at' = "inside",
               UNCHANGED told
        PROVE  AppsTypeOK' /\ CallInv' /\ AnswerIsTrue'
    <3>a. at = "routed"
      BY <1>3 DEF Send
    <3>b. target # 0 /\ procs[target].app = callee
      BY <1>i, <3>a DEF CallInv
    <3>1. target \in 1 .. Len(procs) /\ procs[target].app = callee
      BY <1>0, <3>b
    <3>c. ran = << >> /\ told \notin {"ok", "not found"} /\ UNCHANGED << via, callee, target, ran >>
      BY <1>3, <1>i, <3>a DEF Send, CallInv
    <3>2. \/ procs[n].app = callee
          \/ OwnPort[procs[n].app] # 0
          \/ procs[n].life # procs[target].life
      <4> SUFFICES ASSUME OwnPort[procs[n].app] = 0, procs[n].life = procs[target].life
                   PROVE  procs[n].app = callee
        OBVIOUS
      <4>1. procs[n].port = procs[target].port
        BY <2>2 DEF Answers, Listens
      <4>2. n = target
        BY <3>1, <4>1 DEF AppsInv, IInv, PortsApart
      <4> QED BY <3>1, <4>2
    <3>3. n \in 0 .. Len(procs) /\ n # 0
      BY <1>0
    <3>4. at' \in Place /\ told' \in Answer
      BY <1>0, <2>2 DEF Place
    <3> QED BY <1>0, <1>u, <2>2, <3>b, <3>c, <3>2, <3>3, <3>4
  <2> QED BY <1>3, <2>1, <2>2 DEF Send
<1>4. CASE Execute
  <2>a. /\ at = "inside" /\ at' = "done" /\ ran' = Append(ran, inside)
        /\ UNCHANGED << via, callee, target, inside, told >>
    BY <1>4 DEF Execute
  <2>b. ran = << >>
    BY <1>i, <2>a DEF CallInv
  <2>c. target # 0
    BY <2>a, <1>i DEF CallInv
  <2>d. inside \in 1 .. Len(procs)
    BY <1>0, <2>a
  <2>1. /\ at = "inside" /\ at' = "done" /\ ran = << >> /\ ran' = << inside >>
        /\ UNCHANGED << via, callee, target, inside, told >>
        /\ inside \in 1 .. Len(procs) /\ target # 0
    BY <2>a, <2>b, <2>c, <2>d
  <2>2. Len(ran') = 1 /\ ran'[1] = inside /\ ran' \in Seq(1 .. Len(procs))
    BY <2>1
  <2>3. AppsTypeOK'
    BY <1>0, <1>s, <1>t, <2>1, <2>2 DEF AppsTypeOK, ProcOrNone, Place
  <2>4. told \notin {"ok", "not found"}
    BY <1>i, <2>1 DEF CallInv
  <2>5. CallInv'
    BY <1>s, <1>i, <2>1, <2>2, <2>4 DEF CallInv
  <2>6. RunsInItsApp'
    <3>1. procs[inside].app = callee \/
          (via = "api" /\ (OwnPort[procs[inside].app] # 0 \/ procs[inside].life # procs[target].life))
      BY <1>4, <1>i, <2>1 DEF Execute, Has, CallInv
    <3>2. \A i \in 1 .. Len(ran') : ran'[i] = inside
      BY <2>2
    <3> QED BY <1>s, <2>1, <3>1, <3>2 DEF RunsInItsApp
  <2>e. Len(ran') <= 1
    BY <2>2
  <2>f. told' = told
    BY <2>1
  <2>7. AnswerIsTrue'
    BY <2>2, <2>4, <2>6, <2>e, <2>f DEF AnswerIsTrue
  <2> QED BY <2>3, <2>5, <2>7
<1>5. CASE Reply
  BY <1>0, <1>u, <1>5, <1>i DEF Reply, End, CallInv, AnswerIsTrue, Place, Answer
<1>6. CASE Refuse
  BY <1>0, <1>u, <1>6, <1>i DEF Refuse, End, CallInv, AnswerIsTrue, Place, Answer
<1>7. CASE Lost
  BY <1>0, <1>u, <1>7, <1>i DEF Lost, End, CallInv, AnswerIsTrue, Place, Answer
<1>8. CASE GiveUp
  BY <1>0, <1>u, <1>8, <1>i DEF GiveUp, CallInv, AnswerIsTrue, Place, Answer
<1>9. QED
  BY <1>1, <1>2, <1>3, <1>4, <1>5, <1>6, <1>7, <1>8 DEF CallStep

LEMMA AppsInvStep ==
  ASSUME SupervisorAssumption, CallBoundAssumption, AppsInv, [AppsNext]_appsVars
  PROVE  AppsInv' /\ [SupervisorNext]_supervisorVars
<1>1. ASSUME SupervisorNext, UNCHANGED << part, callVars >>
      PROVE  AppsInv'
  <2>1. IInv'
    BY <1>1, NextInv DEF AppsInv
  <2>2. ToTheKnown' /\ Kept
    BY <1>1, ToTheKnownStep, KeptStep DEF AppsInv
  <2>3. SupervisorTypeOK'
    BY <2>1 DEF IInv
  <2>4. AppsTypeOK' /\ CallInv' /\ AnswerIsTrue'
    BY <1>1, <2>2, <2>3, CallIsKept
  <2> QED BY <2>1, <2>2, <2>4 DEF AppsInv
<1>2. CASE CallStep /\ UNCHANGED << part, supervisorVars >>
  <2>1. IInv'
    BY <1>2, NextInv DEF AppsInv
  <2>2. ToTheKnown'
    BY <1>2 DEF AppsInv, ToTheKnown, supervisorVars, controllerVars
  <2>3. AppsTypeOK' /\ CallInv' /\ AnswerIsTrue'
    BY <1>2, CallGoesOn
  <2> QED BY <1>2, <2>1, <2>2, <2>3 DEF AppsInv
<1>3. CASE UNCHANGED appsVars
  <2>1. UNCHANGED << part, callVars, supervisorVars >>
    BY <1>3 DEF appsVars
  <2>2. UNCHANGED << folder, procs, running, nextPort, controller, life, toDiscover, watching, dead,
                     calledAt, edits, appFailures >>
    BY <2>1 DEF supervisorVars, controllerVars, bounds
  <2>3. IInv'
    BY <2>1, NextInv DEF AppsInv
  <2>4. ToTheKnown'
    BY <2>2 DEF AppsInv, ToTheKnown
  <2>5. Kept /\ SupervisorTypeOK'
    BY <2>2, <2>3 DEF Kept, AppsInv, IInv, SupervisorTypeOK
  <2>6. AppsTypeOK' /\ CallInv' /\ AnswerIsTrue'
    BY <2>1, <2>5, CallIsKept
  <2> QED BY <2>1, <2>3, <2>4, <2>6 DEF AppsInv
<1>4. Beside!SupervisorNext => SupervisorNext
  BY BesideStep DEF AppsInv, IInv
<1>5. QED
  BY <1>1, <1>2, <1>3, <1>4 DEF AppsNext, appsVars

LEMMA AppsSpecInv == AppsSpec => []AppsInv
<1>1. AppsInit => AppsInv
  BY AppsInvInit, SupervisorAssumption
<1>2. AppsInv /\ [AppsNext]_appsVars => AppsInv'
  BY AppsInvStep, SupervisorAssumption, CallBoundAssumption
<1>3. QED
  BY <1>1, <1>2, PTL DEF AppsSpec

\* The supervisor and its processes do nothing else because of the calls beside them: what
\* is proved of them alone holds there, too.
THEOREM CallsLeaveTheSupervisorAlone == AppsSpec => SupervisorSpec
<1>1. AppsInit => SupervisorInit
  BY DEF AppsInit
<1>2. AppsInv /\ [AppsNext]_appsVars => [SupervisorNext]_supervisorVars
  BY AppsInvStep, SupervisorAssumption, CallBoundAssumption
<1>3. QED
  BY <1>1, <1>2, AppsSpecInv, PTL DEF AppsSpec, SupervisorSpec

\* The types of the supervisor, of the processes and of a call.
THEOREM AppsTypeCorrect == AppsSpec => []AppsTypeOK
<1>1. AppsInv => AppsTypeOK
  BY DEF AppsInv
<1>2. QED
  BY <1>1, AppsSpecInv, PTL

\* New calls for an app go to the process that the supervisor knows as the app's, once that
\* has registered: a process that registers after it was told to stop, or belongs to an
\* earlier life of the controller, and no other, may be called in its place.
THEOREM CallsReachTheKnown == AppsSpec => []CallsGoToTheKnown
<1>1. AppsInv => CallsGoToTheKnown
  BY DEF AppsInv, ToTheKnown, CallsGoToTheKnown, Serving
<1>2. QED
  BY <1>1, AppsSpecInv, PTL

\* What a caller of a tool or of an app's API is told is true of what was done, whatever dies,
\* is restarted or moves to another port while the call is under way: it is done once at
\* most, in its app (but for servers that chose their port themselves, and processes of
\* another life of the controller), and it was done when the caller hears of success.
THEOREM AnswersAreTrue == AppsSpec => []AnswerIsTrue
<1>1. AppsInv => AnswerIsTrue
  BY DEF AppsInv
<1>2. QED
  BY <1>1, AppsSpecInv, PTL
=============================================================================
