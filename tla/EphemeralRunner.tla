-------------------------- MODULE EphemeralRunner --------------------------
(***************************************************************************)
(* How the platform controller runs an untrusted call: in a container of   *)
(* the docker daemon that finds its input in a directory of the host and   *)
(* leaves its output there.  Directory and container are named after the   *)
(* task, not the call; both outlive a controller that dies.  It is what    *)
(* RunEphemeral of UntrustedRunner takes as one step.                      *)
(*                                                                         *)
(* erpc names what the controller does next: idle (the next call), run     *)
(* (docker run), wait (for the container), remove (docker rm -f), read     *)
(* (output.json), clean (the finally clause), down.                        *)
(***************************************************************************)
EXTENDS Naturals

CONSTANTS
  RunTask, Absent,
  MaxRunCalls,      \* bound: calls of one task
  MaxRunFailures    \* bound: deaths of the controller, failing docker and file operations

ASSUME EphemeralAssumption ==
  MaxRunCalls \in Nat /\ MaxRunFailures \in Nat

VARIABLES
  erpc, ecall,  \* ecall: the call it is at, or Absent
  pending,      \* what is to be said of that call
  begun,        \* begun[t]: calls of t so far
  dirs,         \* dirs[t]: /tmp/beg-{t}, or Absent
  containers,   \* containers[t]: the container named beg-{t}, or Absent
  outcomes,     \* outcomes[c]: the result of call c, or Absent while there is none
  littered,     \* tasks of which a crash or failure may have left something behind
  runFailures

ephemeralVars == << erpc, ecall, pending, begun, dirs, containers, outcomes, littered,
                    runFailures >>

RunCall == [task : RunTask, seq : 1 .. MaxRunCalls]
RunCallOrNone == RunCall \cup {Absent}

\* input.json and output.json are told apart by the call they are of.
Dir == [input : RunCall, output : RunCallOrNone]
\* input: what it has read.  mounted: its /workspace is the directory that has the name now.
Container == [input : RunCallOrNone, mounted : BOOLEAN]

ASSUME AbsentAssumption == Absent \notin RunCall /\ Absent \notin Dir

Outcome == [success : BOOLEAN, output : RunCallOrNone]
Failure == [success |-> FALSE, output |-> Absent]

EphemeralTypeOK ==
  /\ erpc \in {"idle", "run", "wait", "remove", "read", "clean", "down"}
  /\ IF erpc \in {"idle", "down"} THEN ecall = Absent ELSE ecall \in RunCall
  /\ pending \in Outcome \cup {Absent}
  /\ begun \in [RunTask -> 0 .. MaxRunCalls]
  /\ dirs \in [RunTask -> Dir \cup {Absent}]
  /\ containers \in [RunTask -> Container \cup {Absent}]
  /\ \A t \in RunTask :
       containers[t] # Absent /\ dirs[t] = Absent => ~containers[t].mounted
  /\ outcomes \in [RunCall -> Outcome \cup {Absent}]
  /\ littered \subseteq RunTask
  /\ runFailures \in 0 .. MaxRunFailures

EphemeralInit ==
  /\ erpc = "idle" /\ ecall = Absent /\ pending = Absent
  /\ begun = [t \in RunTask |-> 0]
  /\ dirs = [t \in RunTask |-> Absent]
  /\ containers = [t \in RunTask |-> Absent]
  /\ outcomes = [c \in RunCall |-> Absent]
  /\ littered = {} /\ runFailures = 0

CountRunFailure == runFailures < MaxRunFailures /\ runFailures' = runFailures + 1

\* The controller goes on, with something to say of its call.
Goto(from, to, outcome) ==
  /\ erpc = from /\ erpc' = to
  /\ pending' = outcome
  /\ UNCHANGED << ecall, begun >>

-----------------------------------------------------------------------------
(* EphemeralRunner.run.                                                    *)

\* mkdir, which takes a directory that is there as it is, and the input file.
BeginRun(t) ==
  /\ erpc = "idle" /\ begun[t] < MaxRunCalls
  /\ erpc' = "run"
  /\ ecall' = [task |-> t, seq |-> begun[t] + 1]
  /\ begun' = [begun EXCEPT ![t] = @ + 1]
  /\ dirs' = [dirs EXCEPT
       ![t] = [input |-> ecall', output |-> IF @ = Absent THEN Absent ELSE @.output]]
  /\ UNCHANGED << pending, containers, outcomes, littered, runFailures >>

\* docker run: a container, or none when the name is in use or there is no such image.
DockerRun ==
  /\ \/ /\ Goto("run", "wait", Absent)
        /\ containers[ecall.task] = Absent
        /\ containers' = [containers EXCEPT ![ecall.task] = [input |-> Absent, mounted |-> TRUE]]
     \/ Goto("run", "clean", Failure) /\ UNCHANGED containers
  /\ UNCHANGED << dirs, outcomes, littered, runFailures >>

\* The input cannot be written, or there is no docker: an exception nobody turns into a
\* result.  The call is left pending.
RunRaises ==
  /\ Goto("run", "clean", Absent)
  /\ CountRunFailure
  /\ UNCHANGED << dirs, containers, outcomes, littered >>

\* 30 s are over.
Timeout ==
  /\ Goto("wait", "remove", Failure)
  /\ UNCHANGED << dirs, containers, outcomes, littered, runFailures >>

\* Mutant: the docker client is killed, and not the container.
KillClient ==
  /\ Goto("remove", "clean", pending)
  /\ UNCHANGED << dirs, containers, outcomes, littered, runFailures >>

\* docker rm -f; what it answers is ignored.
RemoveContainer ==
  /\ Goto("remove", "clean", pending)
  /\ \/ /\ containers' = [containers EXCEPT ![ecall.task] = Absent]
        /\ UNCHANGED << littered, runFailures >>
     \/ /\ CountRunFailure /\ littered' = littered \cup {ecall.task}
        /\ UNCHANGED containers
  /\ UNCHANGED << dirs, outcomes >>

Outputs == {dirs[ecall.task].output} \ {Absent}

\* An output that is no JSON object, or too large, is a failure.
ReadOutput ==
  /\ erpc = "read"
  /\ \E outcome \in {Failure} \cup { [success |-> TRUE, output |-> c] : c \in Outputs } :
       Goto("read", "clean", outcome)
  /\ UNCHANGED << dirs, containers, outcomes, littered, runFailures >>

Report ==
  /\ erpc = "clean" /\ erpc' = "idle"
  /\ outcomes' = [outcomes EXCEPT ![ecall] = pending]
  /\ ecall' = Absent /\ pending' = Absent
  /\ UNCHANGED begun

DirRemoved(t) ==
  /\ dirs' = [dirs EXCEPT ![t] = Absent]
  /\ containers' = IF containers[t] = Absent THEN containers
                   ELSE [containers EXCEPT ![t].mounted = FALSE]

\* Mutant: no finally: the directory is removed after a success.
CleanAfterSuccess ==
  /\ Report
  /\ IF pending # Absent /\ pending.success THEN DirRemoved(ecall.task)
                                          ELSE UNCHANGED << dirs, containers >>
  /\ UNCHANGED << littered, runFailures >>

\* rmtree, which says nothing when it fails; then the result is written.
CleanUp ==
  /\ Report
  /\ \/ DirRemoved(ecall.task) /\ UNCHANGED << littered, runFailures >>
     \/ /\ CountRunFailure /\ littered' = littered \cup {ecall.task}
        /\ UNCHANGED << dirs, containers >>

CrashInRun ==
  /\ erpc # "down" /\ erpc' = "down"
  /\ CountRunFailure
  /\ littered' = IF ecall = Absent THEN littered ELSE littered \cup {ecall.task}
  /\ ecall' = Absent /\ pending' = Absent
  /\ UNCHANGED << begun, dirs, containers, outcomes >>

RestartRunner ==
  /\ erpc = "down" /\ erpc' = "idle"
  /\ UNCHANGED << ecall, pending, begun, dirs, containers, outcomes, littered, runFailures >>

-----------------------------------------------------------------------------
(* The container: the app's code may read, write and end, or do nothing.   *)

ReadsInput(t) ==
  /\ containers[t] # Absent /\ containers[t].mounted
  /\ containers' = [containers EXCEPT ![t].input = dirs[t].input]
  /\ UNCHANGED << erpc, ecall, pending, begun, dirs, outcomes, littered, runFailures >>

WritesOutput(t) ==
  /\ containers[t] # Absent /\ containers[t].mounted /\ containers[t].input # Absent
  /\ dirs' = [dirs EXCEPT ![t].output = containers[t].input]
  /\ UNCHANGED << erpc, ecall, pending, begun, containers, outcomes, littered, runFailures >>

\* It is gone when it ends (--rm).  The controller, if it waits for it, sees its exit code.
Exits(t, success) ==
  /\ containers[t] # Absent
  /\ containers' = [containers EXCEPT ![t] = Absent]
  /\ IF erpc = "wait" /\ ecall.task = t
     THEN Goto("wait", IF success THEN "read" ELSE "clean", IF success THEN Absent ELSE Failure)
     ELSE UNCHANGED << erpc, ecall, pending, begun >>
  /\ UNCHANGED << dirs, outcomes, littered, runFailures >>

RunnerStepOf == DockerRun \/ Timeout \/ RemoveContainer \/ ReadOutput \/ CleanUp

EphemeralNext ==
  \/ RunnerStepOf \/ RunRaises \/ CrashInRun \/ RestartRunner
  \/ \E t \in RunTask :
       BeginRun(t) \/ ReadsInput(t) \/ WritesOutput(t) \/ \E success \in BOOLEAN : Exits(t, success)

EphemeralSpec == EphemeralInit /\ [][EphemeralNext]_ephemeralVars

-----------------------------------------------------------------------------
\* The calls of a task share a directory and a name, and do not meet.  "Per-call container":
\* the output that is given back as the result of a call was computed from its own input; and
\* "force-remove the container by name": none is left running when its call has been
\* answered, to keep its name from the next.  After a crash of the controller, or a removal
\* that failed, there may be a container, or the output of an earlier call.
CallsOfATaskAreApart ==
  /\ \A c \in RunCall :
       outcomes[c] # Absent /\ outcomes[c].success =>
         LET source == outcomes[c].output
         IN source.task = c.task /\ (source = c \/ (source.seq < c.seq /\ c.task \in littered))
  /\ \A t \in RunTask :
       containers[t] # Absent =>
         t \in littered \/ (erpc \in {"wait", "remove"} /\ ecall.task = t)
=============================================================================
