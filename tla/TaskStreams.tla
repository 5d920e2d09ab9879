---------------------------- MODULE TaskStreams ----------------------------
(***************************************************************************)
(* What the task pipeline shares: the four Redis streams                   *)
(*   tasks:inbound          clients            -> inference controller     *)
(*   tasks:tool_calls       inference          -> resource runner          *)
(*   tasks:untrusted_calls  inference          -> platform controller      *)
(*   tasks:tool_results     runner, controller -> inference                *)
(* the keys tasks:cancel:{task_id}, the pub/sub channels sse:{task_id},    *)
(* and the clients that publish and cancel tasks (gateway, bridge          *)
(* /v1/infer, the SDK's inference adapter).                                *)
(*                                                                         *)
(* A task is its id: task ids are fresh UUIDs.  Of its fields only the two *)
(* that decide where its tool calls run are kept, as sets of tasks: those  *)
(* published with a non-empty app_id and those published UNTRUSTED.        *)
(* TRUSTED and UNSPECIFIED take the same branch in the code.  A tool call  *)
(* is its call id, and a result is the call it is the result of: success   *)
(* and failure travel and are consumed alike.                              *)
(***************************************************************************)
EXTENDS RedisStream, FiniteSets

CONSTANTS
  Task,             \* the task ids clients ever publish
  AppTask,          \* those whose app_id is set: they come from an app
  DeclaredUntrusted,\* those whose execution_mode field says UNTRUSTED
  MaxCalls,         \* bound: tool calls the model makes for one task
  MaxFailures       \* bound: process deaths and awaits that raise, together

ASSUME TaskAssumption ==
  /\ AppTask \subseteq Task
  /\ DeclaredUntrusted \subseteq Task
ASSUME BoundAssumption ==
  /\ MaxCalls \in Nat
  /\ MaxFailures \in Nat

VARIABLES
  inbound, trusted, untrusted, results,   \* the streams
  cancelKey,   \* tasks whose tasks:cancel:{task_id} key exists
  events,      \* events[t]: what was published on sse:{t}
  unreported,  \* tasks whose DONE or ERROR could not be published
  issued,      \* issued[t]: tool calls pushed for task t so far
  answers,     \* tool_result blocks given back to the model, with their origin
  executions,  \* executions[c][h]: times call c was started on host h
  failures     \* process deaths and awaits that raised so far

streamVars == << inbound, trusted, untrusted, results >>
historyVars == << unreported, issued, answers, executions >>
sharedVars == << streamVars, cancelKey, events, historyVars, failures >>

\* A tool call is the n-th one pushed for its task (its call_id).
Call == [task : Task, seq : 1 .. MaxCalls]

\* Where a tool's code runs: the app's own process behind the bridge, on the
\* host, or a throw-away container without network.
Host == {"bridge", "container"}

EventType == {"RESPONSE_CHUNK", "DONE", "ERROR"}
Terminal == {"DONE", "ERROR"}

SharedTypeOK ==
  /\ inbound \in Stream(Task)
  /\ trusted \in Stream(Call)
  /\ untrusted \in Stream(Call)
  /\ results \in Stream(Call)
  /\ cancelKey \subseteq Task
  /\ events \in [Task -> Seq(EventType)]
  /\ unreported \subseteq Task
  /\ issued \in [Task -> 0 .. MaxCalls]
  /\ answers \subseteq [call : Call, source : Call]
  /\ executions \in [Call -> [Host -> Nat]]
  /\ failures \in 0 .. MaxFailures

SharedInit ==
  /\ inbound = NewStream
  /\ trusted = NewStream
  /\ untrusted = NewStream
  /\ results = NewStream
  /\ cancelKey = {}
  /\ events = [t \in Task |-> << >>]
  /\ unreported = {}
  /\ issued = [t \in Task |-> 0]
  /\ answers = {}
  /\ executions = [c \in Call |-> [h \in Host |-> 0]]
  /\ failures = 0

\* One PUBLISH on sse:{t}.  A run of consecutive chunks is recorded as one.
Publish(t, type) ==
  events' = IF type = "RESPONSE_CHUNK" /\ events[t] # << >>
               /\ events[t][Len(events[t])] = type
            THEN events
            ELSE [events EXCEPT ![t] = Append(@, type)]

Published(t, type) == \E i \in 1 .. Len(events[t]) : events[t][i] = type
Ended(t) == \E type \in Terminal : Published(t, type)

\* A process dies, or an await raises: this happens a bounded number of times.
CountFailure == failures < MaxFailures /\ failures' = failures + 1

-----------------------------------------------------------------------------
(* The clients.                                                            *)

\* A client publishes a task it has just created.
PublishTask(t) ==
  /\ ~Added(inbound, t)
  /\ inbound' = XADD(inbound, t)
  /\ UNCHANGED << trusted, untrusted, results, cancelKey, events, historyVars, failures >>

\* ctx.inference.cancel: SET of a key with a one-hour TTL, while the task is queued
\* or being processed, and again after an earlier cancel was seen.  (The key of an
\* acknowledged task is never read; one that expires in the queue is as if never set.)
\* Only the SDK offers it, and only an app's own tasks have an id the app knows.
Cancel(t) ==
  /\ t \in AppTask
  /\ Unread(inbound, t) \/ Pending(inbound, t)
  /\ t \notin cancelKey
  /\ cancelKey' = cancelKey \cup {t}
  /\ UNCHANGED << streamVars, events, historyVars, failures >>

ClientNext == \E t \in Task : PublishTask(t) \/ Cancel(t)
=============================================================================
