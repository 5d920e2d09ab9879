--------------------------- MODULE ResourceRunner ---------------------------
(***************************************************************************)
(* The resource runner: reads a trusted tool call, takes its lease, has    *)
(* the bridge execute the call, writes the result, deletes the lease, and  *)
(* acknowledges the call whatever happened.                                *)
(*                                                                         *)
(* rpc[w] names the await worker w is at: idle (read_tool_call), lease     *)
(* (set_lease), execute (POST /v1/execute), write (write_tool_result),     *)
(* release (delete_lease), ack (ack_tool_call).                            *)
(***************************************************************************)
EXTENDS TaskStreams

CONSTANT Worker   \* worker ids of the group "tool-runners"

VARIABLES
  rpc,
  rentry,   \* rentry[w]: id of the call being processed, 0 when none
  lease     \* lease[w]: id of the call in the key lease:{w}, 0 without key

runnerVars == << rpc, rentry, lease >>

RunnerPC == {"idle", "lease", "execute", "write", "release", "ack"}

RunnerTypeOK ==
  /\ rpc \in [Worker -> RunnerPC]
  /\ rentry \in [Worker -> Nat]
  /\ lease \in [Worker -> Nat]

RunnerInit ==
  /\ rpc = [w \in Worker |-> "idle"]
  /\ rentry = [w \in Worker |-> 0]
  /\ lease = [w \in Worker |-> 0]

RunnerCall(w) == trusted.log[rentry[w]]

RunnerGoto(w, from, to) ==
  /\ rpc[w] = from
  /\ rpc' = [rpc EXCEPT ![w] = to]

ReadToolCall(w) ==
  /\ RunnerGoto(w, "idle", "lease")
  /\ HasUnread(trusted)
  /\ rentry' = [rentry EXCEPT ![w] = NextId(trusted)]
  /\ trusted' = XREADGROUP(trusted)
  /\ UNCHANGED << lease, inbound, untrusted, results, cancelKey, events, historyVars,
                  failures >>

SetLease(w) ==
  /\ RunnerGoto(w, "lease", "execute")
  /\ lease' = [lease EXCEPT ![w] = rentry[w]]
  /\ UNCHANGED << rentry, sharedVars >>

\* BridgeClient.execute never raises: a bridge that is down, an unknown tool, an
\* error of the app and the 30 s timeout all become a result with success = FALSE.
\* The app may or may not have run the call.
BridgeExecute(w, ran) ==
  /\ RunnerGoto(w, "execute", "write")
  /\ executions' = IF ran THEN [executions EXCEPT ![RunnerCall(w)]["bridge"] = @ + 1]
                          ELSE executions
  /\ UNCHANGED << rentry, lease, streamVars, cancelKey, events, unreported, issued, answers,
                  failures >>

WriteToolResult(w) ==
  /\ RunnerGoto(w, "write", "release")
  /\ results' = XADD(results, RunnerCall(w))
  /\ UNCHANGED << rentry, lease, inbound, trusted, untrusted, cancelKey, events,
                  historyVars, failures >>

DeleteLease(w) ==
  /\ RunnerGoto(w, "release", "ack")
  /\ lease' = [lease EXCEPT ![w] = 0]
  /\ UNCHANGED << rentry, sharedVars >>

RunnerForget(w) ==
  /\ rpc' = [rpc EXCEPT ![w] = "idle"]
  /\ rentry' = [rentry EXCEPT ![w] = 0]

\* The finally clause of the loop.
AckToolCall(w) ==
  /\ rpc[w] = "ack"
  /\ trusted' = XACK(trusted, rentry[w])
  /\ RunnerForget(w)
  /\ UNCHANGED << lease, inbound, untrusted, results, cancelKey, events, historyVars,
                  failures >>

\* Mutant: a result that could not be written is produced again.
RunnerFaultRetries(w) ==
  /\ rpc[w] \in {"lease", "write", "release"}
  /\ rpc' = [rpc EXCEPT ![w] = IF @ = "write" THEN "execute" ELSE "ack"]
  /\ CountFailure
  /\ UNCHANGED << rentry, lease, streamVars, cancelKey, events, historyVars >>

\* set_lease, write_tool_result or delete_lease raises.  Only the write is inside
\* the try whose finally deletes the lease; the loop logs and acknowledges.
RunnerFault(w) ==
  /\ rpc[w] \in {"lease", "write", "release"}
  /\ rpc' = [rpc EXCEPT ![w] = IF @ = "write" THEN "release" ELSE "ack"]
  /\ CountFailure
  /\ UNCHANGED << rentry, lease, streamVars, cancelKey, events, historyVars >>

\* The lease key outlives its worker by at most its TTL (60 s), which is longer
\* than the bridge timeout (30 s): it does not go while the call is executed.
LeaseExpires(w) ==
  /\ lease[w] # 0
  /\ rpc[w] \notin {"execute", "write"}
  /\ lease' = [lease EXCEPT ![w] = 0]
  /\ UNCHANGED << rpc, rentry, sharedVars >>

CrashRunner(w) ==
  /\ rpc[w] # "idle"
  /\ RunnerForget(w)
  /\ CountFailure
  /\ UNCHANGED << lease, streamVars, cancelKey, events, historyVars >>

RunnerStep(w) ==
  \/ ReadToolCall(w) \/ SetLease(w) \/ WriteToolResult(w) \/ DeleteLease(w) \/ AckToolCall(w)
  \/ \E ran \in BOOLEAN : BridgeExecute(w, ran)

RunnerNext ==
  \E w \in Worker : RunnerStep(w) \/ RunnerFault(w) \/ LeaseExpires(w) \/ CrashRunner(w)
=============================================================================
