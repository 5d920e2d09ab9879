-------------------------- MODULE UntrustedRunner --------------------------
(***************************************************************************)
(* The platform controller's consumer of tasks:untrusted_calls: one        *)
(* consumer that runs each call in a container and acknowledges it only    *)
(* after its result is written.  On any exception the call is left         *)
(* pending and the loop goes on with the next one.                         *)
(*                                                                         *)
(* upc names the await it is at: idle (xreadgroup), run                    *)
(* (process_untrusted_call up to its result), write (xadd of the result),  *)
(* ack (xack), down (the process is not running).                          *)
(***************************************************************************)
EXTENDS TaskStreams

VARIABLES
  upc,
  uentry    \* id of the call being processed, 0 when none

untrustedVars == << upc, uentry >>

UntrustedPC == {"idle", "run", "write", "ack", "down"}

UntrustedTypeOK ==
  /\ upc \in UntrustedPC
  /\ uentry \in Nat

UntrustedInit ==
  /\ upc = "idle"
  /\ uentry = 0

UntrustedCall == untrusted.log[uentry]

UntrustedGoto(from, to) == upc = from /\ upc' = to

\* The loop body is left: nothing of the message stays in memory.
UntrustedForget(to) ==
  /\ upc' = to
  /\ uentry' = 0

ReadUntrustedCall ==
  /\ UntrustedGoto("idle", "run")
  /\ HasUnread(untrusted)
  /\ uentry' = NextId(untrusted)
  /\ untrusted' = XREADGROUP(untrusted)
  /\ UNCHANGED << inbound, trusted, results, cancelKey, events, historyVars, failures >>

\* process_untrusted_call up to the XADD.  An app id that does not match the pattern
\* is refused without running anything; a container that times out, fails or leaves
\* no valid output has run, and its result says so.
RunEphemeral(ran) ==
  /\ UntrustedGoto("run", "write")
  /\ executions' = IF ran THEN [executions EXCEPT ![UntrustedCall]["container"] = @ + 1]
                          ELSE executions
  /\ UNCHANGED << uentry, streamVars, cancelKey, events, unreported, issued, answers,
                  failures >>

WriteUntrustedResult ==
  /\ UntrustedGoto("write", "ack")
  /\ results' = XADD(results, UntrustedCall)
  /\ UNCHANGED << uentry, inbound, trusted, untrusted, cancelKey, events, historyVars,
                  failures >>

AckUntrusted ==
  /\ upc = "ack"
  /\ untrusted' = XACK(untrusted, uentry)
  /\ UntrustedForget("idle")
  /\ UNCHANGED << inbound, trusted, results, cancelKey, events, historyVars, failures >>

\* An exception process_untrusted_call does not turn into a result (no docker
\* binary, no space in /tmp), or XADD or XACK raises: "not ACKed, will retry on
\* restart".
LeaveUnacked ==
  /\ upc \in {"run", "write", "ack"}
  /\ UntrustedForget("idle")
  /\ CountFailure
  /\ UNCHANGED << streamVars, cancelKey, events, historyVars >>

CrashController ==
  /\ upc # "down"
  /\ UntrustedForget("down")
  /\ CountFailure
  /\ UNCHANGED << streamVars, cancelKey, events, historyVars >>

\* Startup: the group exists (BUSYGROUP is ignored) and the loop reads ">".
StartController ==
  /\ UntrustedGoto("down", "idle")
  /\ UNCHANGED << uentry, sharedVars >>

UntrustedStep ==
  \/ ReadUntrustedCall \/ WriteUntrustedResult \/ AckUntrusted \/ StartController
  \/ \E ran \in BOOLEAN : RunEphemeral(ran)

UntrustedNext == UntrustedStep \/ LeaveUnacked \/ CrashController
=============================================================================
