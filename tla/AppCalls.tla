------------------------------ MODULE AppCalls ------------------------------
(***************************************************************************)
(* A call on its way to an app: a tool call by the resource runner or by a *)
(* client of the MCP server, through the bridge, or a request the gateway  *)
(* proxies.  The process to call is looked up once, as the URL last        *)
(* registered for the app; meanwhile the supervisor and the processes go   *)
(* on, so that the URL may be answered by nobody or by another process.    *)
(*                                                                         *)
(* The callers wait for a limited time (the runner 30 s, the MCP server    *)
(* 5 s, the gateway 5 s for the bridge and 30 s for the app); the bridge   *)
(* and the app have no limit, and what they have begun goes on when the    *)
(* caller has left.                                                        *)
(*                                                                         *)
(* Calls share nothing but the registry, which they only read: there is    *)
(* one in a behaviour.  It runs beside a smaller instance of the           *)
(* supervisor than the one that is checked by itself.                      *)
(***************************************************************************)
EXTENDS AppSupervisor

CONSTANTS CallStarts, CallLives, CallFailures   \* the supervisor's bounds beside a call

ASSUME CallBoundAssumption ==
  /\ CallStarts \in 0 .. MaxStarts /\ CallLives \in 0 .. MaxLives
  /\ CallFailures \in 0 .. MaxAppFailures

VARIABLES
  part,     \* what the behaviour is about
  via,      \* who calls
  callee,   \* the app that is called
  at,       \* where the call is
  target,   \* the process whose URL is called, 0 before it is looked up
  inside,   \* the process that answers there
  ran,      \* processes that did what the call asks for, the first first
  told      \* what the caller has been told

callVars == << via, callee, at, target, inside, ran, told >>
appsVars == << part, supervisorVars, callVars >>

Beside == INSTANCE AppSupervisor WITH
  MaxStarts <- CallStarts, MaxLives <- CallLives, MaxEdits <- 0, MaxAppFailures <- CallFailures

Way == {"runner", "mcp", "api"}
Place == {"asked", "listed", "routed", "inside", "done", "ended"}
Answer == {"nothing", "ok", "failed", "not found"}

AppsTypeOK ==
  /\ SupervisorTypeOK
  /\ part \in {"supervisor", "call"}
  /\ via \in Way /\ callee \in App
  /\ at \in Place /\ told \in Answer
  /\ target \in ProcOrNone /\ inside \in ProcOrNone
  /\ ran \in Seq(1 .. Len(procs))
  /\ at \in {"inside", "done"} => inside # 0

CallInit ==
  /\ via \in Way /\ callee \in App
  /\ at = "asked" /\ target = 0 /\ inside = 0
  /\ ran = << >> /\ told = "nothing"

-----------------------------------------------------------------------------
\* The call is over; a caller that has left is told nothing more.
End(answer) ==
  /\ at' = "ended"
  /\ told' = IF told = "nothing" THEN answer ELSE told

\* GET /v1/tools?mcp=true, before every tools/call.
ListTools ==
  /\ via = "mcp" /\ at = "asked"
  /\ IF calledAt[callee] = 0 THEN End("not found") ELSE at' = "listed" /\ UNCHANGED told
  /\ UNCHANGED << via, callee, target, inside, ran >>

\* handle_execute, or handle_app_info for the gateway: the URL the app has registered.
LookUp ==
  /\ at = IF via = "mcp" THEN "listed" ELSE "asked"
  /\ target' = calledAt[callee]
  /\ IF target' = 0 THEN End("not found") ELSE at' = "routed" /\ UNCHANGED told
  /\ UNCHANGED << via, callee, inside, ran >>

\* The request reaches whoever listens at the URL now, or nobody.
Send ==
  /\ at = "routed"
  /\ \/ \E n \in 1 .. Len(procs) :
          /\ Answers(n, target)
          /\ inside' = n /\ at' = "inside"
          /\ UNCHANGED told
     \/ /\ \A n \in 1 .. Len(procs) : ~Answers(n, target)
        /\ End("failed")
        /\ UNCHANGED inside
  /\ UNCHANGED << via, callee, target, ran >>

\* Mutant: a tool is looked for by the name it has inside its app.
HasIt(n) == n \in 1 .. Len(procs)

\* POST /execute finds a tool by its full name, with the app's id in it; a path of the
\* gateway may be one of several apps.
Has(n) == via = "api" \/ procs[n].app = callee

Execute ==
  /\ at = "inside"
  /\ Alive(inside) /\ Has(inside)
  /\ at' = "done"
  /\ ran' = Append(ran, inside)
  /\ UNCHANGED << via, callee, target, inside, told >>

\* The answer, or the exception as an answer, arrives.
Reply ==
  /\ at = "done"
  /\ End("ok") \/ End("failed")
  /\ UNCHANGED << via, callee, target, inside, ran >>

\* No such tool or path, or input it does not take.
Refuse ==
  /\ at = "inside" /\ Alive(inside)
  /\ End("failed")
  /\ UNCHANGED << via, callee, target, inside, ran >>

\* Mutant: the bridge looks the tool up again and sends the call once more.
LostAndSentAgain ==
  /\ at \in {"inside", "done"} /\ ~Alive(inside)
  /\ at' = "routed" /\ target' = calledAt[callee]
  /\ UNCHANGED << via, callee, inside, ran, told >>

\* The process is gone, before or after it did what it was asked for.
Lost ==
  /\ at \in {"inside", "done"} /\ ~Alive(inside)
  /\ End("failed")
  /\ UNCHANGED << via, callee, target, inside, ran >>

\* The caller's time is over, or its connection breaks: a request still under way to the
\* bridge or the app may be given up with it, a begun one is not.
GiveUp ==
  /\ at # "ended" /\ told = "nothing"
  /\ told' = "failed"
  /\ \/ UNCHANGED at
     \/ at \in {"asked", "listed", "routed"} /\ at' = "ended"
  /\ UNCHANGED << via, callee, target, inside, ran >>

CallStep == ListTools \/ LookUp \/ Send \/ Execute \/ Reply \/ Refuse \/ Lost \/ GiveUp

-----------------------------------------------------------------------------
AppsInit ==
  /\ part \in {"supervisor", "call"}
  /\ SupervisorInit /\ CallInit
  \* Nobody calls in the supervisor's own part.
  /\ part = "supervisor" => via = "runner" /\ callee = CHOOSE a \in App : TRUE

AppsNext ==
  /\ UNCHANGED part
  /\ \/ part = "supervisor" /\ SupervisorNext /\ UNCHANGED callVars
     \/ part = "call" /\ Beside!SupervisorNext /\ UNCHANGED callVars
     \/ part = "call" /\ CallStep /\ UNCHANGED supervisorVars

AppsSpec == AppsInit /\ [][AppsNext]_appsVars

\* The processes and the supervisor of the first part run.
AppsFairSpec == AppsSpec /\ (part = "supervisor" => SupervisorFairness)

-----------------------------------------------------------------------------
\* A registered process the supervisor knows, when it serves, is the one that new calls for
\* its app go to: unless a process it was told to stop, or one of an earlier life of the
\* controller, was slow enough to register after it.
CallsGoToTheKnown ==
  \A a \in App :
    Serving(a) /\ procs[running[a]].registered =>
      \/ calledAt[a] = running[a]
      \/ procs[calledAt[a]].told
      \/ procs[calledAt[a]].life # life

\* A tool call is done by a process of its app and by no other, whatever has died, been
\* restarted or moved to another port since it was looked up.  A request of the gateway is,
\* too, unless the one who answers chose its port itself or belongs to another life of the
\* controller than the one that was looked up.
RunsInItsApp ==
  \A i \in 1 .. Len(ran) :
    LET n == ran[i]
    IN \/ procs[n].app = callee
       \/ via = "api" /\ (OwnPort[procs[n].app] # 0 \/ procs[n].life # procs[target].life)

\* What the caller hears is true of what was done.  From the caller to the app nobody tries
\* again: the call is done once at most, in its app, and not at all when the caller hears
\* that there is no such tool or app.  Success means it was done.  (A failure may mean either.)
AnswerIsTrue ==
  /\ RunsInItsApp
  /\ Len(ran) <= 1
  /\ told = "ok" => Len(ran) = 1
  /\ told = "not found" => ran = << >>

\* DeadAppComesBack, where the supervisor has all its starts.
DeadAppIsRestarted == part = "supervisor" => DeadAppComesBack
=============================================================================
