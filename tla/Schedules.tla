------------------------------ MODULE Schedules ------------------------------
(***************************************************************************)
(* The platform controller's schedules: the rows of shared.schedules and   *)
(* the jobs of the in-memory scheduler that fire them.  Two kinds of       *)
(* workers of one event loop change both: the consumer of                  *)
(* tasks:schedule_ops, to which the SDK's schedule and unschedule add, and *)
(* the handlers of the HTTP API.  Each changes the rows in a transaction   *)
(* and the jobs in a step of its own; startup makes the jobs of the rows.  *)
(*                                                                         *)
(* PostgreSQL is external.  A statement finds its rows among those that    *)
(* are committed when it begins, and changes them one by one, in any       *)
(* order, waiting for those another transaction has changed and looking at *)
(* them anew after that; what it has changed takes effect when its         *)
(* transaction commits.  Transactions that wait for each other are found   *)
(* out after a while, and the statement of one of them is made to fail.    *)
(*                                                                         *)
(* wpc[w] names the await worker w is at: idle, select (delete_app's ids), *)
(* remove (the reply to it), execute (the statement is sent), rows (it is  *)
(* being executed, and the commit sent after it), job (the reply to the    *)
(* commit, after which the job is added or removed), ack (XACK).           *)
(***************************************************************************)
EXTENDS RedisStream

CONSTANTS
  Id,
  App,          \* the apps whose schedules are ever deleted together
  ValidCron,    \* the cron expressions CronTrigger.from_crontab accepts
  Entry,        \* schedule entries
  HttpEntry,    \* those that POST /schedules is called with
  Table,        \* the rows an earlier life of the controller may have left
  Consumer,
  None, Unknown,
  MaxOps,       \* bound: operations ever added to the stream
  MaxRequests,  \* bound: HTTP requests ever sent
  MaxFailures   \* bound: crashes and failing operations of PostgreSQL and Redis

\* A request has a handler of its own.
Handler == 1 .. MaxRequests
Worker == {Consumer} \cup Handler

OrNone(S) == S \cup {None}

ASSUME ScheduleAssumption ==
  /\ Consumer \notin Handler
  /\ None \notin Entry /\ Unknown \notin Entry \cup {None}
  /\ HttpEntry \subseteq Entry
\* startup_event has been able to make the jobs.
ASSUME TableAssumption == Table \subseteq [Id -> OrNone({ e \in Entry : e.cron \in ValidCron })]
ASSUME ScheduleBoundAssumption ==
  MaxOps \in Nat /\ MaxRequests \in Nat /\ MaxFailures \in Nat

VARIABLES
  ops,       \* tasks:schedule_ops
  rows,      \* rows[i]: the committed row with id i, or None
  jobs,      \* jobs[i]: the entry the scheduler fires as i (active_jobs)
  up,
  wpc, op,
  reading,   \* id of the stream entry the consumer is at, 0 when none
  selected,  \* selected[w]: the ids delete_app's SELECT returned
  found,     \* found[w]: the rows w's statement has found and not yet changed
  writes,    \* writes[w]: rows changed by w's transaction, not yet committed
  requests, failures,
  contested, \* contested[w]: ids another worker was at while w was
  promised   \* promised[i]: what the last completed operation made of i

schedVars == << ops, rows, jobs, up, wpc, op, reading, selected, found, writes, requests,
                failures, contested, promised >>

StreamOp == [kind : {"upsert"}, id : Id, entry : Entry] \cup [kind : {"delete"}, id : Id]
HttpOp ==
  [kind : {"upsert"}, id : Id, entry : HttpEntry] \cup [kind : {"delete"}, id : Id]
    \cup [kind : {"delete app"}, app : App]

\* None is none of them.
ASSUME NoneAssumption == None \notin StreamOp \cup HttpOp

\* What a transaction may have written: new rows, by id.
Writes == UNION { [S -> OrNone(Entry)] : S \in SUBSET Id }
NoWrites == [i \in {} |-> None]

Position == {"idle", "select", "remove", "execute", "rows", "job", "ack"}

ScheduleTypeOK ==
  /\ ops \in Stream(StreamOp) /\ Len(ops.log) <= MaxOps
  /\ rows \in [Id -> OrNone(Entry)]
  /\ jobs \in [Id -> OrNone(Entry)]
  /\ up \in BOOLEAN
  /\ wpc \in [Worker -> Position]
  /\ op \in [Worker -> OrNone(HttpOp \cup StreamOp)]
  /\ found \in [Worker -> SUBSET Id] /\ writes \in [Worker -> Writes]
  /\ \A w \in Worker :
       /\ op[w] = None <=> wpc[w] \in {"idle", "ack"}
       /\ wpc[w] = "ack" => w = Consumer
       /\ ~up => wpc[w] = "idle"
       /\ found[w] # {} => wpc[w] = "rows"
       /\ writes[w] # NoWrites => wpc[w] = "rows"
  \* What the consumer has not finished is pending.
  /\ IF wpc[Consumer] = "idle" THEN reading = 0 ELSE reading \in ops.pending
  /\ selected \in [Worker -> SUBSET Id] /\ contested \in [Worker -> SUBSET Id]
  /\ requests \in 0 .. MaxRequests /\ failures \in 0 .. MaxFailures
  /\ promised \in [Id -> OrNone(Entry) \cup {Unknown}]

\* The controller has just made a job of each row.
ScheduleInit ==
  /\ ops = NewStream
  /\ rows \in Table
  /\ jobs = rows
  /\ up = TRUE
  /\ wpc = [w \in Worker |-> "idle"]
  /\ op = [w \in Worker |-> None]
  /\ reading = 0
  /\ selected = [w \in Worker |-> {}]
  /\ found = [w \in Worker |-> {}]
  /\ writes = [w \in Worker |-> NoWrites]
  /\ requests = 0 /\ failures = 0
  /\ contested = [w \in Worker |-> {}]
  /\ promised = rows

WorkerGoto(w, from, to) == wpc[w] = from /\ wpc' = [wpc EXCEPT ![w] = to]

CountScheduleFailure == failures < MaxFailures /\ failures' = failures + 1

\* The ids an operation is about.
About(o) == IF o = None THEN {} ELSE IF o.kind = "delete app" THEN Id ELSE {o.id}

HasApp(e, app) == e \in Entry /\ e.app = app

-----------------------------------------------------------------------------
(* An operation begins and ends.                                           *)

\* From here on nothing is promised of the ids another worker is at.
Begin(w, o) ==
  LET shared(v) == About(op[v]) \cap About(o)
      mine == UNION { shared(v) : v \in Worker \ {w} }
  IN /\ op' = [op EXCEPT ![w] = o]
     /\ wpc' = [wpc EXCEPT ![w] = IF o.kind = "delete app" THEN "select" ELSE "execute"]
     /\ contested' = [v \in Worker |-> IF v = w THEN mine ELSE contested[v] \cup shared(v)]
     /\ promised' = [i \in Id |-> IF i \in mine THEN Unknown ELSE promised[i]]

\* The worker goes on to another await; its session, left, rolls back what it has
\* not committed.
Leave(w, to) ==
  /\ wpc' = [wpc EXCEPT ![w] = to]
  /\ op' = [op EXCEPT ![w] = None]
  /\ found' = [found EXCEPT ![w] = {}]
  /\ writes' = [writes EXCEPT ![w] = NoWrites]
  /\ selected' = [selected EXCEPT ![w] = {}]
  /\ contested' = [contested EXCEPT ![w] = {}]

\* What operation o makes of an entry.
Result(o, e) == IF o.kind = "upsert" THEN o.entry
                ELSE IF o.kind = "delete" \/ HasApp(e, o.app) THEN None ELSE e

\* The ids of which a worker that stops now leaves an unknown state.
InDoubt(w) ==
  IF wpc[w] = "job" \/ (op[w] # None /\ op[w].kind = "delete app")
  THEN About(op[w]) ELSE {}

-----------------------------------------------------------------------------
(* The stream.                                                             *)

\* ctx.schedule or ctx.unschedule of some app.
SendOp(o) ==
  /\ Len(ops.log) < MaxOps
  /\ ops' = XADD(ops, o)
  /\ UNCHANGED << rows, jobs, up, wpc, op, reading, selected, found, writes, requests,
                  failures, contested, promised >>

\* Mutant: the cron expression is not validated.
DiscardsNothing(o) == FALSE

\* A cron expression the trigger refuses is logged and discarded, like a malformed
\* operation.
Discards(o) == o.kind = "upsert" /\ o.entry.cron \notin ValidCron

\* Mutant: the entry is acknowledged when it is read.
AckThenProcess ==
  /\ up /\ wpc[Consumer] = "idle"
  /\ HasUnread(ops)
  /\ ops' = XACK(XREADGROUP(ops), NextId(ops))
  /\ reading' = NextId(ops)
  /\ Begin(Consumer, ops.log[NextId(ops)])
  /\ UNCHANGED << rows, jobs, up, selected, found, writes, requests, failures >>

ReadOp ==
  /\ up /\ wpc[Consumer] = "idle"
  /\ HasUnread(ops)
  /\ ops' = XREADGROUP(ops)
  /\ reading' = NextId(ops)
  /\ LET o == ops.log[NextId(ops)]
     IN IF Discards(o)
        THEN /\ wpc' = [wpc EXCEPT ![Consumer] = "ack"]
             /\ UNCHANGED << op, contested, promised >>
        ELSE Begin(Consumer, o)
  /\ UNCHANGED << rows, jobs, up, selected, found, writes, requests, failures >>

AckOp ==
  /\ WorkerGoto(Consumer, "ack", "idle")
  /\ ops' = XACK(ops, reading)
  /\ reading' = 0
  /\ UNCHANGED << rows, jobs, up, op, selected, found, writes, requests, failures,
                  contested, promised >>

\* "unhandled error ... not ACKed": the loop goes on with the next entry.
AckOpFails ==
  /\ WorkerGoto(Consumer, "ack", "idle")
  /\ CountScheduleFailure
  /\ reading' = 0
  /\ UNCHANGED << ops, rows, jobs, up, op, selected, found, writes, requests, contested,
                  promised >>

-----------------------------------------------------------------------------
(* The steps of an operation, in the consumer or in a handler.             *)

ReceiveRequest(h, o) ==
  /\ up
  /\ h = requests + 1 /\ wpc[h] = "idle"
  /\ requests' = h
  /\ Begin(h, o)
  /\ UNCHANGED << ops, rows, jobs, up, reading, selected, found, writes, failures >>

\* delete_app_schedules: the ids to remove are read,
SelectIds(w) ==
  /\ WorkerGoto(w, "select", "remove")
  /\ selected' = [selected EXCEPT ![w] = { i \in Id : HasApp(rows[i], op[w].app) }]
  /\ UNCHANGED << ops, rows, jobs, up, op, reading, found, writes, requests, failures,
                  contested, promised >>

\* and their jobs removed before their rows are.
RemoveJobs(w) ==
  /\ WorkerGoto(w, "remove", "execute")
  /\ jobs' = [i \in Id |-> IF i \in selected[w] THEN None ELSE jobs[i]]
  /\ UNCHANGED << ops, rows, up, op, reading, selected, found, writes, requests,
                  failures, contested, promised >>

\* The rows a statement is about, as they are now.
Targets(o) == IF o.kind = "upsert" THEN {o.id}
              ELSE { i \in About(o) : IF o.kind = "delete" THEN rows[i] # None
                                      ELSE HasApp(rows[i], o.app) }

\* The rows w has to wait for, and the worker it waits for.
Locked(w) == UNION { DOMAIN writes[v] : v \in Worker \ {w} }
WaitsFor(w, v) == v # w /\ found[w] \subseteq Locked(w) /\ found[w] \cap DOMAIN writes[v] # {}

ExecuteSQL(w) ==
  /\ WorkerGoto(w, "execute", "rows")
  /\ found' = [found EXCEPT ![w] = Targets(op[w])]
  /\ UNCHANGED << ops, rows, jobs, up, op, reading, selected, writes, requests, failures,
                  contested, promised >>

\* A row that is no longer what the statement looks for is left alone.
ChangeRow(w, i) ==
  /\ i \in found[w] \ Locked(w)
  /\ found' = [found EXCEPT ![w] = @ \ {i}]
  /\ writes' = IF i \notin Targets(op[w]) THEN writes
               ELSE [writes EXCEPT ![w] = [j \in DOMAIN writes[w] \cup {i} |->
                       IF j = i THEN Result(op[w], rows[i]) ELSE writes[w][j]]]
  /\ UNCHANGED << ops, rows, jobs, up, wpc, op, reading, selected, requests, failures,
                  contested, promised >>

\* A DELETE that waits for a row which is deleted meanwhile skips it, whatever is
\* inserted in its place; an upsert inserts its row then.
CommitSQL(w) ==
  LET deleted == { i \in DOMAIN writes[w] : writes[w][i] = None }
  IN /\ WorkerGoto(w, "rows", "job")
     /\ found[w] = {}
     /\ rows' = [i \in Id |-> IF i \in DOMAIN writes[w] THEN writes[w][i] ELSE rows[i]]
     /\ found' = [v \in Worker |-> IF found[v] = {} \/ op[v].kind = "upsert" THEN found[v]
                                   ELSE found[v] \ deleted]
     /\ writes' = [writes EXCEPT ![w] = NoWrites]
     /\ UNCHANGED << ops, jobs, up, op, reading, selected, requests, failures, contested,
                     promised >>

\* add_schedule and remove_schedule.  add_schedule first removes the job, and then
\* raises on a cron expression the trigger refuses.
JobOf(o) == IF o.kind = "upsert" /\ o.entry.cron \in ValidCron THEN o.entry ELSE None

\* Mutant: the row is deleted, and the job is left to fire.
CompleteWithoutRemoving(w) ==
  LET o == op[w]
  IN /\ wpc[w] = "job"
     /\ jobs' = IF o.kind = "upsert" THEN [jobs EXCEPT ![o.id] = JobOf(o)] ELSE jobs
     /\ promised' = [i \in Id |->
          IF i \in About(o) \ contested[w] /\ (o.kind # "delete app" \/ promised[i] # Unknown)
          THEN Result(o, promised[i]) ELSE promised[i]]
     /\ Leave(w, IF w = Consumer THEN "ack" ELSE "idle")
     /\ UNCHANGED << ops, rows, up, reading, requests, failures >>

\* The operation is answered, or acknowledged next: what it says of an id is
\* promised, unless another operation on it was in progress at the same time.
Complete(w) ==
  LET o == op[w]
  IN /\ wpc[w] = "job"
     /\ jobs' = IF o.kind = "delete app" THEN jobs ELSE [jobs EXCEPT ![o.id] = JobOf(o)]
     /\ promised' = [i \in Id |->
          IF i \in About(o) \ contested[w] /\ (o.kind # "delete app" \/ promised[i] # Unknown)
          THEN Result(o, promised[i]) ELSE promised[i]]
     /\ Leave(w, IF w = Consumer THEN "ack" ELSE "idle")
     /\ UNCHANGED << ops, rows, up, reading, requests, failures >>

\* Mutant: the session is not closed, and its locks stay.
RaiseWithOpenSession(w) ==
  /\ op[w] # None
  /\ promised' = [i \in Id |-> IF i \in InDoubt(w) THEN Unknown ELSE promised[i]]
  /\ reading' = IF w = Consumer THEN 0 ELSE reading
  /\ wpc' = [wpc EXCEPT ![w] = "idle"]
  /\ op' = [op EXCEPT ![w] = None]
  /\ found' = [found EXCEPT ![w] = {}]
  /\ UNCHANGED << ops, rows, jobs, up, requests, selected, writes, contested >>

\* An await raises: the handler answers 500; the consumer leaves its entry pending.
Raises(w) ==
  /\ op[w] # None
  /\ promised' = [i \in Id |-> IF i \in InDoubt(w) THEN Unknown ELSE promised[i]]
  /\ reading' = IF w = Consumer THEN 0 ELSE reading
  /\ Leave(w, "idle")
  /\ UNCHANGED << ops, rows, jobs, up, requests >>

\* A failing statement or commit; of the latter what the code is told may be wrong: it
\* has taken effect (job), or it has not (rows).
OperationFails(w) == Raises(w) /\ CountScheduleFailure

\* Workers that wait for each other in a circle: PostgreSQL makes one of them fail.
Deadlocked(W) == \A w \in W : \E u, v \in W : WaitsFor(u, w) /\ WaitsFor(w, v)

BreakDeadlock(w) ==
  /\ \E W \in SUBSET Worker : w \in W /\ Deadlocked(W)
  /\ Raises(w)
  /\ UNCHANGED failures

-----------------------------------------------------------------------------
CrashController ==
  /\ up
  /\ CountScheduleFailure
  /\ up' = FALSE
  /\ jobs' = [i \in Id |-> None]
  /\ wpc' = [w \in Worker |-> "idle"]
  /\ op' = [w \in Worker |-> None]
  /\ reading' = 0
  /\ selected' = [w \in Worker |-> {}]
  /\ found' = [w \in Worker |-> {}]
  /\ writes' = [w \in Worker |-> NoWrites]
  /\ contested' = [w \in Worker |-> {}]
  /\ promised' = [i \in Id |->
       IF \E w \in Worker : i \in InDoubt(w) THEN Unknown ELSE promised[i]]
  /\ UNCHANGED << ops, rows, requests >>

\* startup_event makes a job of every row before the consumer starts and the first
\* request is accepted; it raises on the first row it cannot, and the process exits.
StartController ==
  /\ ~up
  /\ \A i \in Id : rows[i] # None => rows[i].cron \in ValidCron
  /\ up' = TRUE
  /\ jobs' = rows
  /\ promised' = [i \in Id |-> IF promised[i] = Unknown THEN rows[i] ELSE promised[i]]
  /\ UNCHANGED << ops, rows, wpc, op, reading, selected, found, writes, requests, failures,
                  contested >>

WorkerStep(w) ==
  \/ SelectIds(w) \/ RemoveJobs(w) \/ ExecuteSQL(w)
  \/ \E i \in Id : ChangeRow(w, i)
  \/ CommitSQL(w) \/ Complete(w)

ScheduleNext ==
  \/ \E o \in StreamOp : SendOp(o)
  \/ \E h \in Handler, o \in HttpOp : ReceiveRequest(h, o)
  \/ ReadOp \/ AckOp \/ AckOpFails
  \/ \E w \in Worker : WorkerStep(w) \/ OperationFails(w) \/ BreakDeadlock(w)
  \/ CrashController \/ StartController

ScheduleSpec == ScheduleInit /\ [][ScheduleNext]_schedVars

\* The event loop serves every worker, and PostgreSQL every statement whose rows are
\* free and every deadlock.  Nobody has to start a controller that has died.
ScheduleFairSpec ==
  /\ ScheduleSpec
  /\ \A w \in Worker : WF_schedVars(WorkerStep(w))
  /\ WF_schedVars(ReadOp) /\ WF_schedVars(AckOp)
  /\ WF_schedVars(\E w \in Worker : BreakDeadlock(w))

-----------------------------------------------------------------------------
InProgress(i) == \E w \in Worker : i \in About(op[w])

\* What a completed operation said of a schedule holds of its row and of its job
\* until the next one: whatever other operations run at the same time on other
\* schedules, fail half way or delete their app, and across restarts.  It is void
\* when two operations on the schedule overlapped (deleting an app is an operation on
\* every schedule), or one failed in its commit; the next operation on it, or a
\* restart, sets it right.
RowsAndJobsAgree ==
  up => \A i \in Id :
    ~InProgress(i) /\ promised[i] # Unknown => rows[i] = promised[i] /\ jobs[i] = promised[i]

\* "An invalid cron would ... leav[e] a bad row that wedges the consumer on restart":
\* no row is written that startup cannot make a job of.
RowsAreSchedulable ==
  \A i \in Id : rows[i] # None => rows[i].cron \in ValidCron

\* A controller that stays up answers every request and reads and leaves every
\* operation, whoever waits for whose rows, and though two deletes of many rows may
\* wait for each other, and after a session that failed with rows locked.
EverythingIsProcessed ==
  []<>(up => ~HasUnread(ops) /\ \A w \in Worker : wpc[w] = "idle")
=============================================================================
