--------------------------- MODULE ScheduleProofs ---------------------------
(***************************************************************************)
(* Proofs about Schedules, for any number of schedules, handlers,          *)
(* operations and failures.                                                *)
(***************************************************************************)
EXTENDS Schedules, RedisStreamProofs

\* What a row, a job or a pending write may be.
Schedulable(e) == e # None => e.cron \in ValidCron

\* RowsAreSchedulable is not inductive: a commit makes rows of the writes of a
\* transaction, which a statement made of an operation that was let in earlier.
OperationsAreSchedulable ==
  \A w \in Worker : op[w] # None /\ op[w].kind = "upsert" => Schedulable(op[w].entry)

WritesAreSchedulable ==
  \A w \in Worker : \A i \in DOMAIN writes[w] : Schedulable(writes[w][i])

CronInv == RowsAreSchedulable /\ OperationsAreSchedulable /\ WritesAreSchedulable

-----------------------------------------------------------------------------
(* Type correctness.                                                       *)

\* The operations, by kind.
LEMMA OperationParts ==
  ASSUME NEW o \in StreamOp \cup HttpOp
  PROVE  /\ o # None
         /\ o.kind \in {"upsert", "delete", "delete app"}
         /\ o.kind = "upsert" => o.id \in Id /\ o.entry \in Entry
         /\ o.kind = "delete" => o.id \in Id
         /\ About(o) \subseteq Id
<1>1. o # None
  BY NoneAssumption
<1>2. QED
  BY <1>1, ScheduleAssumption DEF StreamOp, HttpOp, About

LEMMA NoWritesType == NoWrites \in Writes /\ DOMAIN NoWrites = {}
<1>1. NoWrites \in [{} -> OrNone(Entry)]
  BY DEF NoWrites
<1>2. QED
  BY <1>1 DEF Writes, NoWrites

\* What is pending of a transaction is rows to be.
LEMMA WritesParts ==
  ASSUME NEW x \in Writes
  PROVE  DOMAIN x \subseteq Id /\ \A i \in DOMAIN x : x[i] \in OrNone(Entry)
BY DEF Writes

LEMMA BeginType ==
  ASSUME ScheduleTypeOK, NEW w \in Worker, NEW o \in StreamOp \cup HttpOp, Begin(w, o), up,
         UNCHANGED << rows, jobs, up, selected, found, writes, failures >>,
         wpc[w] = "idle",
         IF w = Consumer THEN reading' \in ops'.pending ELSE UNCHANGED << ops, reading >>,
         ops' \in Stream(StreamOp), Len(ops'.log) <= MaxOps, requests' \in 0 .. MaxRequests
  PROVE  ScheduleTypeOK'
<1>1. op' \in [Worker -> OrNone(HttpOp \cup StreamOp)] /\ op'[w] # None
  BY OperationParts DEF Begin, ScheduleTypeOK, OrNone
<1>2. /\ wpc' = [wpc EXCEPT ![w] = IF o.kind = "delete app" THEN "select" ELSE "execute"]
      /\ wpc' \in [Worker -> Position]
  BY DEF Begin, ScheduleTypeOK, Position
<1>3. contested' \in [Worker -> SUBSET Id]
  <2> DEFINE shared(v) == About(op[v]) \cap About(o)
             mine == UNION { shared(v) : v \in Worker \ {w} }
  <2>1. \A v : shared(v) \in SUBSET Id
    BY OperationParts
  <2>2. mine \in SUBSET Id
    BY <2>1
  <2>3. \A v \in Worker : contested[v] \in SUBSET Id
    BY DEF ScheduleTypeOK
  <2>4. contested' = [v \in Worker |-> IF v = w THEN mine ELSE contested[v] \cup shared(v)]
    BY DEF Begin
  <2> HIDE DEF shared, mine
  <2>5. QED
    BY <2>1, <2>2, <2>3, <2>4
<1>4. promised' \in [Id -> OrNone(Entry) \cup {Unknown}]
  BY DEF Begin, ScheduleTypeOK
<1>5. \A v \in Worker :
        /\ op'[v] = None <=> wpc'[v] \in {"idle", "ack"}
        /\ wpc'[v] = "ack" => v = Consumer
        /\ found[v] # {} => wpc'[v] = "rows"
        /\ writes[v] # NoWrites => wpc'[v] = "rows"
  BY <1>1, <1>2 DEF Begin, ScheduleTypeOK
<1>6. IF wpc'[Consumer] = "idle" THEN reading' = 0 ELSE reading' \in ops'.pending
  BY <1>2 DEF ScheduleTypeOK, Worker
<1>7. QED
  BY <1>1, <1>2, <1>3, <1>4, <1>5, <1>6 DEF ScheduleTypeOK

LEMMA LeaveType ==
  ASSUME ScheduleTypeOK, NEW w \in Worker, NEW to \in {"idle", "ack"}, Leave(w, to),
         to = "ack" => w = Consumer /\ wpc[w] # "idle", up,
         UNCHANGED << ops, rows, up, requests >>,
         reading' = IF w = Consumer /\ to = "idle" THEN 0 ELSE reading,
         jobs' \in [Id -> OrNone(Entry)], failures' \in 0 .. MaxFailures,
         promised' \in [Id -> OrNone(Entry) \cup {Unknown}]
  PROVE  ScheduleTypeOK'
<1>1. /\ wpc' = [wpc EXCEPT ![w] = to]
      /\ wpc' \in [Worker -> Position]
  BY DEF Leave, ScheduleTypeOK, Position
<1>2. op' \in [Worker -> OrNone(HttpOp \cup StreamOp)]
  BY DEF Leave, ScheduleTypeOK, OrNone
<1>3. writes' \in [Worker -> Writes] /\ found' \in [Worker -> SUBSET Id]
  BY NoWritesType DEF Leave, ScheduleTypeOK
<1>4. selected' \in [Worker -> SUBSET Id] /\ contested' \in [Worker -> SUBSET Id]
  BY DEF Leave, ScheduleTypeOK
<1>5. \A v \in Worker :
        /\ op'[v] = None <=> wpc'[v] \in {"idle", "ack"}
        /\ wpc'[v] = "ack" => v = Consumer
        /\ found'[v] # {} => wpc'[v] = "rows"
        /\ writes'[v] # NoWrites => wpc'[v] = "rows"
  BY <1>1 DEF Leave, ScheduleTypeOK
<1>6. IF wpc'[Consumer] = "idle" THEN reading' = 0 ELSE reading' \in ops'.pending
  BY <1>1 DEF ScheduleTypeOK, Worker
<1>7. QED
  BY <1>1, <1>2, <1>3, <1>4, <1>5, <1>6 DEF ScheduleTypeOK

\* A worker that goes on to another await of its operation, or leaves "ack".
LEMMA GotoType ==
  ASSUME ScheduleTypeOK, NEW w \in Worker, NEW from, NEW to, WorkerGoto(w, from, to),
         \/ from \in {"select", "remove", "execute", "rows"}
            /\ to \in {"remove", "execute", "rows", "job"}
         \/ from = "ack" /\ to = "idle",
         UNCHANGED << op, up >>,
         \A v \in Worker : v # w => writes'[v] = writes[v] /\ found'[v] \subseteq found[v],
         to # "rows" => writes'[w] = NoWrites /\ found'[w] = {}
  PROVE  /\ wpc' \in [Worker -> Position]
         /\ w # Consumer => wpc'[Consumer] = wpc[Consumer]
         /\ wpc'[w] = to
         /\ \A v \in Worker :
              /\ op'[v] = None <=> wpc'[v] \in {"idle", "ack"}
              /\ wpc'[v] = "ack" => v = Consumer
              /\ ~up' => wpc'[v] = "idle"
              /\ found'[v] # {} => wpc'[v] = "rows"
              /\ writes'[v] # NoWrites => wpc'[v] = "rows"
<1>1. /\ wpc[w] = from /\ wpc' = [wpc EXCEPT ![w] = to]
      /\ wpc' \in [Worker -> Position]
  BY DEF WorkerGoto, ScheduleTypeOK, Position
<1>2. ASSUME NEW v \in Worker
      PROVE  /\ op'[v] = None <=> wpc'[v] \in {"idle", "ack"}
             /\ wpc'[v] = "ack" => v = Consumer
             /\ ~up' => wpc'[v] = "idle"
             /\ found'[v] # {} => wpc'[v] = "rows"
             /\ writes'[v] # NoWrites => wpc'[v] = "rows"
  <2>1. CASE v = w
    BY <1>1, <2>1 DEF ScheduleTypeOK
  <2>2. CASE v # w
    <3>1. wpc'[v] = wpc[v] /\ writes'[v] = writes[v] /\ found'[v] \subseteq found[v]
      BY <1>1, <2>2 DEF ScheduleTypeOK
    <3>2. QED
      BY <3>1 DEF ScheduleTypeOK
  <2> QED BY <2>1, <2>2
<1>3. QED
  BY <1>1, <1>2 DEF ScheduleTypeOK, Worker

LEMMA InitType == ScheduleInit => ScheduleTypeOK
<1> SUFFICES ASSUME ScheduleInit PROVE ScheduleTypeOK
  OBVIOUS
<1>1. rows \in [Id -> OrNone(Entry)]
  BY TableAssumption DEF ScheduleInit, OrNone
<1>2. promised \in [Id -> OrNone(Entry) \cup {Unknown}] /\ jobs \in [Id -> OrNone(Entry)]
  BY <1>1 DEF ScheduleInit
<1>3. ops \in Stream(StreamOp) /\ Len(ops.log) <= MaxOps
  BY ScheduleBoundAssumption DEF ScheduleInit, NewStream, Stream
<1>4. QED
  BY <1>1, <1>2, <1>3, NoWritesType, ScheduleBoundAssumption
  DEF ScheduleInit, ScheduleTypeOK, OrNone, Worker, Position

LEMMA TargetsType ==
  ASSUME NEW o \in StreamOp \cup HttpOp
  PROVE  Targets(o) \subseteq About(o) /\ Targets(o) \subseteq Id
BY OperationParts DEF Targets, About

\* What is to be written of a row joins what is written already.
LEMMA ChangeRowWrites ==
  ASSUME ScheduleTypeOK, NEW w \in Worker, wpc[w] = "rows", NEW i \in Id, ChangeRow(w, i)
  PROVE  /\ writes' \in [Worker -> Writes]
         /\ \A v \in Worker : v # w => writes'[v] = writes[v]
         /\ i \notin Targets(op[w]) => writes' = writes
         /\ i \in Targets(op[w]) =>
              /\ DOMAIN writes'[w] = DOMAIN writes[w] \cup {i}
              /\ writes'[w][i] = Result(op[w], rows[i])
              /\ \A j \in DOMAIN writes[w] : j # i => writes'[w][j] = writes[w][j]
<1>1. CASE i \notin Targets(op[w])
  BY <1>1 DEF ChangeRow, ScheduleTypeOK
<1>2. CASE i \in Targets(op[w])
  <2> DEFINE D == DOMAIN writes[w] \cup {i}
             W == [j \in D |-> IF j = i THEN Result(op[w], rows[i]) ELSE writes[w][j]]
  <2>1. writes \in [Worker -> Writes] /\ writes' = [writes EXCEPT ![w] = W]
    BY <1>2 DEF ChangeRow, ScheduleTypeOK
  <2>2. op[w] \in StreamOp \cup HttpOp
    BY DEF ScheduleTypeOK, OrNone
  <2>3. Result(op[w], rows[i]) \in OrNone(Entry)
    BY <2>2, OperationParts DEF Result, ScheduleTypeOK, OrNone
  <2>4. DOMAIN writes[w] \subseteq Id /\ \A j \in DOMAIN writes[w] : writes[w][j] \in OrNone(Entry)
    BY <2>1, WritesParts
  <2>5. D \in SUBSET Id /\ W \in [D -> OrNone(Entry)]
    BY <2>3, <2>4
  <2>6. W \in Writes
    BY <2>5 DEF Writes
  <2>7. DOMAIN W = D /\ W[i] = Result(op[w], rows[i]) /\ \A j \in D : j # i => W[j] = writes[w][j]
    OBVIOUS
  <2> HIDE DEF W
  <2>8. QED
    BY <1>2, <2>1, <2>6, <2>7
<1>3. QED
  BY <1>1, <1>2

\* A commit takes from others' statements only rows that it deletes.
LEMMA CommitFinds ==
  ASSUME ScheduleTypeOK, NEW w \in Worker, CommitSQL(w)
  PROVE  /\ found' \in [Worker -> SUBSET Id]
         /\ \A v \in Worker : found'[v] \subseteq found[v]
         /\ \A v \in Worker : \A i \in found[v] : i \notin DOMAIN writes[w] => i \in found'[v]
<1> DEFINE deleted == { i \in DOMAIN writes[w] : writes[w][i] = None }
<1>1. found' = [v \in Worker |-> IF found[v] = {} \/ op[v].kind = "upsert" THEN found[v]
                                ELSE found[v] \ deleted]
  BY DEF CommitSQL
<1>2. deleted \subseteq DOMAIN writes[w]
  OBVIOUS
<1> HIDE DEF deleted
<1>3. \A v \in Worker : found[v] \subseteq Id
  BY DEF ScheduleTypeOK
<1>4. QED
  BY <1>1, <1>2, <1>3

LEMMA NextType == ScheduleTypeOK /\ [ScheduleNext]_schedVars => ScheduleTypeOK'
<1> SUFFICES ASSUME ScheduleTypeOK, [ScheduleNext]_schedVars
             PROVE  ScheduleTypeOK'
  OBVIOUS
<1>1. ASSUME NEW o \in StreamOp, SendOp(o)
      PROVE  ScheduleTypeOK'
  <2>1. ops' \in Stream(StreamOp) /\ Len(ops'.log) <= MaxOps /\ ops'.pending = ops.pending
    <3>1. /\ XADD(ops, o) \in Stream(StreamOp)
          /\ XADD(ops, o).log = Append(ops.log, o)
          /\ XADD(ops, o).pending = ops.pending
      BY XADDStream DEF ScheduleTypeOK
    <3>2. Len(Append(ops.log, o)) = Len(ops.log) + 1 /\ Len(ops.log) \in Nat
      BY StreamParts, AppendProperties DEF ScheduleTypeOK
    <3>3. QED
      BY <1>1, <3>1, <3>2, ScheduleBoundAssumption DEF SendOp
  <2>2. QED
    BY <1>1, <2>1 DEF SendOp, ScheduleTypeOK
<1>2. ASSUME NEW h \in Handler, NEW o \in HttpOp, ReceiveRequest(h, o)
      PROVE  ScheduleTypeOK'
  <2>1. h \in Worker /\ h # Consumer
    BY ScheduleAssumption DEF Worker
  <2>2. requests' \in 0 .. MaxRequests
    BY <1>2, ScheduleBoundAssumption DEF ReceiveRequest, Handler
  <2>3. QED
    BY <1>2, <2>1, <2>2, BeginType DEF ReceiveRequest, ScheduleTypeOK
<1>3. CASE ReadOp
  <2>1. /\ ops' \in Stream(StreamOp) /\ ops'.log = ops.log
        /\ reading' \in ops'.pending
        /\ ops.log[NextId(ops)] \in StreamOp
    BY <1>3, XREADGROUPStream DEF ReadOp, ScheduleTypeOK
  <2>2. Consumer \in Worker
    BY DEF Worker
  <2>3. CASE Discards(ops.log[NextId(ops)])
    BY <1>3, <2>1, <2>2, <2>3, ZenonT(60) DEF ReadOp, ScheduleTypeOK, Position
  <2>4. CASE ~Discards(ops.log[NextId(ops)])
    <3>1. Begin(Consumer, ops.log[NextId(ops)])
      BY <1>3, <2>4 DEF ReadOp
    <3>2. QED
      BY <1>3, <2>1, <2>2, <3>1, BeginType DEF ReadOp, ScheduleTypeOK
  <2>5. QED
    BY <2>3, <2>4
<1>4. CASE AckOp
  <2>1. ops' \in Stream(StreamOp) /\ ops'.log = ops.log
    BY <1>4, XACKStream DEF AckOp, ScheduleTypeOK
  <2>2. Consumer \in Worker
    BY DEF Worker
  <2>3. WorkerGoto(Consumer, "ack", "idle") /\ UNCHANGED << op, up, found, writes >> /\ reading' = 0
    BY <1>4 DEF AckOp
  <2>4. \A v \in Worker : writes'[v] # NoWrites \/ found'[v] # {} => wpc[v] = "rows"
    BY <2>3 DEF ScheduleTypeOK
  <2>5. writes'[Consumer] = NoWrites /\ found'[Consumer] = {}
    BY <2>2, <2>3, <2>4 DEF WorkerGoto
  <2>6. QED
    BY <1>4, <2>1, <2>2, <2>3, <2>5, GotoType, ZenonT(60) DEF AckOp, ScheduleTypeOK
<1>5. CASE AckOpFails
  <2>1. failures' \in 0 .. MaxFailures
    BY <1>5, ScheduleBoundAssumption DEF AckOpFails, CountScheduleFailure, ScheduleTypeOK
  <2>2. Consumer \in Worker
    BY DEF Worker
  <2>3. WorkerGoto(Consumer, "ack", "idle") /\ UNCHANGED << op, up, found, writes >> /\ reading' = 0
    BY <1>5 DEF AckOpFails
  <2>4. \A v \in Worker : writes'[v] # NoWrites \/ found'[v] # {} => wpc[v] = "rows"
    BY <2>3 DEF ScheduleTypeOK
  <2>5. writes'[Consumer] = NoWrites /\ found'[Consumer] = {}
    BY <2>2, <2>3, <2>4 DEF WorkerGoto
  <2>6. QED
    BY <1>5, <2>1, <2>2, <2>3, <2>5, GotoType DEF AckOpFails, ScheduleTypeOK
<1>6. ASSUME NEW w \in Worker, SelectIds(w)
      PROVE  ScheduleTypeOK'
  <2>1. /\ WorkerGoto(w, "select", "remove")
        /\ UNCHANGED << ops, rows, jobs, up, op, reading, found, writes, requests, failures,
                        contested, promised >>
    BY <1>6 DEF SelectIds
  <2>2. writes'[w] = NoWrites /\ found'[w] = {}
    BY <2>1 DEF WorkerGoto, ScheduleTypeOK
  <2>3. wpc[Consumer] # "idle" <=> wpc'[Consumer] # "idle"
    BY <2>1 DEF WorkerGoto, ScheduleTypeOK, Worker
  <2>4. selected' \in [Worker -> SUBSET Id]
    BY <1>6 DEF SelectIds, ScheduleTypeOK
  <2>5. QED
    BY <2>1, <2>2, <2>3, <2>4, GotoType DEF ScheduleTypeOK
<1>7. ASSUME NEW w \in Worker, RemoveJobs(w)
      PROVE  ScheduleTypeOK'
  <2>1. /\ WorkerGoto(w, "remove", "execute")
        /\ UNCHANGED << ops, rows, up, op, reading, selected, found, writes, requests, failures,
                        contested, promised >>
    BY <1>7 DEF RemoveJobs
  <2>2. writes'[w] = NoWrites /\ found'[w] = {}
    BY <2>1 DEF WorkerGoto, ScheduleTypeOK
  <2>3. wpc[Consumer] # "idle" <=> wpc'[Consumer] # "idle"
    BY <2>1 DEF WorkerGoto, ScheduleTypeOK, Worker
  <2>4. jobs' \in [Id -> OrNone(Entry)]
    BY <1>7 DEF RemoveJobs, ScheduleTypeOK, OrNone
  <2>5. QED
    BY <2>1, <2>2, <2>3, <2>4, GotoType DEF ScheduleTypeOK
<1>8. ASSUME NEW w \in Worker, ExecuteSQL(w)
      PROVE  ScheduleTypeOK'
  <2>1. op[w] \in StreamOp \cup HttpOp
    BY <1>8 DEF ExecuteSQL, WorkerGoto, ScheduleTypeOK, OrNone
  <2>2. found' = [found EXCEPT ![w] = Targets(op[w])] /\ found \in [Worker -> SUBSET Id]
    BY <1>8 DEF ExecuteSQL, ScheduleTypeOK
  <2>3. found' \in [Worker -> SUBSET Id] /\ \A v \in Worker : v # w => found'[v] = found[v]
    BY <2>1, <2>2, TargetsType
  <2>4. /\ WorkerGoto(w, "execute", "rows")
        /\ UNCHANGED << ops, rows, jobs, up, op, reading, selected, writes, requests, failures,
                        contested, promised >>
    BY <1>8 DEF ExecuteSQL
  <2>5. wpc[Consumer] # "idle" <=> wpc'[Consumer] # "idle"
    BY <2>4 DEF WorkerGoto, ScheduleTypeOK, Worker
  <2>6. QED
    BY <2>3, <2>4, <2>5, GotoType DEF ScheduleTypeOK
<1>9. ASSUME NEW w \in Worker, CommitSQL(w)
      PROVE  ScheduleTypeOK'
  <2>1. rows' \in [Id -> OrNone(Entry)]
    BY <1>9, WritesParts DEF CommitSQL, ScheduleTypeOK
  <2>2. writes' \in [Worker -> Writes]
    BY <1>9, NoWritesType DEF CommitSQL, ScheduleTypeOK
  <2>3. /\ WorkerGoto(w, "rows", "job") /\ found[w] = {}
        /\ UNCHANGED << ops, jobs, up, op, reading, selected, requests, failures, contested,
                        promised >>
    BY <1>9 DEF CommitSQL
  <2>4. writes'[w] = NoWrites /\ \A v \in Worker : v # w => writes'[v] = writes[v]
    BY <1>9 DEF CommitSQL, ScheduleTypeOK
  <2>5. found' \in [Worker -> SUBSET Id] /\ \A v \in Worker : found'[v] \subseteq found[v]
    BY <1>9, CommitFinds
  <2>6. wpc[Consumer] # "idle" <=> wpc'[Consumer] # "idle"
    BY <2>3 DEF WorkerGoto, ScheduleTypeOK, Worker
  <2>7. found'[w] = {}
    BY <2>3, <2>5
  <2>8. QED
    BY <2>1, <2>2, <2>3, <2>4, <2>5, <2>6, <2>7, GotoType DEF ScheduleTypeOK
<1>16. ASSUME NEW w \in Worker, NEW i \in Id, ChangeRow(w, i)
       PROVE  ScheduleTypeOK'
  <2>1. /\ i \in found[w] /\ found' = [found EXCEPT ![w] = @ \ {i}]
        /\ UNCHANGED << ops, rows, jobs, up, wpc, op, reading, selected, requests, failures,
                        contested, promised >>
    BY <1>16 DEF ChangeRow
  <2>2. wpc[w] = "rows"
    BY <2>1 DEF ScheduleTypeOK
  <2>3. writes' \in [Worker -> Writes] /\ \A v \in Worker : v # w => writes'[v] = writes[v]
    BY <1>16, <2>2, ChangeRowWrites
  <2>4. found' \in [Worker -> SUBSET Id] /\ \A v \in Worker : found'[v] \subseteq found[v]
    BY <2>1 DEF ScheduleTypeOK
  <2>5. \A v \in Worker : /\ found'[v] # {} => wpc[v] = "rows"
                         /\ writes'[v] # NoWrites => wpc[v] = "rows"
    BY <2>2, <2>3, <2>4 DEF ScheduleTypeOK
  <2>6. QED
    BY <2>1, <2>3, <2>4, <2>5 DEF ScheduleTypeOK
<1>10. ASSUME NEW w \in Worker, Complete(w)
       PROVE  ScheduleTypeOK'
  <2>1. op[w] \in StreamOp \cup HttpOp
    BY <1>10 DEF Complete, ScheduleTypeOK, OrNone
  <2>2. JobOf(op[w]) \in OrNone(Entry)
    BY <2>1, OperationParts DEF JobOf, OrNone
  <2>3. jobs' \in [Id -> OrNone(Entry)]
    BY <1>10, <2>2 DEF Complete, ScheduleTypeOK
  <2>4. promised' \in [Id -> OrNone(Entry) \cup {Unknown}]
    BY <1>10, <2>1, OperationParts DEF Complete, Result, ScheduleTypeOK, OrNone
  <2>5. up
    BY <1>10 DEF Complete, ScheduleTypeOK
  <2>6. QED
    BY <1>10, <2>3, <2>4, <2>5, LeaveType DEF Complete, ScheduleTypeOK
<1>11. ASSUME NEW w \in Worker, OperationFails(w) \/ BreakDeadlock(w)
       PROVE  ScheduleTypeOK'
  <2>1. failures' \in 0 .. MaxFailures
    BY <1>11, ScheduleBoundAssumption
    DEF OperationFails, BreakDeadlock, CountScheduleFailure, ScheduleTypeOK
  <2>2. Raises(w)
    BY <1>11 DEF OperationFails, BreakDeadlock
  <2>3. promised' \in [Id -> OrNone(Entry) \cup {Unknown}] /\ up
    BY <2>2 DEF Raises, ScheduleTypeOK
  <2>4. QED
    BY <2>1, <2>2, <2>3, LeaveType DEF Raises, ScheduleTypeOK
<1>12. CASE CrashController
  <2>1. /\ wpc' = [w \in Worker |-> "idle"] /\ op' = [w \in Worker |-> None]
        /\ writes' = [w \in Worker |-> NoWrites] /\ reading' = 0 /\ up' = FALSE
        /\ found' = [w \in Worker |-> {}]
        /\ selected' = [w \in Worker |-> {}] /\ contested' = [w \in Worker |-> {}]
        /\ jobs' = [i \in Id |-> None]
        /\ UNCHANGED << ops, rows, requests >>
    BY <1>12 DEF CrashController
  <2>2. failures' \in 0 .. MaxFailures
    BY <1>12, ScheduleBoundAssumption DEF CrashController, CountScheduleFailure, ScheduleTypeOK
  <2>3. promised' \in [Id -> OrNone(Entry) \cup {Unknown}]
    BY <1>12 DEF CrashController, ScheduleTypeOK
  <2>4. writes' \in [Worker -> Writes] /\ op' \in [Worker -> OrNone(HttpOp \cup StreamOp)]
    BY <2>1, NoWritesType DEF OrNone
  <2>5. Consumer \in Worker
    BY DEF Worker
  <2>6. QED
    BY <2>1, <2>2, <2>3, <2>4, <2>5 DEF ScheduleTypeOK, OrNone, Position
<1>13. CASE StartController
  BY <1>13 DEF StartController, ScheduleTypeOK
<1>14. CASE UNCHANGED schedVars
  BY <1>14 DEF schedVars, ScheduleTypeOK
<1>15. QED
  BY <1>1, <1>2, <1>3, <1>4, <1>5, <1>6, <1>7, <1>8, <1>9, <1>10, <1>11, <1>12, <1>13, <1>14,
     <1>16
  DEF ScheduleNext, WorkerStep

\* The types of Schedules hold; in particular the consumer never works on an entry
\* it has acknowledged, and no transaction is open but while its statement is at its rows.
THEOREM SchedulesTypeCorrect == ScheduleSpec => []ScheduleTypeOK
BY InitType, NextType, PTL DEF ScheduleSpec

-----------------------------------------------------------------------------
(* Every row can be scheduled, when those of POST /schedules can.          *)

\* What a statement writes can be scheduled if its operation and the row can.
LEMMA ResultIsSchedulable ==
  ASSUME NEW o \in StreamOp \cup HttpOp, NEW e, Schedulable(e),
         o.kind = "upsert" => Schedulable(o.entry)
  PROVE  Schedulable(Result(o, e))
BY DEF Result, Schedulable

LEMMA BeginKeeps ==
  ASSUME ScheduleTypeOK, CronInv, NEW w \in Worker, NEW o \in StreamOp \cup HttpOp, Begin(w, o),
         o.kind = "upsert" => Schedulable(o.entry), UNCHANGED << rows, writes >>
  PROVE  CronInv'
<1>1. RowsAreSchedulable' /\ WritesAreSchedulable'
  BY DEF CronInv, RowsAreSchedulable, WritesAreSchedulable, Schedulable
<1>2. op' = [op EXCEPT ![w] = o] /\ op \in [Worker -> OrNone(HttpOp \cup StreamOp)]
  BY DEF Begin, ScheduleTypeOK
<1>3. OperationsAreSchedulable'
  BY <1>2 DEF CronInv, OperationsAreSchedulable, Schedulable
<1>4. QED
  BY <1>1, <1>3 DEF CronInv

LEMMA LeaveKeeps ==
  ASSUME ScheduleTypeOK, CronInv, NEW w \in Worker, NEW to, Leave(w, to), UNCHANGED rows
  PROVE  CronInv'
<1>1. RowsAreSchedulable'
  BY DEF CronInv, RowsAreSchedulable
<1>2. op' = [op EXCEPT ![w] = None] /\ op \in [Worker -> OrNone(HttpOp \cup StreamOp)]
  BY DEF Leave, ScheduleTypeOK
<1>3. OperationsAreSchedulable'
  BY <1>2 DEF CronInv, OperationsAreSchedulable, Schedulable
<1>4. writes' = [writes EXCEPT ![w] = NoWrites] /\ writes \in [Worker -> Writes]
  BY DEF Leave, ScheduleTypeOK
<1>5. WritesAreSchedulable'
  BY <1>4, NoWritesType DEF CronInv, WritesAreSchedulable, Schedulable
<1>6. QED
  BY <1>1, <1>3, <1>5 DEF CronInv

LEMMA TableIsSchedulable ==
  ASSUME ScheduleInit, NEW i \in Id
  PROVE  rows[i] # None => rows[i].cron \in ValidCron
<1>1. rows \in [Id -> OrNone({ e \in Entry : e.cron \in ValidCron })]
  BY TableAssumption DEF ScheduleInit
<1>2. QED
  BY <1>1 DEF OrNone

LEMMA CronInvInit == ScheduleInit => CronInv
BY NoWritesType, TableIsSchedulable
   DEF ScheduleInit, CronInv, RowsAreSchedulable, OperationsAreSchedulable,
       WritesAreSchedulable

LEMMA CronInvNext ==
  ASSUME \A e \in HttpEntry : e.cron \in ValidCron
  PROVE  ScheduleTypeOK /\ CronInv /\ [ScheduleNext]_schedVars => CronInv'
<1> SUFFICES ASSUME ScheduleTypeOK, CronInv, [ScheduleNext]_schedVars
             PROVE  CronInv'
  OBVIOUS
\* A step that changes neither rows, operations nor writes.
<1>0. ASSUME UNCHANGED << rows, op, writes >>
      PROVE  CronInv'
  BY <1>0 DEF CronInv, RowsAreSchedulable, OperationsAreSchedulable, WritesAreSchedulable,
     Schedulable
<1>1. ASSUME NEW o \in StreamOp, SendOp(o)
      PROVE  CronInv'
  BY <1>0, <1>1 DEF SendOp
<1>2. ASSUME NEW h \in Handler, NEW o \in HttpOp, ReceiveRequest(h, o)
      PROVE  CronInv'
  <2>1. o.kind = "upsert" => Schedulable(o.entry)
    BY DEF HttpOp, Schedulable
  <2>2. QED
    BY <1>2, <2>1, BeginKeeps DEF ReceiveRequest, Worker
<1>3. CASE ReadOp
  <2>1. ops.log[NextId(ops)] \in StreamOp
    BY <1>3, XREADGROUPStream DEF ReadOp, ScheduleTypeOK
  <2>2. CASE Discards(ops.log[NextId(ops)])
    BY <1>0, <1>3, <2>2 DEF ReadOp
  <2>3. CASE ~Discards(ops.log[NextId(ops)])
    BY <1>3, <2>1, <2>3, BeginKeeps DEF ReadOp, Discards, Schedulable, Worker
  <2>4. QED
    BY <2>2, <2>3
<1>4. CASE AckOp
  BY <1>0, <1>4 DEF AckOp
<1>5. CASE AckOpFails
  BY <1>0, <1>5 DEF AckOpFails
<1>6. ASSUME NEW w \in Worker, SelectIds(w)
      PROVE  CronInv'
  BY <1>0, <1>6 DEF SelectIds
<1>7. ASSUME NEW w \in Worker, RemoveJobs(w)
      PROVE  CronInv'
  BY <1>0, <1>7 DEF RemoveJobs
<1>8. ASSUME NEW w \in Worker, NEW i \in Id, ChangeRow(w, i)
      PROVE  CronInv'
  <2>1. i \in found[w] /\ UNCHANGED << rows, op >>
    BY <1>8 DEF ChangeRow
  <2>2. wpc[w] = "rows"
    BY <2>1 DEF ScheduleTypeOK
  <2>3. op[w] \in StreamOp \cup HttpOp
    BY <2>2 DEF ScheduleTypeOK, OrNone
  <2>4. Schedulable(Result(op[w], rows[i]))
    <3>1. op[w].kind = "upsert" => Schedulable(op[w].entry)
      BY <2>3, OperationParts DEF CronInv, OperationsAreSchedulable
    <3>2. Schedulable(rows[i])
      BY DEF CronInv, RowsAreSchedulable, Schedulable
    <3>3. QED
      BY <2>3, <3>1, <3>2, ResultIsSchedulable
  <2>5. WritesAreSchedulable'
    <3>1. ASSUME NEW v \in Worker, NEW j \in DOMAIN writes'[v]
          PROVE  Schedulable(writes'[v][j])
      <4>1. CASE v # w \/ i \notin Targets(op[w])
        BY <1>8, <2>2, <3>1, <4>1, ChangeRowWrites DEF CronInv, WritesAreSchedulable
      <4>2. CASE v = w /\ i \in Targets(op[w])
        <5>1. j = i \/ (j # i /\ j \in DOMAIN writes[w])
          BY <1>8, <2>2, <3>1, <4>2, ChangeRowWrites
        <5>2. writes'[w][j] = IF j = i THEN Result(op[w], rows[i]) ELSE writes[w][j]
          BY <1>8, <2>2, <4>2, <5>1, ChangeRowWrites
        <5>3. QED
          BY <2>4, <4>2, <5>1, <5>2 DEF CronInv, WritesAreSchedulable
      <4> QED BY <4>1, <4>2
    <3>2. QED
      BY <3>1 DEF WritesAreSchedulable, Schedulable
  <2>6. QED
    BY <2>1, <2>5 DEF CronInv, RowsAreSchedulable, OperationsAreSchedulable, Schedulable
<1>16. ASSUME NEW w \in Worker, ExecuteSQL(w)
       PROVE  CronInv'
  BY <1>0, <1>16 DEF ExecuteSQL
<1>9. ASSUME NEW w \in Worker, CommitSQL(w)
      PROVE  CronInv'
  <2>1. RowsAreSchedulable'
    BY <1>9 DEF CommitSQL, CronInv, RowsAreSchedulable, WritesAreSchedulable, Schedulable
  <2>2. WritesAreSchedulable'
    BY <1>9, NoWritesType
    DEF CommitSQL, CronInv, WritesAreSchedulable, Schedulable, ScheduleTypeOK
  <2>3. QED
    BY <1>9, <2>1, <2>2 DEF CommitSQL, CronInv, OperationsAreSchedulable, Schedulable
<1>10. ASSUME NEW w \in Worker, Complete(w)
       PROVE  CronInv'
  BY <1>10, LeaveKeeps DEF Complete
<1>11. ASSUME NEW w \in Worker, OperationFails(w) \/ BreakDeadlock(w)
       PROVE  CronInv'
  BY <1>11, LeaveKeeps DEF OperationFails, BreakDeadlock, Raises
<1>12. CASE CrashController
  BY <1>12, NoWritesType
  DEF CrashController, CronInv, RowsAreSchedulable, OperationsAreSchedulable,
      WritesAreSchedulable
<1>13. CASE StartController
  BY <1>0, <1>13 DEF StartController
<1>14. CASE UNCHANGED schedVars
  BY <1>0, <1>14 DEF schedVars
<1>15. QED
  BY <1>1, <1>2, <1>3, <1>4, <1>5, <1>6, <1>7, <1>8, <1>9, <1>10, <1>11, <1>12, <1>13, <1>14,
     <1>16
  DEF ScheduleNext, WorkerStep

\* What the consumer's validation is there for: if POST /schedules were only called
\* with cron expressions the trigger accepts, no row could keep the controller from
\* starting, whatever is put on the stream and whatever fails.
THEOREM RowsStaySchedulable ==
  ASSUME \A e \in HttpEntry : e.cron \in ValidCron
  PROVE  ScheduleSpec => []RowsAreSchedulable
<1>1. ScheduleInit => CronInv
  BY CronInvInit
<1>2. ScheduleTypeOK /\ CronInv /\ [ScheduleNext]_schedVars => CronInv'
  BY CronInvNext
<1>3. CronInv => RowsAreSchedulable
  BY DEF CronInv
<1>4. QED
  BY <1>1, <1>2, <1>3, SchedulesTypeCorrect, PTL DEF ScheduleSpec

-----------------------------------------------------------------------------
(* What has been said of a schedule holds of its row and its job.          *)

\* The job that fires an entry: none for a cron expression the trigger refuses.
Fired(e) == IF e # None /\ e.cron \notin ValidCron THEN None ELSE e

\* RowsAndJobsAgree without its condition on what POST /schedules is called with.
RowsAndJobsFollow ==
  up => \A i \in Id :
    ~InProgress(i) /\ promised[i] # Unknown =>
      rows[i] = promised[i] /\ jobs[i] = Fired(promised[i])

\* RowsAndJobsFollow says nothing while an operation is in progress.  Alone says how far the
\* row and the job are then, when no other operation is on the schedule: a statement has
\* prepared the row and a commit made it, delete_app_schedules has removed the job before.
AtRest(i) ==
  promised[i] # Unknown => rows[i] = promised[i] /\ (up => jobs[i] = Fired(promised[i]))

RowAt(w, i) == IF wpc[w] = "job" THEN Result(op[w], promised[i]) ELSE promised[i]

JobAt(w, i) ==
  Fired(IF op[w].kind = "delete app" /\ wpc[w] \in {"execute", "rows", "job"}
        THEN Result(op[w], promised[i]) ELSE promised[i])

Alone(w, i) ==
  /\ promised[i] # Unknown => rows[i] = RowAt(w, i) /\ jobs[i] = JobAt(w, i)
  /\ wpc[w] = "job" /\ op[w].kind # "delete app" => rows[i] = RowAt(w, i)
  /\ wpc[w] = "remove" => (i \in selected[w] <=> HasApp(rows[i], op[w].app))
  /\ wpc[w] = "rows" /\ i \notin found[w] =>
       Result(op[w], rows[i]) = IF i \in DOMAIN writes[w] THEN writes[w][i] ELSE rows[i]

\* Operations on one schedule that overlap know of each other, and nothing is promised of it.
AgreeInv ==
  /\ \A i \in Id : ~InProgress(i) => AtRest(i)
  /\ \A w \in Worker : \A i \in About(op[w]) :
       IF i \in contested[w] THEN promised[i] = Unknown ELSE Alone(w, i)
  /\ \A w \in Worker : \A v \in Worker \ {w} : \A i \in About(op[w]) \cap About(op[v]) :
       i \in contested[w]
  /\ \A w \in Worker :
       /\ wpc[w] \in {"select", "remove"} => op[w].kind = "delete app"
       /\ DOMAIN writes[w] \subseteq About(op[w]) /\ found[w] \cap DOMAIN writes[w] = {}

\* What an operation is about and its statement does not look for is left as it is.
LEMMA NotATarget ==
  ASSUME NEW o \in StreamOp \cup HttpOp, NEW i \in About(o), i \notin Targets(o)
  PROVE  Result(o, rows[i]) = rows[i]
BY OperationParts DEF About, Targets, Result

LEMMA AboutParts ==
  /\ About(None) = {}
  /\ \A o \in StreamOp \cup HttpOp :
       /\ o # None /\ About(o) \subseteq Id
       /\ o.kind = "delete app" => About(o) = Id
       /\ o.kind # "delete app" => About(o) = {o.id}
BY OperationParts DEF About

\* Nothing is found or changed by a transaction of w.
Untouched(w) == writes[w] = NoWrites /\ found[w] = {}

\* What a worker's place says of its operation.
LEMMA WorkerParts ==
  ASSUME ScheduleTypeOK, NEW w \in Worker
  PROVE  /\ op[w] = None \/ op[w] \in StreamOp \cup HttpOp
         /\ op[w] # None => up
         /\ About(op[w]) \subseteq Id
         /\ wpc[w] \in {"idle", "ack"} => op[w] = None /\ About(op[w]) = {} /\ Untouched(w)
         /\ wpc[w] \in {"select", "remove", "execute", "rows", "job"} =>
              op[w] \in StreamOp \cup HttpOp
<1>1. op[w] = None \/ op[w] \in StreamOp \cup HttpOp
  BY DEF ScheduleTypeOK, OrNone
<1>2. wpc[w] \in {"idle", "select", "remove", "execute", "rows", "job", "ack"}
  BY DEF ScheduleTypeOK, Position
<1>3. (op[w] = None <=> wpc[w] \in {"idle", "ack"}) /\ (~up => wpc[w] = "idle")
  BY DEF ScheduleTypeOK
<1>4. (writes[w] # NoWrites => wpc[w] = "rows") /\ (found[w] # {} => wpc[w] = "rows")
  BY DEF ScheduleTypeOK
<1>5. About(op[w]) \subseteq Id
  BY <1>1, AboutParts
<1>6. wpc[w] \in {"idle", "ack"} => op[w] = None /\ About(op[w]) = {} /\ Untouched(w)
  BY <1>3, <1>4, AboutParts DEF Untouched
<1>7. QED
  BY <1>1, <1>2, <1>3, <1>5, <1>6

LEMMA AgreeInit == ScheduleInit => AgreeInv
<1> SUFFICES ASSUME ScheduleInit PROVE AgreeInv
  OBVIOUS
<1>1. \A w \in Worker :
        /\ op[w] = None /\ About(op[w]) = {} /\ wpc[w] = "idle"
        /\ DOMAIN writes[w] = {} /\ found[w] = {}
  BY AboutParts, NoWritesType DEF ScheduleInit
<1>2. \A i \in Id : AtRest(i)
  BY TableIsSchedulable DEF ScheduleInit, AtRest, Fired
<1>3. QED
  BY <1>1, <1>2 DEF AgreeInv

\* What an operation that met no other is about, no other worker is at.
LEMMA Apart ==
  ASSUME AgreeInv, NEW w \in Worker, NEW v \in Worker, v # w, NEW i \in About(op[v]),
         i \notin contested[v]
  PROVE  i \notin About(op[w]) /\ Alone(v, i)
BY DEF AgreeInv

\* A step of one worker that changes no other's schedules.
LEMMA AgreeStep ==
  ASSUME ScheduleTypeOK, AgreeInv, NEW w \in Worker,
         UNCHANGED << op, contested, promised, up >>,
         \A v \in Worker : v # w =>
           /\ wpc'[v] = wpc[v] /\ writes'[v] = writes[v] /\ selected'[v] = selected[v]
           /\ found'[v] \subseteq found[v]
           /\ \A i \in found[v] : i \notin About(op[w]) => i \in found'[v],
         \A i \in Id : i \notin About(op[w]) => rows'[i] = rows[i] /\ jobs'[i] = jobs[i],
         \A i \in About(op[w]) : i \notin contested[w] => Alone(w, i)',
         wpc'[w] \in {"select", "remove"} => op[w].kind = "delete app",
         DOMAIN writes'[w] \subseteq About(op[w]), found'[w] \cap DOMAIN writes'[w] = {}
  PROVE  AgreeInv'
<1>1. \A i \in Id : ~InProgress(i)' => AtRest(i)'
  BY DEF AgreeInv, InProgress, AtRest
<1>2. ASSUME NEW v \in Worker, NEW i \in About(op[v]), i \notin contested[v]
      PROVE  Alone(v, i)'
  <2>1. CASE v = w
    BY <1>2, <2>1
  <2>2. CASE v # w
    <3>1. i \notin About(op[w]) /\ Alone(v, i) /\ i \in Id
      BY <1>2, <2>2, Apart, WorkerParts
    <3>2. /\ wpc'[v] = wpc[v] /\ writes'[v] = writes[v] /\ selected'[v] = selected[v]
          /\ rows'[i] = rows[i] /\ jobs'[i] = jobs[i] /\ op' = op /\ promised' = promised
          /\ i \notin found'[v] => i \notin found[v]
      BY <2>2, <3>1
    <3>3. RowAt(v, i)' = RowAt(v, i) /\ JobAt(v, i)' = JobAt(v, i)
      BY <3>2 DEF RowAt, JobAt
    <3>4. HasApp(rows[i], op[v].app)' = HasApp(rows[i], op[v].app)
      BY <3>2 DEF HasApp
    <3>5. Result(op[v], rows[i])' = Result(op[v], rows[i])
      BY <3>2
    <3>6. QED
      BY <3>1, <3>2, <3>3, <3>4, <3>5 DEF Alone
  <2> QED BY <2>1, <2>2
<1>3. \A v \in Worker : \A i \in About(op'[v]) :
        IF i \in contested'[v] THEN promised'[i] = Unknown ELSE Alone(v, i)'
  BY <1>2 DEF AgreeInv
<1>4. \A v \in Worker :
        /\ wpc'[v] \in {"select", "remove"} => op'[v].kind = "delete app"
        /\ DOMAIN writes'[v] \subseteq About(op'[v]) /\ found'[v] \cap DOMAIN writes'[v] = {}
  <2>1. ASSUME NEW v \in Worker
        PROVE  /\ wpc'[v] \in {"select", "remove"} => op'[v].kind = "delete app"
               /\ DOMAIN writes'[v] \subseteq About(op'[v])
               /\ found'[v] \cap DOMAIN writes'[v] = {}
    <3>1. CASE v = w
      BY <3>1
    <3>2. CASE v # w
      <4>1. wpc'[v] = wpc[v] /\ writes'[v] = writes[v] /\ found'[v] \subseteq found[v]
        BY <3>2
      <4>2. QED
        BY <4>1 DEF AgreeInv
    <3> QED BY <3>1, <3>2
  <2> QED BY <2>1
<1>5. \A v \in Worker : \A u \in Worker \ {v} : \A i \in About(op'[v]) \cap About(op'[u]) :
        i \in contested'[v]
  BY DEF AgreeInv
<1>6. QED
  BY <1>1, <1>3, <1>4, <1>5 DEF AgreeInv

LEMMA AgreeSelect ==
  ASSUME ScheduleTypeOK, AgreeInv, NEW w \in Worker, SelectIds(w)
  PROVE  AgreeInv'
<1>1. /\ wpc[w] = "select" /\ wpc' = [wpc EXCEPT ![w] = "remove"]
      /\ selected' = [selected EXCEPT ![w] = { i \in Id : HasApp(rows[i], op[w].app) }]
      /\ UNCHANGED << rows, jobs, up, op, found, writes, contested, promised >>
  BY DEF SelectIds, WorkerGoto
<1>2. /\ wpc \in [Worker -> Position]
      /\ selected \in [Worker -> SUBSET Id]
  BY DEF ScheduleTypeOK, Position
<1>3. wpc'[w] = "remove" /\ selected'[w] = { i \in Id : HasApp(rows[i], op[w].app) }
  BY <1>1, <1>2
<1>4. ASSUME NEW i \in About(op[w]), i \notin contested[w]
      PROVE  Alone(w, i)'
  <2>1. Alone(w, i) /\ i \in Id
    BY <1>4, WorkerParts DEF AgreeInv
  <2>2. i \in selected'[w] <=> HasApp(rows[i], op[w].app)
    BY <1>3, <2>1
  <2>3. QED
    BY <1>1, <1>3, <2>1, <2>2 DEF Alone, RowAt, JobAt, HasApp
<1>5. /\ op[w].kind = "delete app" /\ DOMAIN writes'[w] \subseteq About(op[w])
      /\ found'[w] \cap DOMAIN writes'[w] = {}
  BY <1>1 DEF AgreeInv
<1>6. \A v \in Worker : v # w =>
        /\ wpc'[v] = wpc[v] /\ writes'[v] = writes[v] /\ selected'[v] = selected[v]
        /\ found'[v] = found[v]
  BY <1>1, <1>2
<1>7. QED
  BY <1>1, <1>4, <1>5, <1>6, AgreeStep

\* What is left of the other schedules, and what is not, is None.
LEMMA AgreeRemoveJobs ==
  ASSUME ScheduleTypeOK, AgreeInv, NEW w \in Worker, RemoveJobs(w)
  PROVE  AgreeInv'
<1>1. /\ wpc[w] = "remove" /\ wpc' = [wpc EXCEPT ![w] = "execute"]
      /\ jobs' = [i \in Id |-> IF i \in selected[w] THEN None ELSE jobs[i]]
      /\ UNCHANGED << rows, up, op, selected, found, writes, contested, promised >>
  BY DEF RemoveJobs, WorkerGoto
<1>2. wpc \in [Worker -> Position]
  BY DEF ScheduleTypeOK
<1>3. wpc'[w] = "execute" /\ \A v \in Worker : v # w => wpc'[v] = wpc[v]
  BY <1>1, <1>2
<1>4. /\ op[w].kind = "delete app" /\ DOMAIN writes'[w] \subseteq About(op[w])
      /\ found'[w] \cap DOMAIN writes'[w] = {}
  BY <1>1 DEF AgreeInv
<1>5. About(op[w]) = Id
  BY <1>1, <1>4, AboutParts, WorkerParts
<1>6. ASSUME NEW i \in About(op[w]), i \notin contested[w]
      PROVE  Alone(w, i)'
  <2>1. Alone(w, i) /\ i \in Id
    BY <1>5, <1>6 DEF AgreeInv
  <2>2. /\ i \in selected[w] <=> HasApp(rows[i], op[w].app)
        /\ promised[i] # Unknown => rows[i] = promised[i] /\ jobs[i] = Fired(promised[i])
    BY <1>1, <2>1 DEF Alone, RowAt, JobAt
  <2>3. promised[i] # Unknown => jobs'[i] = Fired(Result(op[w], promised[i]))
    BY <1>1, <1>4, <2>1, <2>2 DEF Result, Fired
  <2>4. QED
    BY <1>1, <1>3, <1>4, <2>2, <2>3 DEF Alone, RowAt, JobAt
<1>7. QED
  BY <1>1, <1>3, <1>4, <1>5, <1>6, AgreeStep

\* What a statement does not find it leaves as it is,
LEMMA AgreeExecute ==
  ASSUME ScheduleTypeOK, AgreeInv, NEW w \in Worker, ExecuteSQL(w)
  PROVE  AgreeInv'
<1>1. /\ wpc[w] = "execute" /\ wpc' = [wpc EXCEPT ![w] = "rows"]
      /\ found' = [found EXCEPT ![w] = Targets(op[w])]
      /\ UNCHANGED << rows, jobs, up, op, selected, writes, contested, promised >>
  BY DEF ExecuteSQL, WorkerGoto
<1>2. wpc \in [Worker -> Position] /\ found \in [Worker -> SUBSET Id]
  BY DEF ScheduleTypeOK
<1>3. /\ wpc'[w] = "rows" /\ found'[w] = Targets(op[w])
      /\ \A v \in Worker : v # w => wpc'[v] = wpc[v] /\ found'[v] = found[v]
  BY <1>1, <1>2
<1>4. op[w] \in StreamOp \cup HttpOp /\ writes[w] = NoWrites
  BY <1>1, WorkerParts DEF ScheduleTypeOK
<1>5. DOMAIN writes'[w] = {}
  BY <1>1, <1>4, NoWritesType
<1>6. ASSUME NEW i \in About(op[w]), i \notin contested[w]
      PROVE  Alone(w, i)'
  <2>1. Alone(w, i) /\ i \in Id
    BY <1>6, WorkerParts DEF AgreeInv
  <2>2. i \notin Targets(op[w]) => Result(op[w], rows[i]) = rows[i]
    BY <1>4, <1>6, NotATarget
  <2>3. i \notin found'[w] => Result(op'[w], rows'[i]) =
          IF i \in DOMAIN writes'[w] THEN writes'[w][i] ELSE rows'[i]
    BY <1>1, <1>3, <1>5, <2>2
  <2>4. QED
    BY <1>1, <1>3, <2>1, <2>3 DEF Alone, RowAt, JobAt
<1>7. QED
  BY <1>1, <1>3, <1>5, <1>6, AgreeStep

\* and what it finds it changes when it gets there.
LEMMA AgreeChangeRow ==
  ASSUME ScheduleTypeOK, AgreeInv, NEW w \in Worker, NEW j \in Id, ChangeRow(w, j)
  PROVE  AgreeInv'
<1>1. /\ j \in found[w] /\ found' = [found EXCEPT ![w] = @ \ {j}]
      /\ UNCHANGED << rows, jobs, up, wpc, op, selected, contested, promised >>
  BY DEF ChangeRow
<1>2. found \in [Worker -> SUBSET Id] /\ wpc[w] = "rows"
  BY <1>1 DEF ScheduleTypeOK
<1>3. found'[w] = found[w] \ {j} /\ \A v \in Worker : v # w => found'[v] = found[v]
  BY <1>1, <1>2
<1>4. op[w] \in StreamOp \cup HttpOp
  BY <1>2, WorkerParts
<1>5. /\ \A v \in Worker : v # w => writes'[v] = writes[v]
      /\ j \notin Targets(op[w]) => writes' = writes
      /\ j \in Targets(op[w]) =>
           /\ DOMAIN writes'[w] = DOMAIN writes[w] \cup {j}
           /\ writes'[w][j] = Result(op[w], rows[j])
           /\ \A i \in DOMAIN writes[w] : i # j => writes'[w][i] = writes[w][i]
  BY <1>2, ChangeRowWrites
<1>6. /\ j \notin DOMAIN writes[w] /\ DOMAIN writes[w] \subseteq About(op[w])
      /\ found[w] \cap DOMAIN writes[w] = {}
  BY <1>1 DEF AgreeInv
<1>7. ASSUME NEW i \in About(op[w]), i \notin contested[w]
      PROVE  Alone(w, i)'
  <2>1. Alone(w, i)
    BY <1>7 DEF AgreeInv
  <2>2. ASSUME i \notin found'[w]
        PROVE  Result(op[w], rows[i]) =
                 IF i \in DOMAIN writes'[w] THEN writes'[w][i] ELSE rows[i]
    <3>1. CASE i = j /\ j \in Targets(op[w])
      BY <1>5, <3>1
    <3>2. CASE i = j /\ j \notin Targets(op[w])
      <4>1. Result(op[w], rows[i]) = rows[i]
        BY <1>4, <1>7, <3>2, NotATarget
      <4>2. QED
        BY <1>5, <1>6, <3>2, <4>1
    <3>3. CASE i # j
      <4>1. i \notin found[w]
        BY <1>3, <2>2, <3>3
      <4>2. Result(op[w], rows[i]) = IF i \in DOMAIN writes[w] THEN writes[w][i] ELSE rows[i]
        BY <1>2, <2>1, <4>1 DEF Alone
      <4>3. /\ i \in DOMAIN writes'[w] <=> i \in DOMAIN writes[w]
            /\ i \in DOMAIN writes[w] => writes'[w][i] = writes[w][i]
        BY <1>5, <3>3
      <4>4. QED
        BY <4>2, <4>3
    <3> QED BY <3>1, <3>2, <3>3
  <2>3. i \notin found'[w] => Result(op'[w], rows'[i]) =
          IF i \in DOMAIN writes'[w] THEN writes'[w][i] ELSE rows'[i]
    BY <1>1, <2>2
  <2>4. wpc'[w] = "rows"
    BY <1>1, <1>2
  <2>5. QED
    BY <1>1, <1>2, <2>1, <2>3, <2>4 DEF Alone, RowAt, JobAt
<1>8. DOMAIN writes'[w] \subseteq About(op[w]) /\ found'[w] \cap DOMAIN writes'[w] = {}
  <2>1. CASE j \in Targets(op[w])
    <3>1. j \in About(op[w])
      BY <1>4, <2>1, TargetsType
    <3>2. DOMAIN writes'[w] = DOMAIN writes[w] \cup {j}
      BY <1>5, <2>1
    <3>3. QED
      BY <1>3, <1>6, <3>1, <3>2
  <2>2. CASE j \notin Targets(op[w])
    BY <1>3, <1>5, <1>6, <2>2
  <2> QED BY <2>1, <2>2
<1>9. QED
  BY <1>1, <1>2, <1>3, <1>5, <1>7, <1>8, AgreeStep

LEMMA AgreeCommit ==
  ASSUME ScheduleTypeOK, AgreeInv, NEW w \in Worker, CommitSQL(w)
  PROVE  AgreeInv'
<1>1. /\ wpc[w] = "rows" /\ wpc' = [wpc EXCEPT ![w] = "job"] /\ found[w] = {}
      /\ rows' = [i \in Id |-> IF i \in DOMAIN writes[w] THEN writes[w][i] ELSE rows[i]]
      /\ writes' = [writes EXCEPT ![w] = NoWrites]
      /\ UNCHANGED << jobs, up, op, selected, contested, promised >>
  BY DEF CommitSQL, WorkerGoto
<1>2. wpc \in [Worker -> Position] /\ writes \in [Worker -> Writes]
  BY DEF ScheduleTypeOK
<1>3. /\ wpc'[w] = "job" /\ writes'[w] = NoWrites
      /\ \A v \in Worker : v # w => wpc'[v] = wpc[v] /\ writes'[v] = writes[v]
  BY <1>1, <1>2
<1>4. DOMAIN writes[w] \subseteq About(op[w])
  BY DEF AgreeInv
<1>5. op[w] \in StreamOp \cup HttpOp
  BY <1>1, WorkerParts
<1>6. ASSUME NEW i \in About(op[w]), i \notin contested[w]
      PROVE  Alone(w, i)'
  <2>1. Alone(w, i) /\ i \in Id
    BY <1>6, WorkerParts DEF AgreeInv
  <2>2. rows'[i] = Result(op[w], rows[i])
    BY <1>1, <2>1 DEF Alone
  <2>3. promised[i] # Unknown => rows[i] = promised[i] /\ jobs[i] = JobAt(w, i)
    BY <1>1, <2>1 DEF Alone, RowAt
  <2>4. JobAt(w, i)' = JobAt(w, i)
    BY <1>1, <1>3 DEF JobAt
  <2>5. op[w].kind # "delete app" => rows'[i] = Result(op[w], promised[i])
    BY <1>5, <2>2, OperationParts DEF Result
  <2>6. RowAt(w, i)' = Result(op[w], promised[i])
    BY <1>1, <1>3 DEF RowAt
  <2>7. promised[i] # Unknown => rows'[i] = Result(op[w], promised[i])
    BY <2>2, <2>3
  <2>8. QED
    BY <1>1, <1>3, <2>3, <2>4, <2>5, <2>6, <2>7 DEF Alone
<1>7. \A i \in Id : i \notin About(op[w]) => rows'[i] = rows[i] /\ jobs'[i] = jobs[i]
  BY <1>1, <1>4
<1>8. /\ \A v \in Worker : found'[v] \subseteq found[v]
      /\ \A v \in Worker : \A i \in found[v] : i \notin About(op[w]) => i \in found'[v]
  BY <1>4, CommitFinds
<1>9. DOMAIN writes'[w] \subseteq About(op[w]) /\ found'[w] \cap DOMAIN writes'[w] = {}
  BY <1>3, NoWritesType
<1>10. wpc'[w] \notin {"select", "remove"} /\ \A v \in Worker \ {w} : wpc'[v] = wpc[v]
  BY <1>1, <1>3
<1>11. QED
  BY <1>1, <1>3, <1>6, <1>7, <1>8, <1>9, <1>10, AgreeStep

\* A step that leaves every operation, its schedules and what is promised alone: a
\* schedule operation is sent, acknowledged or discarded.
LEMMA AgreeAside ==
  ASSUME ScheduleTypeOK, AgreeInv,
         UNCHANGED << rows, jobs, up, op, selected, found, writes, contested, promised >>,
         \A v \in Worker :
           (v = Consumer /\ op[v] = None /\ wpc'[v] \in {"idle", "ack"}) \/ wpc'[v] = wpc[v]
  PROVE  AgreeInv'
<1>1. Consumer \in Worker
  BY DEF Worker
<1>2. \A v \in Worker : v # Consumer => wpc'[v] = wpc[v]
  OBVIOUS
<1>3. CASE wpc'[Consumer] = wpc[Consumer]
  <2>1. \A i \in About(op[Consumer]) : i \notin contested[Consumer] => Alone(Consumer, i)'
    BY <1>1, <1>3, ZenonT(60) DEF AgreeInv, Alone, RowAt, JobAt
  <2>2. /\ wpc'[Consumer] \in {"select", "remove"} => op[Consumer].kind = "delete app"
        /\ DOMAIN writes'[Consumer] \subseteq About(op[Consumer])
        /\ found'[Consumer] \cap DOMAIN writes'[Consumer] = {}
    BY <1>1, <1>3 DEF AgreeInv
  <2>3. QED
    BY <1>1, <1>2, <2>1, <2>2, AgreeStep
<1>4. CASE op[Consumer] = None /\ wpc'[Consumer] \in {"idle", "ack"}
  <2>1. About(op[Consumer]) = {}
    BY <1>4, AboutParts
  <2>2. /\ DOMAIN writes'[Consumer] \subseteq About(op[Consumer])
        /\ found'[Consumer] \cap DOMAIN writes'[Consumer] = {}
    BY <1>1 DEF AgreeInv
  <2>3. QED
    BY <1>1, <1>2, <1>4, <2>1, <2>2, AgreeStep
<1>5. QED
  BY <1>1, <1>3, <1>4

LEMMA AgreeBegin ==
  ASSUME ScheduleTypeOK, AgreeInv, up, NEW w \in Worker, wpc[w] = "idle",
         NEW o \in StreamOp \cup HttpOp, Begin(w, o),
         UNCHANGED << rows, jobs, up, selected, found, writes >>
  PROVE  AgreeInv'
<1> DEFINE shared(v) == About(op[v]) \cap About(o)
           mine == UNION { shared(v) : v \in Worker \ {w} }
<1>1. /\ op' = [op EXCEPT ![w] = o]
      /\ wpc' = [wpc EXCEPT ![w] = IF o.kind = "delete app" THEN "select" ELSE "execute"]
      /\ contested' = [v \in Worker |-> IF v = w THEN mine ELSE contested[v] \cup shared(v)]
      /\ promised' = [i \in Id |-> IF i \in mine THEN Unknown ELSE promised[i]]
  BY DEF Begin
<1>2. /\ op \in [Worker -> OrNone(HttpOp \cup StreamOp)]
      /\ wpc \in [Worker -> Position]
  BY DEF ScheduleTypeOK
<1>3. /\ op'[w] = o /\ \A v \in Worker : v # w => op'[v] = op[v] /\ wpc'[v] = wpc[v]
      /\ wpc'[w] = IF o.kind = "delete app" THEN "select" ELSE "execute"
  BY <1>1, <1>2
<1>4. /\ op[w] = None /\ About(op[w]) = {} /\ About(o) \subseteq Id
      /\ writes[w] = NoWrites /\ found[w] = {}
  BY WorkerParts, AboutParts DEF Untouched
<1>5. \A i \in Id : i \in mine <=> i \in About(o) /\ \E v \in Worker \ {w} : i \in About(op[v])
  OBVIOUS
<1>6. contested'[w] = mine /\ \A v \in Worker : v # w => contested'[v] = contested[v] \cup shared(v)
  BY <1>1
<1>7. \A i \in Id : promised'[i] = IF i \in mine THEN Unknown ELSE promised[i]
  BY <1>1
<1> HIDE DEF mine
<1>8. ASSUME NEW i \in Id, ~InProgress(i)'
      PROVE  AtRest(i)'
  <2>1. i \notin About(o) /\ \A v \in Worker : v # w => i \notin About(op[v])
    BY <1>3, <1>8 DEF InProgress
  <2>2. ~InProgress(i)
    BY <1>4, <2>1 DEF InProgress
  <2>3. promised'[i] = promised[i]
    BY <1>5, <1>7, <2>1
  <2>4. QED
    BY <2>2, <2>3 DEF AgreeInv, AtRest
<1>9. ASSUME NEW v \in Worker, v # w, NEW i \in About(op[v])
      PROVE  IF i \in contested'[v] THEN promised'[i] = Unknown ELSE Alone(v, i)'
  <2>1. i \in Id
    BY WorkerParts
  <2>2. CASE i \in About(o)
    BY <1>5, <1>6, <1>7, <1>9, <2>1, <2>2
  <2>3. CASE i \notin About(o)
    <3>1. promised'[i] = promised[i] /\ (i \in contested'[v] <=> i \in contested[v])
      BY <1>5, <1>6, <1>7, <1>9, <2>1, <2>3
    <3>2. IF i \in contested[v] THEN promised[i] = Unknown ELSE Alone(v, i)
      BY DEF AgreeInv
    <3>3. op'[v] = op[v] /\ wpc'[v] = wpc[v]
      BY <1>3, <1>9
    <3>4. QED
      BY <3>1, <3>2, <3>3 DEF Alone, RowAt, JobAt
  <2> QED BY <2>2, <2>3
<1>10. ASSUME NEW i \in About(o)
       PROVE  IF i \in contested'[w] THEN promised'[i] = Unknown ELSE Alone(w, i)'
  <2>1. i \in Id
    BY <1>4
  <2>2. CASE i \in mine
    BY <1>6, <1>7, <2>1, <2>2
  <2>3. CASE i \notin mine
    <3>1. ~InProgress(i)
      BY <1>4, <1>5, <2>1, <2>3 DEF InProgress
    <3>2. promised[i] # Unknown => rows[i] = promised[i] /\ jobs[i] = Fired(promised[i])
      BY <2>1, <3>1 DEF AgreeInv, AtRest
    <3>3. promised'[i] = promised[i] /\ i \notin contested'[w]
      BY <1>6, <1>7, <2>1, <2>3
    <3>4. IF op'[w].kind = "delete app" THEN wpc'[w] = "select" ELSE wpc'[w] = "execute"
      BY <1>3
    <3>5. Alone(w, i)'
      BY <3>2, <3>3, <3>4 DEF Alone, RowAt, JobAt
    <3>6. QED
      BY <3>3, <3>5
  <2> QED BY <2>2, <2>3
<1>11. \A v \in Worker : \A i \in About(op'[v]) :
         IF i \in contested'[v] THEN promised'[i] = Unknown ELSE Alone(v, i)'
  BY <1>3, <1>9, <1>10
<1>12. ASSUME NEW v \in Worker, NEW u \in Worker \ {v},
              NEW i \in About(op'[v]) \cap About(op'[u])
       PROVE  i \in contested'[v]
  <2>0. i \in Id
    BY <1>3, <1>4, <1>12, WorkerParts
  <2>1. CASE v = w
    <3>1. i \in About(o) /\ i \in About(op[u]) /\ u # w
      BY <1>3, <1>12, <2>1
    <3>2. QED
      BY <1>5, <1>6, <2>0, <2>1, <3>1
  <2>2. CASE v # w /\ u = w
    BY <1>3, <1>6, <1>12, <2>2
  <2>3. CASE v # w /\ u # w
    <3>1. i \in About(op[v]) \cap About(op[u])
      BY <1>3, <1>12, <2>3
    <3>2. i \in contested[v]
      BY <3>1 DEF AgreeInv
    <3>3. QED
      BY <1>6, <2>3, <3>2
  <2> QED BY <2>1, <2>2, <2>3
<1>13. ASSUME NEW v \in Worker
       PROVE  /\ wpc'[v] \in {"select", "remove"} => op'[v].kind = "delete app"
              /\ DOMAIN writes'[v] \subseteq About(op'[v])
              /\ found'[v] \cap DOMAIN writes'[v] = {}
  <2>1. CASE v = w
    BY <1>3, <1>4, <2>1, NoWritesType
  <2>2. CASE v # w
    BY <1>3, <2>2 DEF AgreeInv
  <2> QED BY <2>1, <2>2
<1>14. QED
  BY <1>8, <1>11, <1>12, <1>13 DEF AgreeInv

LEMMA AgreeLeave ==
  ASSUME ScheduleTypeOK, AgreeInv, NEW w \in Worker, NEW to \in {"idle", "ack"}, Leave(w, to),
         UNCHANGED << rows, up >>,
         \A i \in Id : i \notin About(op[w]) => promised'[i] = promised[i] /\ jobs'[i] = jobs[i],
         \A i \in About(op[w]) :
           IF i \in contested[w] THEN promised'[i] = Unknown ELSE AtRest(i)'
  PROVE  AgreeInv'
<1>1. /\ wpc' = [wpc EXCEPT ![w] = to] /\ op' = [op EXCEPT ![w] = None]
      /\ writes' = [writes EXCEPT ![w] = NoWrites] /\ selected' = [selected EXCEPT ![w] = {}]
      /\ contested' = [contested EXCEPT ![w] = {}] /\ found' = [found EXCEPT ![w] = {}]
  BY DEF Leave
<1>2. /\ op \in [Worker -> OrNone(HttpOp \cup StreamOp)]
      /\ wpc \in [Worker -> Position]
      /\ writes \in [Worker -> Writes] /\ selected \in [Worker -> SUBSET Id]
      /\ contested \in [Worker -> SUBSET Id] /\ found \in [Worker -> SUBSET Id]
  BY DEF ScheduleTypeOK
<1>3. op'[w] = None /\ wpc'[w] = to /\ writes'[w] = NoWrites /\ found'[w] = {}
  BY <1>1, <1>2
<1>4. \A v \in Worker : v # w =>
        /\ op'[v] = op[v] /\ wpc'[v] = wpc[v] /\ writes'[v] = writes[v]
        /\ selected'[v] = selected[v] /\ contested'[v] = contested[v] /\ found'[v] = found[v]
  BY <1>1, <1>2
<1>5. About(op'[w]) = {}
  BY <1>3, AboutParts
<1>6. ASSUME NEW i \in Id, ~InProgress(i)'
      PROVE  AtRest(i)'
  <2>1. CASE i \in About(op[w])
    <3>1. CASE i \in contested[w]
      BY <2>1, <3>1 DEF AtRest
    <3>2. CASE i \notin contested[w]
      BY <2>1, <3>2
    <3> QED BY <3>1, <3>2
  <2>2. CASE i \notin About(op[w])
    <3>1. ~InProgress(i)
      BY <1>4, <1>6, <2>2 DEF InProgress
    <3>2. QED
      BY <2>2, <3>1 DEF AgreeInv, AtRest
  <2> QED BY <2>1, <2>2
<1>7. ASSUME NEW v \in Worker, NEW i \in About(op'[v])
      PROVE  IF i \in contested'[v] THEN promised'[i] = Unknown ELSE Alone(v, i)'
  <2>1. v # w /\ i \in About(op[v]) /\ i \in Id
    BY <1>4, <1>5, <1>7, WorkerParts
  <2>2. CASE i \in contested[v]
    <3>1. promised[i] = Unknown
      BY <2>1, <2>2 DEF AgreeInv
    <3>2. CASE i \in About(op[w])
      <4>1. i \in contested[w]
        BY <2>1, <3>2 DEF AgreeInv
      <4>2. QED
        BY <1>4, <2>1, <2>2, <3>2, <4>1
    <3>3. CASE i \notin About(op[w])
      BY <1>4, <2>1, <2>2, <3>1, <3>3
    <3> QED BY <3>2, <3>3
  <2>3. CASE i \notin contested[v]
    <3>1. i \notin About(op[w]) /\ Alone(v, i)
      BY <2>1, <2>3, Apart
    <3>2. /\ promised'[i] = promised[i] /\ jobs'[i] = jobs[i] /\ rows' = rows
          /\ op'[v] = op[v] /\ wpc'[v] = wpc[v] /\ writes'[v] = writes[v]
          /\ selected'[v] = selected[v] /\ found'[v] = found[v]
      BY <1>4, <2>1, <3>1
    <3>3. Alone(v, i)'
      BY <3>1, <3>2 DEF Alone, RowAt, JobAt
    <3>4. QED
      BY <1>4, <2>1, <2>3, <3>3
  <2> QED BY <2>2, <2>3
<1>8. ASSUME NEW v \in Worker, NEW u \in Worker \ {v},
             NEW i \in About(op'[v]) \cap About(op'[u])
      PROVE  i \in contested'[v]
  <2>1. v # w /\ u # w
    BY <1>5, <1>8
  <2>2. i \in About(op[v]) \cap About(op[u])
    BY <1>4, <1>8, <2>1
  <2>3. i \in contested[v]
    BY <2>2 DEF AgreeInv
  <2>4. QED
    BY <1>4, <2>1, <2>3
<1>9. ASSUME NEW v \in Worker
      PROVE  /\ wpc'[v] \in {"select", "remove"} => op'[v].kind = "delete app"
             /\ DOMAIN writes'[v] \subseteq About(op'[v])
             /\ found'[v] \cap DOMAIN writes'[v] = {}
  <2>1. CASE v = w
    BY <1>3, <2>1, NoWritesType
  <2>2. CASE v # w
    BY <1>4, <2>2 DEF AgreeInv
  <2> QED BY <2>1, <2>2
<1>10. QED
  BY <1>6, <1>7, <1>8, <1>9 DEF AgreeInv

\* The row is what the operation makes of the schedule, and now the job is.
LEMMA AgreeComplete ==
  ASSUME ScheduleTypeOK, AgreeInv, NEW w \in Worker, Complete(w)
  PROVE  AgreeInv'
<1>1. /\ wpc[w] = "job" /\ Leave(w, IF w = Consumer THEN "ack" ELSE "idle")
      /\ jobs' = IF op[w].kind = "delete app" THEN jobs
                 ELSE [jobs EXCEPT ![op[w].id] = JobOf(op[w])]
      /\ promised' = [i \in Id |->
           IF i \in About(op[w]) \ contested[w]
                /\ (op[w].kind # "delete app" \/ promised[i] # Unknown)
           THEN Result(op[w], promised[i]) ELSE promised[i]]
      /\ UNCHANGED << rows, up >>
  BY DEF Complete
<1>2. op[w] \in StreamOp \cup HttpOp /\ About(op[w]) \subseteq Id
  BY <1>1, WorkerParts
<1>3. jobs \in [Id -> OrNone(Entry)] /\ promised \in [Id -> OrNone(Entry) \cup {Unknown}]
  BY DEF ScheduleTypeOK
<1>4. \A i \in Id : i \notin About(op[w]) => promised'[i] = promised[i] /\ jobs'[i] = jobs[i]
  <2>1. CASE op[w].kind = "delete app"
    BY <1>1, <2>1
  <2>2. CASE op[w].kind # "delete app"
    BY <1>1, <1>2, <1>3, <2>2, AboutParts
  <2> QED BY <2>1, <2>2
<1>5. ASSUME NEW i \in About(op[w]), i \in contested[w]
      PROVE  promised'[i] = Unknown
  <2>1. promised[i] = Unknown
    BY <1>5 DEF AgreeInv
  <2>2. QED
    BY <1>1, <1>2, <1>5, <2>1
<1>6. ASSUME NEW i \in About(op[w]), i \notin contested[w]
      PROVE  AtRest(i)'
  <2>1. Alone(w, i) /\ i \in Id
    BY <1>2, <1>6 DEF AgreeInv
  <2>2. CASE op[w].kind = "delete app"
    <3>1. promised[i] # Unknown =>
            rows[i] = Result(op[w], promised[i]) /\ jobs[i] = Fired(Result(op[w], promised[i]))
      BY <1>1, <2>1, <2>2 DEF Alone, RowAt, JobAt
    <3>2. promised'[i] = IF promised[i] # Unknown THEN Result(op[w], promised[i]) ELSE Unknown
      BY <1>1, <1>6, <2>1, <2>2
    <3>3. QED
      BY <1>1, <2>2, <3>1, <3>2 DEF AtRest
  <2>3. CASE op[w].kind # "delete app"
    <3>1. i = op[w].id
      BY <1>2, <1>6, <2>3, AboutParts
    <3>2. rows[i] = Result(op[w], promised[i])
      BY <1>1, <2>1, <2>3 DEF Alone, RowAt
    <3>3. promised'[i] = Result(op[w], promised[i])
      BY <1>1, <1>6, <2>1, <2>3
    <3>4. jobs'[i] = JobOf(op[w])
      BY <1>1, <1>3, <2>1, <2>3, <3>1
    <3>5. JobOf(op[w]) = Fired(Result(op[w], promised[i]))
      <4>1. CASE op[w].kind = "upsert"
        <5>1. op[w].entry # None
          BY <1>2, <4>1, OperationParts, ScheduleAssumption
        <5>2. QED
          BY <4>1, <5>1 DEF JobOf, Result, Fired
      <4>2. CASE op[w].kind = "delete"
        BY <4>2 DEF JobOf, Result, Fired
      <4>3. QED
        BY <1>2, <2>3, <4>1, <4>2, OperationParts
    <3>6. QED
      BY <1>1, <3>2, <3>3, <3>4, <3>5 DEF AtRest
  <2> QED BY <2>2, <2>3
<1>7. QED
  BY <1>1, <1>4, <1>5, <1>6, AgreeLeave

\* An operation that fails before its commit has changed nothing, except that
\* delete_app_schedules may have removed jobs.
LEMMA Doubt ==
  ASSUME ScheduleTypeOK, AgreeInv, NEW w \in Worker, NEW i \in About(op[w]), i \notin InDoubt(w)
  PROVE  promised[i] # Unknown => rows[i] = promised[i] /\ jobs[i] = Fired(promised[i])
<1>1. op[w] # None
  BY AboutParts
<1>2. wpc[w] # "job" /\ op[w].kind # "delete app"
  BY <1>1 DEF InDoubt
<1>3. IF i \in contested[w] THEN promised[i] = Unknown ELSE Alone(w, i)
  BY DEF AgreeInv
<1>4. QED
  BY <1>2, <1>3 DEF Alone, RowAt, JobAt

LEMMA AgreeFails ==
  ASSUME ScheduleTypeOK, AgreeInv, NEW w \in Worker, Raises(w)
  PROVE  AgreeInv'
<1>1. /\ Leave(w, "idle") /\ UNCHANGED << rows, jobs, up >>
      /\ promised' = [i \in Id |-> IF i \in InDoubt(w) THEN Unknown ELSE promised[i]]
  BY DEF Raises
<1>2. About(op[w]) \subseteq Id /\ InDoubt(w) \subseteq About(op[w])
  BY WorkerParts DEF InDoubt
<1>3. ASSUME NEW i \in About(op[w])
      PROVE  IF i \in contested[w] THEN promised'[i] = Unknown ELSE AtRest(i)'
  <2>1. i \in contested[w] => promised[i] = Unknown
    BY DEF AgreeInv
  <2>2. promised'[i] = IF i \in InDoubt(w) THEN Unknown ELSE promised[i]
    BY <1>1, <1>2
  <2>3. AtRest(i)'
    BY <1>1, <2>2, Doubt DEF AtRest
  <2>4. QED
    BY <2>1, <2>2, <2>3
<1>4. \A i \in Id : i \notin About(op[w]) => promised'[i] = promised[i] /\ jobs'[i] = jobs[i]
  BY <1>1, <1>2
<1>5. QED
  BY <1>1, <1>3, <1>4, AgreeLeave

\* Nobody works on a schedule while the controller is down, or has just come up.
LEMMA AgreeAtRest ==
  ASSUME op' = [w \in Worker |-> None], wpc' = [w \in Worker |-> "idle"],
         writes' = [w \in Worker |-> NoWrites], found' = [w \in Worker |-> {}],
         \A i \in Id : AtRest(i)'
  PROVE  AgreeInv'
<1>1. \A w \in Worker : /\ About(op'[w]) = {} /\ wpc'[w] = "idle"
                       /\ DOMAIN writes'[w] = {} /\ found'[w] = {}
  BY AboutParts, NoWritesType
<1>2. QED
  BY <1>1 DEF AgreeInv

LEMMA AgreeCrash ==
  ASSUME ScheduleTypeOK, AgreeInv, CrashController
  PROVE  AgreeInv'
<1>1. /\ op' = [w \in Worker |-> None] /\ wpc' = [w \in Worker |-> "idle"]
      /\ writes' = [w \in Worker |-> NoWrites] /\ found' = [w \in Worker |-> {}]
      /\ up' = FALSE /\ rows' = rows
      /\ promised' = [i \in Id |->
           IF \E w \in Worker : i \in InDoubt(w) THEN Unknown ELSE promised[i]]
  BY DEF CrashController
<1>2. ASSUME NEW i \in Id
      PROVE  AtRest(i)'
  <2>1. CASE \E w \in Worker : i \in InDoubt(w)
    BY <1>1, <2>1 DEF AtRest
  <2>2. CASE \A w \in Worker : i \notin InDoubt(w)
    <3>1. promised'[i] = promised[i]
      BY <1>1, <2>2
    <3>2. CASE InProgress(i)
      BY <1>1, <2>2, <3>1, <3>2, Doubt DEF InProgress, AtRest
    <3>3. CASE ~InProgress(i)
      BY <1>1, <3>1, <3>3 DEF AgreeInv, AtRest
    <3> QED BY <3>2, <3>3
  <2> QED BY <2>1, <2>2
<1>3. QED
  BY <1>1, <1>2, AgreeAtRest

LEMMA AgreeStart ==
  ASSUME ScheduleTypeOK, AgreeInv, StartController
  PROVE  AgreeInv'
<1>1. /\ ~up /\ jobs' = rows /\ UNCHANGED << rows, wpc, op, found, writes >>
      /\ promised' = [i \in Id |-> IF promised[i] = Unknown THEN rows[i] ELSE promised[i]]
  BY DEF StartController
<1>2. \A w \in Worker : wpc[w] = "idle"
  BY <1>1 DEF ScheduleTypeOK
<1>3. \A w \in Worker : /\ op[w] = None /\ About(op[w]) = {}
                       /\ writes[w] = NoWrites /\ found[w] = {}
  BY <1>2, WorkerParts DEF Untouched
<1>4. /\ op' = [w \in Worker |-> None] /\ wpc' = [w \in Worker |-> "idle"]
      /\ writes' = [w \in Worker |-> NoWrites] /\ found' = [w \in Worker |-> {}]
  BY <1>1, <1>2, <1>3 DEF ScheduleTypeOK
<1>5. ASSUME NEW i \in Id
      PROVE  AtRest(i)'
  <2>1. ~InProgress(i)
    BY <1>3 DEF InProgress
  <2>2. promised'[i] = rows[i]
    BY <1>1, <2>1 DEF AgreeInv, AtRest
  <2>3. Fired(rows[i]) = rows[i]
    BY DEF StartController, Fired
  <2>4. QED
    BY <1>1, <2>2, <2>3 DEF AtRest
<1>6. QED
  BY <1>4, <1>5, AgreeAtRest

LEMMA AgreeNext == ScheduleTypeOK /\ AgreeInv /\ [ScheduleNext]_schedVars => AgreeInv'
<1> SUFFICES ASSUME ScheduleTypeOK, AgreeInv, [ScheduleNext]_schedVars
             PROVE  AgreeInv'
  OBVIOUS
<1>0. Consumer \in Worker
  BY DEF Worker
<1>t. wpc \in [Worker -> Position]
  BY DEF ScheduleTypeOK
<1>1. ASSUME NEW o \in StreamOp, SendOp(o)
      PROVE  AgreeInv'
  BY <1>1, AgreeAside DEF SendOp
<1>2. ASSUME NEW h \in Handler, NEW o \in HttpOp, ReceiveRequest(h, o)
      PROVE  AgreeInv'
  BY <1>2, AgreeBegin DEF ReceiveRequest, Worker
<1>3. CASE ReadOp
  <2>1. ops.log[NextId(ops)] \in StreamOp
    BY <1>3, XREADGROUPStream DEF ReadOp, ScheduleTypeOK
  <2>2. CASE Discards(ops.log[NextId(ops)])
    <3>1. wpc[Consumer] = "idle" /\ wpc' = [wpc EXCEPT ![Consumer] = "ack"]
          /\ UNCHANGED << rows, jobs, up, op, selected, found, writes, contested, promised >>
      BY <1>3, <2>2 DEF ReadOp
    <3>2. op[Consumer] = None
      BY <1>0, <3>1, WorkerParts
    <3>3. QED
      BY <1>t, <3>1, <3>2, AgreeAside
  <2>3. CASE ~Discards(ops.log[NextId(ops)])
    BY <1>0, <1>3, <2>1, <2>3, AgreeBegin DEF ReadOp
  <2>4. QED
    BY <2>2, <2>3
<1>4. CASE AckOp \/ AckOpFails
  <2>1. wpc[Consumer] = "ack" /\ wpc' = [wpc EXCEPT ![Consumer] = "idle"]
        /\ UNCHANGED << rows, jobs, up, op, selected, found, writes, contested, promised >>
    BY <1>4 DEF AckOp, AckOpFails, WorkerGoto
  <2>2. op[Consumer] = None
    BY <1>0, <2>1, WorkerParts
  <2>3. QED
    BY <1>t, <2>1, <2>2, AgreeAside
<1>5. ASSUME NEW w \in Worker, WorkerStep(w)
      PROVE  AgreeInv'
  BY <1>5, AgreeSelect, AgreeRemoveJobs, AgreeExecute, AgreeChangeRow, AgreeCommit, AgreeComplete
  DEF WorkerStep
<1>6. ASSUME NEW w \in Worker, OperationFails(w) \/ BreakDeadlock(w)
      PROVE  AgreeInv'
  BY <1>6, AgreeFails DEF OperationFails, BreakDeadlock
<1>7. CASE CrashController \/ StartController
  BY <1>7, AgreeCrash, AgreeStart
<1>8. CASE UNCHANGED schedVars
  BY <1>8, AgreeAside DEF schedVars
<1>9. QED
  BY <1>1, <1>2, <1>3, <1>4, <1>5, <1>6, <1>7, <1>8 DEF ScheduleNext

\* What a completed operation said of a schedule holds of its row and of its job until
\* the next one, for any number of workers, schedules and failures; the job of an entry
\* whose cron expression is refused is none (add_schedule raises after the commit).
THEOREM SchedulesFollow == ScheduleSpec => []RowsAndJobsFollow
<1>1. ScheduleTypeOK /\ AgreeInv /\ [ScheduleNext]_schedVars => AgreeInv'
  BY AgreeNext
<1>2. AgreeInv => RowsAndJobsFollow
  BY DEF AgreeInv, AtRest, RowsAndJobsFollow
<1>3. QED
  BY <1>1, <1>2, AgreeInit, SchedulesTypeCorrect, PTL DEF ScheduleSpec

\* If POST /schedules is only called with cron expressions the trigger accepts, the job
\* of every row is the row, so startup, which makes jobs of rows, changes nothing.
THEOREM SchedulesAgree ==
  ASSUME \A e \in HttpEntry : e.cron \in ValidCron
  PROVE  ScheduleSpec => []RowsAndJobsAgree
<1>1. RowsAndJobsFollow /\ RowsAreSchedulable => RowsAndJobsAgree
  BY DEF RowsAndJobsFollow, RowsAreSchedulable, RowsAndJobsAgree, Fired
<1>2. ScheduleSpec => []RowsAreSchedulable
  BY RowsStaySchedulable
<1>3. QED
  BY <1>1, <1>2, SchedulesFollow, PTL
=============================================================================
