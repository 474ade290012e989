---------------------- MODULE OrchestrationEngineProofs ----------------------
(***************************************************************************)
(* Theorems about the orchestration engine, for every set of commands and  *)
(* faults, every page limit, and any number of dispatches.                 *)
(***************************************************************************)
EXTENDS OrchestrationEngine, OrchestrationModelProofs

-----------------------------------------------------------------------------
(* Lemmas about the helpers of the engine *)

\* The empty table is a table of every type.
LEMMA EmptyTableType ==
  ASSUME NEW S, NEW T
  PROVE  <<>> \in PartialFn(S, T)
<1>1. <<>> \in [{} -> T]
  OBVIOUS
<1> QED
  BY <1>1 DEF PartialFn

\* What the process starts with, and what a crash leaves, is well formed.
LEMMA EmptyTypes ==
  /\ EmptyReadModel \in ReadModel
  /\ EmptyTables \in Tables
  /\ EmptyDatabase \in Database /\ CursorsInLog(EmptyDatabase)
  /\ NoJob \in Job
<1>1. EmptyReadModel \in ReadModel
  BY EmptyTableType DEF EmptyReadModel, ReadModel, Pins
<1>2. EmptyTables \in Tables
  BY EmptyTableType DEF EmptyTables, Tables, Pins
<1>3. EmptyDatabase \in Database
  BY <1>2 DEF EmptyDatabase, Database, NoReceipt, Receipt
<1>4. CursorsInLog(EmptyDatabase)
  BY DEF EmptyDatabase, CursorsInLog
<1>5. NoJob \in Job
  BY <1>1 DEF NoJob, Job, Failures
<1> QED
  BY <1>1, <1>2, <1>3, <1>4, <1>5

\* A page holds the sequences that follow, none beyond the end of the log, and
\* is empty only at the end.
LEMMA PageAfterIsNext ==
  ASSUME PageLimit \in Nat \ {0}, Len(db.log) \in Nat,
         NEW from \in Nat, from <= Len(db.log)
  PROVE  /\ PageAfter(from) \in Seq(Nat)
         /\ from + Len(PageAfter(from)) <= Len(db.log)
         /\ from < Len(db.log) => PageAfter(from) # <<>>
         /\ \A i \in 1..Len(PageAfter(from)) : PageAfter(from)[i] = from + i
<1> DEFINE available == Len(db.log) - from
<1> DEFINE n == IF available < PageLimit THEN available ELSE PageLimit
<1>1. n \in Nat /\ from + n <= Len(db.log) /\ (from < Len(db.log) => n > 0)
  OBVIOUS
<1>2. PageAfter(from) = [i \in 1..n |-> from + i]
  BY DEF PageAfter
<1> HIDE DEF n
<1>3. PageAfter(from) \in Seq(Nat) /\ Len(PageAfter(from)) = n
  BY <1>1, <1>2
<1> QED
  BY <1>1, <1>2, <1>3

\* Projecting an event in the tables changes neither the log nor the receipts,
\* and moves cursors only to the sequence of the event.
LEMMA ProjectAllType ==
  ASSUME NEW d \in Database, NEW e \in Event, NEW seq \in Nat
  PROVE  /\ ProjectAll(d, e, seq) \in Database
         /\ ProjectAll(d, e, seq).log = d.log
         /\ ProjectAll(d, e, seq).receipts = d.receipts
         /\ \A q \in Projectors : ProjectAll(d, e, seq).cursor[q] \in {seq, d.cursor[q]}
<1> DEFINE run(q, tb) == IF q \in installed THEN Apply(q, tb, e) ELSE tb
<1> DEFINE tables == run("sandbox", run("threads", run("proposedPlans", run("projects", d.tables))))
<1> DEFINE cursor == [q \in Projectors |-> IF q \in installed THEN seq ELSE d.cursor[q]]
<1>1. ASSUME NEW q \in Projectors, NEW tb \in Tables
      PROVE  run(q, tb) \in Tables
  BY ApplyType
<1>2. {"projects", "proposedPlans", "threads", "sandbox"} \subseteq Projectors
  BY DEF Projectors, ProjectorOrder
<1>3. d.tables \in Tables /\ d.cursor \in [Projectors -> Nat]
  BY DEF Database
<1>4. ProjectAll(d, e, seq) = [d EXCEPT !.tables = tables, !.cursor = cursor]
  BY DEF ProjectAll
<1>5. tables \in Tables
  <2> HIDE DEF run
  <2>1. run("projects", d.tables) \in Tables
    BY <1>1, <1>2, <1>3
  <2>2. run("proposedPlans", run("projects", d.tables)) \in Tables
    BY <1>1, <1>2, <2>1
  <2>3. run("threads", run("proposedPlans", run("projects", d.tables))) \in Tables
    BY <1>1, <1>2, <2>2
  <2> QED
    BY <1>1, <1>2, <2>3
<1>6. cursor \in [Projectors -> Nat] /\ \A q \in Projectors : cursor[q] \in {seq, d.cursor[q]}
  BY <1>3
<1> HIDE DEF tables, cursor
<1> QED
  BY <1>4, <1>5, <1>6 DEF Database

\* The sequence the read model starts from is a number.
LEMMA StartSequenceType ==
  ASSUME db \in Database
  PROVE  StartSequence \in Nat
<1> DEFINE cursor == [q \in Projectors |-> IF q \in installed THEN db.cursor[q] ELSE Len(db.log)]
<1>1. db.cursor \in [Projectors -> Nat] /\ Len(db.log) \in Nat
  BY DEF Database
<1>2. cursor \in [Projectors -> Nat]
  BY <1>1
<1>3. SnapshotSequence(cursor) \in Nat
  BY <1>2, SnapshotSequenceIsLeast
<1> QED
  BY <1>3 DEF StartSequence

-----------------------------------------------------------------------------
(* Type correctness *)

Typed == TypeOK /\ StepsAreFed

\* An entry of a command in the log is well formed, and so is its receipt.
LEMMA AppendedType ==
  ASSUME NEW d \in Database, NEW id \in Ids, NEW e \in Event
  PROVE  [d EXCEPT !.log = Append(@, [id |-> id, event |-> e])] \in Database
<1> DEFINE entry == [id |-> id, event |-> e]
<1>1. entry \in Entry
  BY DEF Entry
<1> HIDE DEF entry
<1>2. Append(d.log, entry) \in Seq(Entry)
  BY <1>1 DEF Database
<1>3. [d EXCEPT !.log = Append(@, entry)] \in Database
  BY <1>2 DEF Database
<1> QED
  BY <1>3 DEF entry

\* Writing a receipt keeps the database well formed.
LEMMA ReceiptWrittenType ==
  ASSUME NEW d \in Database, NEW id \in Ids, NEW r \in Receipt
  PROVE  /\ [d EXCEPT !.receipts[id] = r] \in Database
         /\ CursorsInLog(d) => CursorsInLog([d EXCEPT !.receipts[id] = r])
<1> DEFINE receipts == [d.receipts EXCEPT ![id] = r]
<1>1. receipts \in [Ids -> Receipt]
  BY DEF Database
<1>2. [d EXCEPT !.receipts[id] = r] = [d EXCEPT !.receipts = receipts]
  BY DEF Database
<1> HIDE DEF receipts
<1>3. [d EXCEPT !.receipts = receipts] \in Database
  BY <1>1 DEF Database
<1>4. CursorsInLog(d) => CursorsInLog([d EXCEPT !.receipts = receipts])
  BY DEF CursorsInLog, Database
<1> QED
  BY <1>2, <1>3, <1>4

\* The initial states are well formed.
LEMMA TypedInit == Init => Typed
<1> SUFFICES ASSUME Init PROVE Typed
  OBVIOUS
<1>1. db \in Database /\ synced \in Database /\ tx \in Database
  BY EmptyTypes DEF Init
<1>2. job \in Job /\ readModel \in ReadModel
  BY EmptyTypes DEF Init
<1>3. TypeOK
  BY <1>1, <1>2, EngineAssumption DEF Init, TypeOK, Steps
<1>4. StepsAreFed
  BY EmptyTypes DEF Init, StepsAreFed
<1> QED
  BY <1>3, <1>4 DEF Typed

\* A dispatch that fails leaves a well-formed job.
LEMMA FailWithType ==
  ASSUME TypeOK, NEW failure \in Failures, FailWith(failure)
  PROVE  job' \in Job /\ job'.command = job.command /\ job'.failure = failure
<1>1. <<>> \in Seq(Event) /\ <<>> \in Seq(Nat)
  OBVIOUS
<1>2. job \in Job /\ readModel \in ReadModel
  BY DEF TypeOK
<1>3. job' = [job EXCEPT !.failure = failure, !.todo = <<>>, !.events = <<>>, !.next = readModel]
  BY DEF FailWith
<1> QED
  BY <1>1, <1>2, <1>3 DEF Job

\* An answer is added to those of its command.
LEMMA AnswerType ==
  ASSUME replies \in [Ids -> SUBSET Reply], NEW id \in Ids, NEW r \in Reply, Answer(id, r)
  PROVE  replies' \in [Ids -> SUBSET Reply]
<1>1. replies[id] \cup {r} \in SUBSET Reply
  OBVIOUS
<1>2. replies' = [replies EXCEPT ![id] = replies[id] \cup {r}]
  BY DEF Answer
<1> QED
  BY <1>1, <1>2

\* A change of the job and of the step alone, to a step that is fed.
LEMMA TypedJobStep ==
  ASSUME Typed, UNCHANGED <<durable, tx, queue, readModel, published, target, history>>,
         job' \in Job, pc' \in Steps,
         pc' \notin {"down", "boot", "idle"} => job'.command \in Commands,
         pc' = "transaction" => job'.todo # <<>> \/ job'.events # <<>>,
         pc' \in {"publish", "reply"} => job'.events # <<>>,
         pc' = "replay" => job'.events # <<>> /\ LastToReplay' <= Len(db.log),
         pc' # "boot"
  PROVE  Typed'
BY DEF Typed, TypeOK, StepsAreFed, CursorsInLog, durable, history, LastToReplay

\* Every step of the worker keeps the state well formed.
LEMMA TypedWorker == Typed /\ Worker => Typed'
<1> SUFFICES ASSUME Typed, Worker PROVE Typed'
  OBVIOUS
<1>0. TypeOK /\ StepsAreFed
  BY DEF Typed
<1>a. /\ db \in Database /\ synced \in Database /\ tx \in Database
      /\ queue \in Seq(Commands) /\ job \in Job /\ readModel \in ReadModel
      /\ CursorsInLog(db) /\ CursorsInLog(synced) /\ CursorsInLog(tx)
  BY <1>0 DEF TypeOK, StepsAreFed
<1>b. /\ db.log \in Seq(Entry) /\ db.receipts \in [Ids -> Receipt]
      /\ tx.log \in Seq(Entry) /\ Len(db.log) \in Nat /\ Len(tx.log) \in Nat
      /\ readModel.seq \in Nat
  BY <1>a DEF Database, ReadModel
<1>c. /\ job.todo \in Seq(Event) /\ job.events \in Seq(Nat) /\ job.next \in ReadModel
      /\ job.next.seq \in Nat /\ job.failure \in Failures
  BY <1>a DEF Job, ReadModel
<1>d. ASSUME pc \notin {"down", "boot", "idle"}
      PROVE  job.command \in Commands /\ job.command.id \in Ids
  BY <1>0, <1>d DEF StepsAreFed, Ids
<1>e. UNCHANGED job => job' \in Job
  BY <1>a
<1>1. CASE TakeCommand
  <2>1. Head(queue) \in Commands /\ Tail(queue) \in Seq(Commands)
    BY <1>1, <1>a DEF TakeCommand
  <2>2. job' \in Job /\ job'.command \in Commands
    BY <1>1, <1>a, <2>1, EmptyTypes DEF TakeCommand, Job, NoJob
  <2>3. TypeOK'
    BY <1>0, <1>1, <2>1, <2>2 DEF TakeCommand, TypeOK, Steps, durable, history
  <2>4. StepsAreFed'
    BY <1>0, <1>1, <2>2 DEF TakeCommand, StepsAreFed, CursorsInLog, durable, history
  <2> QED
    BY <2>3, <2>4 DEF Typed
<1>2. CASE AnswerFromReceipt
  <2>1. db.receipts[job.command.id] \in Receipt
    BY <1>2, <1>b, <1>d DEF AnswerFromReceipt
  <2>2. replies' \in [Ids -> SUBSET Reply]
    <3> DEFINE answer == IF db.receipts[job.command.id].status = "accepted"
                         THEN [ok |-> TRUE, seq |-> db.receipts[job.command.id].seq] ELSE Failed
    <3>1. answer \in Reply
      BY <2>1 DEF Reply, Failed, Receipt
    <3>2. Answer(job.command.id, answer) /\ pc = "receipt"
      BY <1>2 DEF AnswerFromReceipt
    <3> HIDE DEF answer
    <3> QED
      BY <1>0, <1>d, <3>1, <3>2, AnswerType DEF TypeOK
  <2>3. TypeOK'
    BY <1>0, <1>2, <2>2, EmptyTypes DEF AnswerFromReceipt, TypeOK, Steps, durable
  <2>4. StepsAreFed'
    BY <1>0, <1>2 DEF AnswerFromReceipt, StepsAreFed, CursorsInLog, durable
  <2> QED
    BY <2>3, <2>4 DEF Typed
<1>3. CASE BeginTransaction
  <2>1. PICK es \in Decide(readModel, job.command) : job' = [job EXCEPT !.todo = es]
    BY <1>3 DEF BeginTransaction
  <2>2. job.command \in Command(Ids)
    BY <1>3, <1>d, EngineAssumption DEF BeginTransaction
  <2>3. es \in Seq(Event) /\ es # <<>>
    BY <1>a, <2>2, DecideType
  <2>4. job' \in Job /\ job'.todo # <<>> /\ job'.command \in Commands
    BY <1>3, <1>a, <1>d, <2>1, <2>3 DEF BeginTransaction, Job
  <2>5. TypeOK'
    BY <1>0, <1>3, <2>4 DEF BeginTransaction, TypeOK, Steps, durable, history
  <2>6. StepsAreFed'
    BY <1>0, <1>3, <2>4 DEF BeginTransaction, StepsAreFed, CursorsInLog, durable, history
  <2> QED
    BY <2>5, <2>6 DEF Typed
<1>4. CASE AppendEvent
  <2> DEFINE e == Head(job.todo)
  <2> DEFINE seq == Len(tx.log) + 1
  <2> DEFINE entry == [id |-> job.command.id, event |-> e]
  <2> DEFINE appended == [tx EXCEPT !.log = Append(@, entry)]
  <2>1. e \in Event /\ Tail(job.todo) \in Seq(Event) /\ seq \in Nat
    BY <1>4, <1>b, <1>c DEF AppendEvent
  <2>2. tx' = ProjectAll(appended, e, seq)
    BY <1>4 DEF AppendEvent
  <2>3. job' = [job EXCEPT !.todo = Tail(@), !.events = Append(@, seq),
                           !.next = ProjectEvent(@, e, seq)]
    BY <1>4 DEF AppendEvent
  <2>4. appended \in Database
    BY <1>4, <1>a, <1>d, <2>1, AppendedType DEF AppendEvent
  <2>5. tx' \in Database /\ tx'.log = appended.log
        /\ \A q \in Projectors : tx'.cursor[q] \in {seq, appended.cursor[q]}
    BY <2>1, <2>2, <2>4, ProjectAllType
  <2>6. Len(appended.log) = seq /\ appended.cursor = tx.cursor
    BY <1>a, <1>b DEF Database
  <2>7. CursorsInLog(tx')
    <3> HIDE DEF appended, seq
    <3>1. ASSUME NEW q \in Projectors
          PROVE  tx.cursor[q] \in Nat /\ tx.cursor[q] <= Len(tx.log)
      BY <1>a DEF CursorsInLog, Database
    <3> QED
      BY <1>b, <2>5, <2>6, <3>1 DEF CursorsInLog, seq
  <2>8. ProjectEvent(job.next, e, seq) \in ReadModel
    BY <1>c, <2>1, ProjectEventType
  <2>9. Append(job.events, seq) \in Seq(Nat) /\ Append(job.events, seq) # <<>>
    BY <1>c, <2>1
  <2>10. job' \in Job /\ job'.command = job.command /\ job'.events # <<>>
    <3> HIDE DEF e, seq
    <3> QED
      BY <1>a, <2>1, <2>3, <2>8, <2>9 DEF Job
  <2>11. TypeOK'
    BY <1>0, <1>4, <2>5, <2>10 DEF AppendEvent, TypeOK, Steps, durable, history
  <2>12. StepsAreFed'
    BY <1>0, <1>4, <1>d, <2>7, <2>10 DEF AppendEvent, StepsAreFed, CursorsInLog, durable, history
  <2> QED
    BY <2>11, <2>12 DEF Typed
<1>r. ASSUME pc = "transaction"
      PROVE  WithReceipt \in Database /\ CursorsInLog(WithReceipt)
             /\ Len(WithReceipt.log) = Len(tx.log)
  <2>1. [status |-> "accepted", seq |-> Len(tx.log)] \in Receipt
    BY <1>b DEF Receipt
  <2>2. job.command.id \in Ids
    BY <1>d, <1>r
  <2> QED
    BY <1>a, <2>1, <2>2, ReceiptWrittenType DEF WithReceipt
<1>5. CASE Commit
  <2>1. db' \in Database /\ CursorsInLog(db') /\ tx' = db'
    BY <1>5, <1>r DEF Commit
  <2>2. job.events # <<>> /\ job.command \in Commands
    BY <1>0, <1>5, <1>d DEF Commit, StepsAreFed
  <2>3. TypeOK'
    BY <1>0, <1>5, <2>1 DEF Commit, TypeOK, Steps, history
  <2>4. StepsAreFed'
    BY <1>0, <1>5, <2>1, <2>2 DEF Commit, StepsAreFed, CursorsInLog, history
  <2> QED
    BY <2>3, <2>4 DEF Typed
<1>6. CASE Publish
  <2>1. published' \in Seq(Nat)
    BY <1>0, <1>6, <1>c DEF Publish, TypeOK
  <2>2. TypeOK'
    BY <1>0, <1>6, <1>c, <2>1 DEF Publish, TypeOK, Steps, durable, history
  <2>3. StepsAreFed'
    BY <1>0, <1>6 DEF Publish, StepsAreFed, CursorsInLog, durable, history
  <2> QED
    BY <2>2, <2>3 DEF Typed
<1>7. CASE ReplyAccepted
  <2>1. job.events[Len(job.events)] \in Nat
    BY <1>0, <1>7, <1>c DEF ReplyAccepted, StepsAreFed
  <2>2. replies' \in [Ids -> SUBSET Reply]
    <3> DEFINE answer == [ok |-> TRUE, seq |-> job.events[Len(job.events)]]
    <3>1. answer \in Reply
      BY <2>1 DEF Reply
    <3>2. Answer(job.command.id, answer) /\ pc = "reply"
      BY <1>7 DEF ReplyAccepted
    <3> HIDE DEF answer
    <3> QED
      BY <1>0, <1>d, <3>1, <3>2, AnswerType DEF TypeOK
  <2>3. TypeOK'
    BY <1>0, <1>7, <2>2, EmptyTypes DEF ReplyAccepted, TypeOK, Steps, durable
  <2>4. StepsAreFed'
    BY <1>0, <1>7 DEF ReplyAccepted, StepsAreFed, CursorsInLog, durable
  <2> QED
    BY <2>3, <2>4 DEF Typed
<1>f. ASSUME NEW failure \in Failures, FailWith(failure), pc \in {"receipt", "transaction"},
             db' \in Database, tx' \in Database, CursorsInLog(db'), CursorsInLog(tx')
      PROVE  Typed'
  <2>1. job' \in Job /\ job'.command \in Commands
    BY <1>0, <1>d, <1>f, FailWithType
  <2>2. TypeOK'
    BY <1>0, <1>f, <2>1 DEF FailWith, TypeOK, Steps, history
  <2>3. StepsAreFed'
    BY <1>0, <1>f, <2>1 DEF FailWith, StepsAreFed, CursorsInLog, history
  <2> QED
    BY <2>2, <2>3 DEF Typed
<1>8. CASE ReceiptReadFails
  <2>1. UNCHANGED <<db, tx>> /\ pc = "receipt" /\ FailWith("persistence")
    BY <1>8 DEF ReceiptReadFails
  <2> QED
    BY <1>a, <1>f, <2>1 DEF Failures, CursorsInLog
<1>9. CASE Refuse
  <2>1. UNCHANGED <<db, tx>> /\ pc = "receipt" /\ FailWith("invariant")
    BY <1>9 DEF Refuse
  <2> QED
    BY <1>a, <1>f, <2>1 DEF Failures, CursorsInLog
<1>10. CASE Rollback
  <2>1. UNCHANGED db /\ tx' = db /\ pc = "transaction" /\ FailWith("persistence")
    BY <1>10 DEF Rollback
  <2> QED
    BY <1>a, <1>f, <2>1 DEF Failures, CursorsInLog
<1>11. CASE CommitUnacknowledged
  <2>1. db' = WithReceipt /\ tx' = db' /\ pc = "transaction" /\ FailWith("persistence")
    BY <1>11 DEF CommitUnacknowledged
  <2> QED
    BY <1>r, <1>f, <2>1 DEF Failures
<1>12. CASE ReconcileRead
  <2>1. CASE readModel.seq < Len(db.log)
    <3> DEFINE page == PageAfter(readModel.seq)
    <3>1. /\ page \in Seq(Nat) /\ page # <<>>
          /\ readModel.seq + Len(page) <= Len(db.log)
          /\ \A i \in 1..Len(page) : page[i] = readModel.seq + i
      <4>1. PageLimit \in Nat \ {0} /\ readModel.seq <= Len(db.log)
        BY <1>b, <2>1, EngineAssumption
      <4> HIDE DEF page
      <4>2. page = PageAfter(readModel.seq)
        BY DEF page
      <4> QED
        BY <1>b, <2>1, <4>1, <4>2, PageAfterIsNext
    <3>2. job' = [job EXCEPT !.events = page] /\ pc' = "replay" /\ pc = "reconcile"
      BY <1>12, <2>1 DEF ReconcileRead
    <3> HIDE DEF page
    <3>3. job' \in Job /\ job'.command \in Commands /\ job'.events = page
      BY <1>a, <1>d, <3>1, <3>2 DEF Job
    <3>4. LastToReplay' <= Len(db.log)
      BY <3>1, <3>3, <1>b DEF LastToReplay
    <3> QED
      BY <1>12, <3>1, <3>2, <3>3, <3>4, TypedJobStep DEF ReconcileRead, Steps
  <2>2. CASE ~(readModel.seq < Len(db.log))
    <3>1. UNCHANGED job /\ pc = "reconcile" /\ pc' \in {"record", "fail"}
      BY <1>12, <2>2 DEF ReconcileRead, AfterReconcile
    <3> QED
      BY <1>12, <1>e, <1>d, <3>1, TypedJobStep DEF ReconcileRead, Steps
  <2> QED
    BY <2>1, <2>2
<1>13. CASE ReconcileReadFails
  <2>1. UNCHANGED job /\ pc = "reconcile" /\ pc' \in {"record", "fail"}
    BY <1>13 DEF ReconcileReadFails, AfterReconcile
  <2> QED
    BY <1>13, <1>e, <1>d, <2>1, TypedJobStep DEF ReconcileReadFails, Steps
<1>14. CASE ReplayEvent
  <2> DEFINE seq == job.next.seq + 1
  <2>1. pc = "replay" /\ job.next.seq < LastToReplay /\ LastToReplay <= Len(db.log)
        /\ job.events # <<>>
    BY <1>0, <1>14 DEF ReplayEvent, StepsAreFed
  <2>2. LastToReplay \in Nat
    BY <1>c, <2>1 DEF LastToReplay
  <2>3. seq \in 1..Len(db.log)
    BY <1>b, <1>c, <2>1, <2>2
  <2>4. db.log[seq].event \in Event
    <3>1. db.log[seq] \in Entry
      BY <1>b, <2>3
    <3> QED
      BY <3>1 DEF Entry
  <2>5. ProjectEvent(job.next, db.log[seq].event, seq) \in ReadModel
    BY <1>c, <2>3, <2>4, ProjectEventType
  <2>6. job' = [job EXCEPT !.next = ProjectEvent(job.next, db.log[seq].event, seq)]
    BY <1>14 DEF ReplayEvent
  <2>7. job' \in Job /\ job'.command \in Commands /\ job'.events = job.events
    <3> HIDE DEF seq
    <3> QED
      BY <1>a, <1>d, <2>1, <2>5, <2>6 DEF Job
  <2> QED
    BY <1>14, <2>1, <2>7, TypedJobStep DEF ReplayEvent, Steps, LastToReplay
<1>15. CASE ReplayDone
  <2>1. published' \in Seq(Nat)
    BY <1>0, <1>15, <1>c DEF ReplayDone, TypeOK
  <2>2. pc' \in {"record", "fail"} /\ pc = "replay"
    BY <1>15 DEF ReplayDone, AfterReconcile
  <2>3. TypeOK'
    BY <1>0, <1>15, <1>c, <2>1, <2>2 DEF ReplayDone, TypeOK, Steps, durable, history
  <2>4. StepsAreFed'
    BY <1>0, <1>15, <1>d, <2>2 DEF ReplayDone, StepsAreFed, CursorsInLog, durable, history
  <2> QED
    BY <2>3, <2>4 DEF Typed
<1>16. CASE RecordRejection
  <2>1. [status |-> "rejected", seq |-> readModel.seq] \in Receipt
    BY <1>b DEF Receipt
  <2>2. db' \in Database /\ CursorsInLog(db') /\ tx' = db'
    BY <1>16, <1>a, <1>d, <2>1, ReceiptWrittenType DEF RecordRejection
  <2>3. TypeOK'
    BY <1>0, <1>16, <2>2 DEF RecordRejection, TypeOK, Steps, history
  <2>4. StepsAreFed'
    BY <1>0, <1>16, <1>d, <2>2 DEF RecordRejection, StepsAreFed, CursorsInLog, history
  <2> QED
    BY <2>3, <2>4 DEF Typed
<1>17. CASE RecordRejectionFails
  <2>1. UNCHANGED job /\ pc = "record" /\ pc' = "fail"
    BY <1>17 DEF RecordRejectionFails
  <2> QED
    BY <1>17, <1>e, <1>d, <2>1, TypedJobStep DEF RecordRejectionFails, Steps
<1>18. CASE ReplyFailed
  <2>1. replies' \in [Ids -> SUBSET Reply]
    <3>1. Failed \in Reply
      BY DEF Reply, Failed
    <3>2. Answer(job.command.id, Failed) /\ pc = "fail"
      BY <1>18 DEF ReplyFailed
    <3> QED
      BY <1>0, <1>d, <3>1, <3>2, AnswerType DEF TypeOK
  <2>2. TypeOK'
    BY <1>0, <1>18, <2>1, EmptyTypes DEF ReplyFailed, TypeOK, Steps, durable
  <2>3. StepsAreFed'
    BY <1>0, <1>18 DEF ReplyFailed, StepsAreFed, CursorsInLog, durable
  <2> QED
    BY <2>2, <2>3 DEF Typed
<1> QED
  BY <1>1, <1>2, <1>3, <1>4, <1>5, <1>6, <1>7, <1>8, <1>9, <1>10, <1>11, <1>12, <1>13,
     <1>14, <1>15, <1>16, <1>17, <1>18 DEF Worker

\* A process that stops leaves a well-formed state, with the database as it was.
LEMMA TypedStop ==
  ASSUME Typed, NEW contents \in Database, CursorsInLog(contents), Stop(contents)
  PROVE  Typed'
<1>0. TypeOK /\ StepsAreFed
  BY DEF Typed
<1>1. Values(published) \subseteq Nat
  BY <1>0 DEF TypeOK, Values
<1>2. retired' \subseteq Nat
  BY <1>0, <1>1 DEF Stop, TypeOK
<1>3. TypeOK'
  BY <1>0, <1>2, EmptyTypes DEF Stop, TypeOK, Steps
<1>4. StepsAreFed'
  BY <1>0 DEF Stop, StepsAreFed, CursorsInLog
<1> QED
  BY <1>3, <1>4 DEF Typed

\* Every step of a start keeps the state well formed.
LEMMA TypedBoot == Typed /\ Boot => Typed'
<1> SUFFICES ASSUME Typed, Boot PROVE Typed'
  OBVIOUS
<1>0. TypeOK /\ StepsAreFed
  BY DEF Typed
<1>a. /\ db \in Database /\ synced \in Database /\ tx \in Database
      /\ CursorsInLog(db) /\ CursorsInLog(synced) /\ CursorsInLog(tx)
      /\ target \in [Projectors -> Nat]
  BY <1>0 DEF TypeOK, StepsAreFed
<1>b. db.log \in Seq(Entry) /\ Len(db.log) \in Nat /\ db.cursor \in [Projectors -> Nat]
      /\ db.tables \in Tables
  BY <1>a DEF Database
<1>1. CASE Start
  <2>1. ASSUME NEW q \in Projectors
        PROVE  /\ db.cursor[q] \in Nat /\ db.cursor[q] <= Len(db.log)
               /\ Len(PageAfter(db.cursor[q])) \in Nat
               /\ db.cursor[q] + Len(PageAfter(db.cursor[q])) <= Len(db.log)
    <3>1. db.cursor[q] \in Nat /\ db.cursor[q] <= Len(db.log)
      BY <1>a, <1>b DEF CursorsInLog
    <3>2. PageLimit \in Nat \ {0}
      BY EngineAssumption
    <3>3. PageAfter(db.cursor[q]) \in Seq(Nat)
          /\ db.cursor[q] + Len(PageAfter(db.cursor[q])) <= Len(db.log)
      BY <1>b, <3>1, <3>2, PageAfterIsNext
    <3> QED
      BY <3>1, <3>3
  <2>2. /\ target' \in [Projectors -> Nat]
        /\ \A q \in Projectors : target'[q] <= Len(db.log)
    BY <1>1, <2>1 DEF Start
  <2>3. TypeOK'
    BY <1>0, <1>1, <2>2 DEF Start, TypeOK, Steps, durable, history
  <2>4. StepsAreFed'
    BY <1>0, <1>1, <2>2 DEF Start, StepsAreFed, CursorsInLog, durable, history
  <2> QED
    BY <2>3, <2>4 DEF Typed
<1>2. CASE Bootstrap
  <2>1. PICK i \in 1..Len(ProjectorOrder) :
          /\ db.cursor[ProjectorOrder[i]] < target[ProjectorOrder[i]]
          /\ db' = [db EXCEPT
               !.tables = Apply(ProjectorOrder[i], @,
                                db.log[db.cursor[ProjectorOrder[i]] + 1].event),
               !.cursor[ProjectorOrder[i]] = db.cursor[ProjectorOrder[i]] + 1]
    BY <1>2 DEF Bootstrap
  <2> DEFINE q == ProjectorOrder[i]
  <2> DEFINE seq == db.cursor[q] + 1
  <2>2. q \in Projectors
    BY DEF Projectors
  <2>3. pc = "boot" /\ tx' = db' /\ pc' = "boot"
    BY <1>2 DEF Bootstrap
  <2>4. target[q] <= Len(db.log) /\ target[q] \in Nat /\ db.cursor[q] \in Nat
    BY <1>0, <1>a, <1>b, <2>2, <2>3 DEF StepsAreFed
  <2> HIDE DEF q
  <2>5. seq \in Nat /\ seq \in 1..Len(db.log)
    BY <1>b, <2>1, <2>4 DEF q
  <2>6. db.log[seq] \in Entry
    BY <1>b, <2>5
  <2>7. Apply(q, db.tables, db.log[seq].event) \in Tables
    BY <1>b, <2>2, <2>6, ApplyType DEF Entry
  <2> DEFINE tables == Apply(q, db.tables, db.log[seq].event)
  <2> DEFINE cursor == [db.cursor EXCEPT ![q] = seq]
  <2>8. db' = [db EXCEPT !.tables = tables, !.cursor = cursor]
    BY <1>a, <2>1 DEF q, Database
  <2>9. cursor \in [Projectors -> Nat] /\ \A r \in Projectors : cursor[r] <= Len(db.log)
    BY <1>a, <1>b, <2>2, <2>5 DEF CursorsInLog
  <2> HIDE DEF tables, cursor
  <2>10. db' \in Database /\ db'.cursor = cursor /\ db'.log = db.log
    BY <1>a, <2>7, <2>8, <2>9 DEF Database, tables
  <2>11. TypeOK'
    BY <1>0, <1>2, <2>3, <2>10 DEF Bootstrap, TypeOK, Steps, history
  <2>12. CursorsInLog(db') /\ CursorsInLog(tx') /\ Len(db'.log) = Len(db.log)
    BY <2>3, <2>9, <2>10 DEF CursorsInLog
  <2>13. StepsAreFed'
    BY <1>0, <1>2, <2>3, <2>12 DEF Bootstrap, StepsAreFed, CursorsInLog, history
  <2> QED
    BY <2>11, <2>13 DEF Typed
<1>3. CASE Ready
  <2>1. Snapshot(db.tables, db.cursor) \in ReadModel /\ StartSequence \in Nat
    BY <1>a, <1>b, SnapshotType, StartSequenceType
  <2>2. readModel' \in ReadModel
    BY <1>3, <2>1 DEF Ready, ReadModel
  <2>3. TypeOK'
    BY <1>0, <1>3, <2>2 DEF Ready, TypeOK, Steps, durable, history
  <2>4. StepsAreFed'
    BY <1>0, <1>3 DEF Ready, StepsAreFed, CursorsInLog, durable, history
  <2> QED
    BY <2>3, <2>4 DEF Typed
<1> QED
  BY <1>1, <1>2, <1>3 DEF Boot

\* Every step, stuttering included, keeps the state well formed.
LEMMA TypedNext == Typed /\ [Next]_vars => Typed'
<1> SUFFICES ASSUME Typed, [Next]_vars PROVE Typed'
  OBVIOUS
<1>0. TypeOK /\ StepsAreFed
  BY DEF Typed
<1>1. CASE \E c \in Commands : Dispatch(c)
  <2>1. PICK c \in Commands : Dispatch(c)
    BY <1>1
  <2>2. queue' \in Seq(Commands) /\ dispatches' \in 0..MaxDispatches
    BY <1>0, <2>1, EngineAssumption DEF Dispatch, TypeOK
  <2>3. TypeOK'
    BY <1>0, <2>1, <2>2 DEF Dispatch, TypeOK, durable
  <2>4. StepsAreFed'
    BY <1>0, <2>1 DEF Dispatch, StepsAreFed, CursorsInLog, durable, LastToReplay
  <2> QED
    BY <2>3, <2>4 DEF Typed
<1>2. CASE Worker
  BY <1>2, TypedWorker
<1>3. CASE Boot
  BY <1>3, TypedBoot
<1>4. CASE Crash
  BY <1>0, <1>4, TypedStop DEF Crash, TypeOK, StepsAreFed
<1>5. CASE PowerLoss
  BY <1>0, <1>5, TypedStop DEF PowerLoss, TypeOK, StepsAreFed
<1>6. CASE WalCheckpoint
  <2>1. TypeOK'
    BY <1>0, <1>6 DEF WalCheckpoint, TypeOK, volatile, history
  <2>2. StepsAreFed'
    BY <1>0, <1>6 DEF WalCheckpoint, StepsAreFed, CursorsInLog, volatile, history, LastToReplay
  <2> QED
    BY <2>1, <2>2 DEF Typed
<1>7. CASE Upgrade
  <2>1. TypeOK'
    BY <1>0, <1>7 DEF Upgrade, TypeOK, volatile, history
  <2>2. StepsAreFed'
    BY <1>0, <1>7 DEF Upgrade, StepsAreFed, CursorsInLog, volatile, history, LastToReplay
  <2> QED
    BY <2>1, <2>2 DEF Typed
<1>8. CASE UNCHANGED vars
  <2>1. TypeOK'
    BY <1>0, <1>8 DEF vars, TypeOK
  <2>2. StepsAreFed'
    BY <1>0, <1>8 DEF vars, StepsAreFed, CursorsInLog, LastToReplay
  <2> QED
    BY <2>1, <2>2 DEF Typed
<1> QED
  BY <1>1, <1>2, <1>3, <1>4, <1>5, <1>6, <1>7, <1>8 DEF Next

\* Whatever commands are sent and whatever fails, the state is well formed, no
\* cursor runs ahead of the log, and every step finds what it reads.
THEOREM TypeCorrect == Spec => []TypeOK
<1>1. Spec => []Typed
  BY TypedInit, TypedNext, PTL DEF Spec
<1>2. Typed => TypeOK
  BY DEF Typed
<1> QED
  BY <1>1, <1>2, PTL

-----------------------------------------------------------------------------
(* Every command takes effect at most once, whole, as its receipt says *)

Consistent == Typed /\ CommitsAreWhole

\* Whether a database is whole depends on its log and receipts alone.
LEMMA WholeByLogAndReceipts ==
  ASSUME NEW d, NEW e, d.log = e.log, d.receipts = e.receipts, Whole(d)
  PROVE  Whole(e)
BY DEF Whole, EntriesOf

\* Committing a transaction that extends a whole database by entries of one
\* command without a receipt, and writes its receipt, leaves a whole database.
LEMMA WholeAfterCommit ==
  ASSUME Consistent, pc = "transaction", job.todo = <<>>
  PROVE  /\ Whole(WithReceipt)
         /\ WithReceipt.receipts[job.command.id] = [status |-> "accepted", seq |-> LastToReplay]
<1> DEFINE cid == job.command.id
<1> DEFINE d == WithReceipt
<1>1. /\ db \in Database /\ tx \in Database /\ job \in Job /\ cid \in Ids
      /\ job.events # <<>>
  BY DEF Consistent, Typed, TypeOK, StepsAreFed, Ids
<1>2. /\ Len(db.log) \in Nat /\ Len(tx.log) \in Nat /\ Len(job.events) \in Nat \ {0}
      /\ db.log \in Seq(Entry) /\ tx.log \in Seq(Entry)
      /\ db.receipts \in [Ids -> Receipt] /\ tx.receipts \in [Ids -> Receipt]
  BY <1>1 DEF Database, Job
<1>3. /\ db.receipts[cid].status = "none" /\ tx.receipts = db.receipts
      /\ Len(tx.log) = Len(db.log) + Len(job.events)
      /\ \A i \in 1..Len(db.log) : tx.log[i] = db.log[i]
      /\ \A i \in Len(db.log) + 1..Len(tx.log) : tx.log[i].id = cid
      /\ LastToReplay = Len(tx.log)
  BY <1>1 DEF Consistent, CommitsAreWhole, TransactionExtendsLog
<1>n. Len(db.log) \in Nat /\ Len(tx.log) \in Nat /\ Len(db.log) < Len(tx.log)
  <2> DEFINE n == Len(db.log)
  <2> DEFINE k == Len(tx.log)
  <2> DEFINE added == Len(job.events)
  <2>1. n \in Nat /\ k \in Nat /\ added \in Nat \ {0} /\ k = n + added
    BY <1>2, <1>3
  <2> HIDE DEF n, k, added
  <2>2. n < k
    BY <2>1
  <2> QED
    BY <2>1, <2>2 DEF n, k
<1>4. Whole(db)
  BY DEF Consistent, CommitsAreWhole
<1>5. /\ d.log = tx.log
      /\ d.receipts = [db.receipts EXCEPT ![cid] = [status |-> "accepted", seq |-> Len(tx.log)]]
  BY <1>1, <1>3 DEF WithReceipt, Database
<1> HIDE DEF d, cid
<1>6. ASSUME NEW id \in Ids, id # cid
      PROVE  EntriesOf(d, id) = EntriesOf(db, id) /\ d.receipts[id] = db.receipts[id]
  <2>1. d.receipts[id] = db.receipts[id]
    BY <1>2, <1>5, <1>6
  <2>2. ASSUME NEW i \in 1..Len(tx.log), i \notin 1..Len(db.log)
        PROVE  d.log[i].id # id
    <3>1. i \in Len(db.log) + 1..Len(tx.log)
      BY <1>n, <2>2
    <3> QED
      BY <1>3, <1>5, <1>6, <3>1
  <2>3. \A i \in 1..Len(db.log) : i \in 1..Len(tx.log) /\ d.log[i] = db.log[i]
    <3>1. \A i \in 1..Len(db.log) : i \in 1..Len(tx.log)
      BY <1>n
    <3> QED
      BY <1>3, <1>5, <3>1
  <2> QED
    BY <1>5, <2>1, <2>2, <2>3 DEF EntriesOf
<1>7. EntriesOf(db, cid) = {}
  BY <1>1, <1>3, <1>4 DEF Whole
<1>8. EntriesOf(d, cid) = Len(db.log) + 1..Len(tx.log)
  <2>1. ASSUME NEW i \in 1..Len(tx.log)
        PROVE  d.log[i].id = cid <=> i \in Len(db.log) + 1..Len(tx.log)
    <3>1. CASE i \in 1..Len(db.log)
      BY <1>2, <1>3, <1>5, <1>7, <3>1 DEF EntriesOf
    <3>2. CASE i \in Len(db.log) + 1..Len(tx.log)
      BY <1>3, <1>5, <3>2
    <3> QED
      BY <1>2, <3>1, <3>2
  <2>2. Len(db.log) + 1..Len(tx.log) \subseteq 1..Len(tx.log)
    BY <1>2
  <2> QED
    BY <1>5, <2>1, <2>2 DEF EntriesOf
<1>9. d.receipts[cid] = [status |-> "accepted", seq |-> Len(tx.log)]
  BY <1>1, <1>2, <1>5
<1>10. Len(db.log) + 1 \in 1..Len(tx.log)
  BY <1>n
<1>11. Whole(d)
  <2>1. ASSUME NEW id \in Ids
        PROVE  IF d.receipts[id].status = "accepted"
               THEN \E first \in 1..d.receipts[id].seq :
                      EntriesOf(d, id) = first..d.receipts[id].seq
               ELSE EntriesOf(d, id) = {}
    <3>1. CASE id = cid
      BY <1>8, <1>9, <1>10, <3>1
    <3>2. CASE id # cid
      BY <1>4, <1>6, <3>2 DEF Whole
    <3> QED
      BY <3>1, <3>2
  <2> QED
    BY <2>1 DEF Whole
<1> QED
  BY <1>3, <1>9, <1>11 DEF d, cid

\* A step that changes neither database nor the transaction, and goes where no
\* more is asked than before, leaves the commits whole.
LEMMA WholeQuietStep ==
  ASSUME CommitsAreWhole,
         db'.log = db.log, db'.receipts = db.receipts,
         synced' = synced \/ synced' = db,
         pc' \notin {"receipt", "transaction", "publish", "reply", "record"},
         pc' \in {"reconcile", "replay"} /\ job'.failure = "invariant" =>
           db.receipts[job'.command.id].status = "none"
  PROVE  CommitsAreWhole'
<1>1. Whole(db) /\ Whole(synced)
  BY DEF CommitsAreWhole
<1>2. Whole(db') /\ Whole(synced')
  BY <1>1, WholeByLogAndReceipts
<1> QED
  BY <1>2 DEF CommitsAreWhole, Whole, EntriesOf, TakenIsFresh, TransactionExtendsLog,
     RefusedHasNoReceipt, AnswerIsReceipt

\* The initial database is whole.
LEMMA WholeInit == Init => CommitsAreWhole
<1> SUFFICES ASSUME Init PROVE CommitsAreWhole
  OBVIOUS
<1>1. Whole(EmptyDatabase)
  BY DEF Whole, EntriesOf, EmptyDatabase, NoReceipt
<1> QED
  BY <1>1 DEF Init, CommitsAreWhole, TakenIsFresh, TransactionExtendsLog, RefusedHasNoReceipt,
     AnswerIsReceipt

\* Every step of the worker keeps the commits whole.
LEMMA WholeWorker == Consistent /\ Worker => CommitsAreWhole'
<1> SUFFICES ASSUME Consistent, Worker PROVE CommitsAreWhole'
  OBVIOUS
<1>0. TypeOK /\ StepsAreFed /\ CommitsAreWhole
  BY DEF Consistent, Typed
<1>a. /\ db \in Database /\ tx \in Database /\ job \in Job
      /\ Whole(db) /\ Whole(synced)
  BY <1>0 DEF TypeOK, CommitsAreWhole
<1>b. /\ db.receipts \in [Ids -> Receipt] /\ Len(db.log) \in Nat /\ Len(tx.log) \in Nat
      /\ tx.log \in Seq(Entry) /\ job.events \in Seq(Nat)
  BY <1>a DEF Database, Job
<1>s. ASSUME UNCHANGED <<db, synced>>
      PROVE  Whole(db)' /\ Whole(synced)'
  BY <1>a, <1>s DEF Whole, EntriesOf
<1>1. CASE TakeCommand
  <2>1. UNCHANGED <<db, synced>> /\ pc' = "receipt" /\ job'.events = <<>>
    BY <1>1 DEF TakeCommand, durable, NoJob
  <2> QED
    BY <1>s, <2>1 DEF CommitsAreWhole, TakenIsFresh, TransactionExtendsLog,
       RefusedHasNoReceipt, AnswerIsReceipt
<1>2. CASE AnswerFromReceipt
  BY <1>0, <1>2, WholeQuietStep DEF AnswerFromReceipt, durable
<1>3. CASE BeginTransaction
  <2>1. /\ UNCHANGED <<db, synced>> /\ pc' = "transaction" /\ tx' = db
        /\ db.receipts[job.command.id].status = "none"
    BY <1>3 DEF BeginTransaction, durable
  <2>2. PICK es \in Decide(readModel, job.command) : job' = [job EXCEPT !.todo = es]
    BY <1>3 DEF BeginTransaction
  <2>3. job.events = <<>>
    BY <1>0, <1>3 DEF BeginTransaction, CommitsAreWhole, TakenIsFresh
  <2>4. job'.events = <<>> /\ job'.command = job.command
    BY <1>a, <2>2, <2>3 DEF Job
  <2>5. TransactionExtendsLog'
    BY <1>b, <2>1, <2>4 DEF TransactionExtendsLog
  <2> QED
    BY <1>s, <2>1, <2>5 DEF CommitsAreWhole, TakenIsFresh, RefusedHasNoReceipt, AnswerIsReceipt
<1>4. CASE AppendEvent
  <2> DEFINE e == Head(job.todo)
  <2> DEFINE seq == Len(tx.log) + 1
  <2> DEFINE entry == [id |-> job.command.id, event |-> e]
  <2> DEFINE appended == [tx EXCEPT !.log = Append(@, entry)]
  <2>1. UNCHANGED <<db, synced, pc>> /\ pc = "transaction" /\ job.todo # <<>>
        /\ job.command.id \in Ids
    BY <1>0, <1>4 DEF AppendEvent, durable, StepsAreFed, Ids
  <2>2. e \in Event /\ seq \in Nat
    BY <1>a, <1>b, <2>1 DEF Job
  <2>3. appended \in Database
    BY <1>a, <2>1, <2>2, AppendedType
  <2>4. tx' = ProjectAll(appended, e, seq)
    BY <1>4 DEF AppendEvent
  <2>5. tx'.log = Append(tx.log, entry) /\ tx'.receipts = tx.receipts
    <3>1. tx'.log = appended.log /\ tx'.receipts = appended.receipts
      BY <2>2, <2>3, <2>4, ProjectAllType
    <3> QED
      BY <1>a, <3>1 DEF Database
  <2>6. job' = [job EXCEPT !.todo = Tail(@), !.events = Append(@, seq),
                           !.next = ProjectEvent(@, e, seq)]
    BY <1>4 DEF AppendEvent
  <2>7. job'.events = Append(job.events, seq) /\ job'.command = job.command
    BY <1>a, <2>6 DEF Job
  <2>8. /\ db.receipts[job.command.id].status = "none"
        /\ tx.receipts = db.receipts
        /\ Len(tx.log) = Len(db.log) + Len(job.events)
        /\ \A i \in 1..Len(db.log) : tx.log[i] = db.log[i]
        /\ \A i \in Len(db.log) + 1..Len(tx.log) : tx.log[i].id = job.command.id
    BY <1>0, <2>1 DEF CommitsAreWhole, TransactionExtendsLog
  <2>9. /\ Len(tx'.log) = seq /\ tx'.log[seq].id = job.command.id
        /\ \A i \in 1..Len(tx.log) : tx'.log[i] = tx.log[i]
    <3>1. entry.id = job.command.id
      OBVIOUS
    <3> HIDE DEF entry
    <3> QED
      BY <1>b, <2>5, <3>1
  <2>10. /\ Len(job'.events) = Len(job.events) + 1
         /\ LastToReplay' = seq
    BY <1>b, <2>2, <2>7 DEF LastToReplay
  <2>11. Len(job.events) \in Nat
    BY <1>b
  <2>12. TransactionExtendsLog'
    <3> HIDE DEF seq, e, entry
    <3> DEFINE n == Len(db.log)
    <3> DEFINE k == Len(tx.log)
    <3> DEFINE added == Len(job.events)
    <3>a. /\ n \in Nat /\ k \in Nat /\ added \in Nat /\ k = n + added /\ seq = k + 1
          /\ Len(tx'.log) = seq /\ Len(job'.events) = added + 1
      BY <1>b, <2>8, <2>9, <2>10, <2>11 DEF seq
    <3> HIDE DEF n, k, added
    <3>c. n <= k
      BY <3>a
    <3>1. Len(tx'.log) = n + Len(job'.events)
      BY <3>a
    <3>2. \A i \in 1..Len(db.log) : tx'.log[i] = db.log[i]
      <4>1. \A i \in 1..Len(db.log) : i \in 1..Len(tx.log)
        BY <3>a, <3>c DEF n, k
      <4> QED
        BY <2>8, <2>9, <4>1
    <3>3. \A i \in Len(db.log) + 1..Len(tx'.log) : tx'.log[i].id = job.command.id
      <4>1. ASSUME NEW i \in Len(db.log) + 1..Len(tx'.log)
            PROVE  tx'.log[i].id = job.command.id
        <5>1. CASE i = seq
          BY <2>9, <5>1
        <5>2. CASE i # seq
          <6>0. i \in n + 1..seq
            BY <3>a, <4>1 DEF n
          <6>1. i \in n + 1..k /\ i \in 1..k
            BY <3>a, <5>2, <6>0
          <6>2. i \in Len(db.log) + 1..Len(tx.log) /\ i \in 1..Len(tx.log)
            BY <6>1 DEF n, k
          <6> QED
            BY <2>8, <2>9, <6>2
        <5> QED
          BY <5>1, <5>2
      <4> QED
        BY <4>1
    <3> QED
      BY <2>1, <2>5, <2>7, <2>8, <2>9, <2>10, <3>1, <3>2, <3>3 DEF TransactionExtendsLog, n
  <2> QED
    BY <1>s, <2>1, <2>12 DEF CommitsAreWhole, TakenIsFresh, RefusedHasNoReceipt, AnswerIsReceipt
<1>5. CASE Commit
  <2>1. /\ pc = "transaction" /\ job.todo = <<>> /\ db' = WithReceipt
        /\ pc' = "publish" /\ UNCHANGED <<synced, job>>
    BY <1>5 DEF Commit
  <2>2. Whole(db') /\ db'.receipts[job.command.id] = [status |-> "accepted", seq |-> LastToReplay]
    BY <2>1, WholeAfterCommit
  <2>3. Whole(synced')
    BY <1>a, <2>1
  <2> QED
    BY <2>1, <2>2, <2>3 DEF CommitsAreWhole, Whole, EntriesOf, TakenIsFresh,
       TransactionExtendsLog, RefusedHasNoReceipt, AnswerIsReceipt, LastToReplay
<1>6. CASE Publish
  <2>1. UNCHANGED <<db, synced, job>> /\ pc = "publish" /\ pc' = "reply"
    BY <1>6 DEF Publish, durable
  <2> QED
    BY <1>0, <1>s, <2>1 DEF CommitsAreWhole, TakenIsFresh, TransactionExtendsLog,
       RefusedHasNoReceipt, AnswerIsReceipt, LastToReplay
<1>7. CASE ReplyAccepted
  BY <1>0, <1>7, WholeQuietStep DEF ReplyAccepted, durable
<1>f. ASSUME NEW failure \in Failures, FailWith(failure), pc \in {"receipt", "transaction"}
      PROVE  /\ job'.command = job.command /\ job'.failure = failure
             /\ pc' = "reconcile" /\ synced' = synced
  BY <1>0, <1>f, FailWithType DEF FailWith
<1>8. CASE ReceiptReadFails
  <2>1. FailWith("persistence") /\ UNCHANGED db /\ pc = "receipt"
    BY <1>8 DEF ReceiptReadFails
  <2> QED
    BY <1>0, <1>f, <2>1, WholeQuietStep DEF Failures
<1>9. CASE Refuse
  <2>1. FailWith("invariant") /\ UNCHANGED db /\ pc = "receipt"
        /\ db.receipts[job.command.id].status = "none"
    BY <1>9 DEF Refuse
  <2> QED
    BY <1>0, <1>f, <2>1, WholeQuietStep DEF Failures
<1>10. CASE Rollback
  <2>1. FailWith("persistence") /\ UNCHANGED db /\ pc = "transaction"
    BY <1>10 DEF Rollback
  <2> QED
    BY <1>0, <1>f, <2>1, WholeQuietStep DEF Failures
<1>11. CASE CommitUnacknowledged
  <2>1. /\ FailWith("persistence") /\ pc = "transaction" /\ job.todo = <<>>
        /\ db' = WithReceipt
    BY <1>11 DEF CommitUnacknowledged
  <2>2. Whole(db')
    BY <2>1, WholeAfterCommit
  <2>3. job'.failure = "persistence" /\ pc' = "reconcile" /\ synced' = synced
    BY <1>f, <2>1 DEF Failures
  <2> QED
    BY <1>a, <2>2, <2>3 DEF CommitsAreWhole, Whole, EntriesOf, TakenIsFresh,
       TransactionExtendsLog, RefusedHasNoReceipt, AnswerIsReceipt
<1>r. ASSUME UNCHANGED <<db, synced>>, pc \in {"reconcile", "replay"},
             job'.command = job.command, job'.failure = job.failure,
             pc' \in {"reconcile", "replay", AfterReconcile}
      PROVE  CommitsAreWhole'
  BY <1>0, <1>r, <1>s DEF CommitsAreWhole, TakenIsFresh, TransactionExtendsLog,
     RefusedHasNoReceipt, AnswerIsReceipt, AfterReconcile
<1>12. CASE ReconcileRead
  BY <1>12, <1>a, <1>r DEF ReconcileRead, durable, Job
<1>13. CASE ReconcileReadFails
  BY <1>13, <1>r DEF ReconcileReadFails, durable
<1>14. CASE ReplayEvent
  <2>1. job'.command = job.command /\ job'.failure = job.failure
    BY <1>14, <1>a DEF ReplayEvent, Job
  <2> QED
    BY <1>14, <1>r, <2>1 DEF ReplayEvent, durable
<1>15. CASE ReplayDone
  BY <1>15, <1>r DEF ReplayDone, durable
<1>16. CASE RecordRejection
  <2> DEFINE cid == job.command.id
  <2> DEFINE r == [status |-> "rejected", seq |-> readModel.seq]
  <2>1. /\ pc = "record" /\ db' = [db EXCEPT !.receipts[cid] = r]
        /\ pc' = "fail" /\ UNCHANGED synced
    BY <1>16 DEF RecordRejection
  <2>2. db.receipts[cid].status = "none" /\ cid \in Ids
    BY <1>0, <2>1 DEF CommitsAreWhole, RefusedHasNoReceipt, StepsAreFed, Ids
  <2>3. /\ db'.log = db.log
        /\ \A id \in Ids : db'.receipts[id] = IF id = cid THEN r ELSE db.receipts[id]
    BY <1>a, <1>b, <2>1 DEF Database
  <2>4. r.status = "rejected"
    OBVIOUS
  <2> HIDE DEF r, cid
  <2>5. ASSUME NEW id \in Ids
        PROVE  IF db'.receipts[id].status = "accepted"
               THEN \E first \in 1..db'.receipts[id].seq :
                      EntriesOf(db', id) = first..db'.receipts[id].seq
               ELSE EntriesOf(db', id) = {}
    <3>1. EntriesOf(db', id) = EntriesOf(db, id)
      BY <2>3 DEF EntriesOf
    <3>2. CASE id = cid
      BY <1>a, <2>2, <2>3, <2>4, <3>1, <3>2 DEF Whole
    <3>3. CASE id # cid
      BY <1>a, <2>3, <3>1, <3>3 DEF Whole
    <3> QED
      BY <3>2, <3>3
  <2>6. Whole(db')
    BY <2>5 DEF Whole
  <2> QED
    BY <1>a, <2>1, <2>6 DEF CommitsAreWhole, Whole, EntriesOf, TakenIsFresh,
       TransactionExtendsLog, RefusedHasNoReceipt, AnswerIsReceipt
<1>17. CASE RecordRejectionFails
  BY <1>0, <1>17, WholeQuietStep DEF RecordRejectionFails, durable
<1>18. CASE ReplyFailed
  BY <1>0, <1>18, WholeQuietStep DEF ReplyFailed, durable
<1> QED
  BY <1>1, <1>2, <1>3, <1>4, <1>5, <1>6, <1>7, <1>8, <1>9, <1>10, <1>11, <1>12, <1>13,
     <1>14, <1>15, <1>16, <1>17, <1>18 DEF Worker

\* Every step keeps the commits whole.
LEMMA WholeNext == Consistent /\ [Next]_vars => CommitsAreWhole'
<1> SUFFICES ASSUME Consistent, [Next]_vars PROVE CommitsAreWhole'
  OBVIOUS
<1>0. TypeOK /\ CommitsAreWhole /\ Whole(db) /\ Whole(synced)
  BY DEF Consistent, Typed, CommitsAreWhole
<1>e. ASSUME UNCHANGED <<db, tx, pc, job>>, synced' = synced \/ synced' = db
      PROVE  CommitsAreWhole'
  <2>1. Whole(synced')
    BY <1>0, <1>e
  <2>2. (Whole(db) /\ TakenIsFresh /\ TransactionExtendsLog /\ RefusedHasNoReceipt
          /\ AnswerIsReceipt)'
    <3>1. TakenIsFresh /\ TransactionExtendsLog /\ RefusedHasNoReceipt /\ AnswerIsReceipt
      BY <1>0 DEF CommitsAreWhole
    <3>2. Whole(db)'
      BY <1>0, <1>e DEF Whole, EntriesOf
    <3>3. TakenIsFresh' /\ RefusedHasNoReceipt' /\ AnswerIsReceipt'
      BY <1>e, <3>1 DEF TakenIsFresh, RefusedHasNoReceipt, AnswerIsReceipt, LastToReplay
    <3>4. TransactionExtendsLog'
      BY <1>e, <3>1 DEF TransactionExtendsLog, LastToReplay
    <3> QED
      BY <3>2, <3>3, <3>4
  <2> QED
    BY <2>1, <2>2 DEF CommitsAreWhole, Whole, EntriesOf
<1>1. CASE \E c \in Commands : Dispatch(c)
  BY <1>1, <1>e DEF Dispatch, durable
<1>2. CASE Worker
  BY <1>2, WholeWorker
<1>3. CASE Start
  BY <1>0, <1>3, WholeQuietStep DEF Start, durable
<1>4. CASE Bootstrap
  <2>1. db'.log = db.log /\ db'.receipts = db.receipts
    BY <1>0, <1>4 DEF Bootstrap, TypeOK, Database
  <2> QED
    BY <1>0, <1>4, <2>1, WholeQuietStep DEF Bootstrap
<1>5. CASE Ready
  BY <1>0, <1>5, WholeQuietStep DEF Ready, durable
<1>6. CASE Crash
  BY <1>0, <1>6, WholeQuietStep DEF Crash, Stop
<1>7. CASE PowerLoss
  <2>1. db' = synced /\ synced' = synced /\ pc' = "down"
    BY <1>7 DEF PowerLoss, Stop
  <2> QED
    BY <1>0, <2>1 DEF CommitsAreWhole, Whole, EntriesOf, TakenIsFresh, TransactionExtendsLog,
       RefusedHasNoReceipt, AnswerIsReceipt
<1>8. CASE WalCheckpoint
  BY <1>8, <1>e DEF WalCheckpoint, volatile
<1>9. CASE Upgrade
  BY <1>9, <1>e DEF Upgrade, volatile
<1>10. CASE UNCHANGED vars
  BY <1>10, <1>e DEF vars
<1> QED
  BY <1>1, <1>2, <1>3, <1>4, <1>5, <1>6, <1>7, <1>8, <1>9, <1>10 DEF Next, Boot

\* The invariant holds in every reachable state.
LEMMA AlwaysConsistent == Spec => []Consistent
<1>1. Init => Consistent
  BY TypedInit, WholeInit DEF Consistent
<1>2. Consistent /\ [Next]_vars => Consistent'
  <2>1. Consistent /\ [Next]_vars => Typed'
    BY TypedNext DEF Consistent
  <2> QED
    BY <2>1, WholeNext DEF Consistent
<1> QED
  BY <1>1, <1>2, PTL DEF Spec

\* A command takes effect at most once, as a whole, exactly when its receipt says
\* so, whatever is retried, fails, crashes or loses power.
THEOREM CommandsTakeEffectOnce == Spec => []ExactlyOnce
<1>1. Consistent => ExactlyOnce
  BY DEF Consistent, CommitsAreWhole, ExactlyOnce
<1> QED
  BY <1>1, AlwaysConsistent, PTL

-----------------------------------------------------------------------------
(* Receipts are final and answers stay true, unless power is lost *)

KeepsReceipts ==
  \A id \in Ids : db.receipts[id].status # "none" => db'.receipts[id] = db.receipts[id]

\* Writing the receipt of a command that has none keeps the other receipts.
LEMMA WrittenOverNone ==
  ASSUME Consistent, NEW id \in Ids, db.receipts[id].status = "none", NEW r,
         db'.receipts = [db.receipts EXCEPT ![id] = r]
  PROVE  KeepsReceipts
<1>1. db.receipts \in [Ids -> Receipt]
  BY DEF Consistent, Typed, TypeOK, Database
<1> QED
  BY <1>1 DEF KeepsReceipts

\* A commit writes one receipt, of a command that had none.
LEMMA CommitKeepsReceipts ==
  ASSUME Consistent, pc = "transaction", db' = WithReceipt
  PROVE  KeepsReceipts
<1>1. /\ db.receipts[job.command.id].status = "none" /\ tx.receipts = db.receipts
      /\ job.command.id \in Ids /\ tx \in Database
  BY DEF Consistent, Typed, TypeOK, StepsAreFed, CommitsAreWhole, TransactionExtendsLog, Ids
<1>2. db'.receipts = [db.receipts EXCEPT ![job.command.id] =
                        [status |-> "accepted", seq |-> Len(tx.log)]]
  BY <1>1 DEF WithReceipt, Database
<1> QED
  BY <1>1, <1>2, WrittenOverNone

\* No step changes a receipt that was written.
LEMMA ReceiptsKept ==
  ASSUME "powerLoss" \notin Faults, Consistent, [Next]_vars
  PROVE  KeepsReceipts
<1>0. job \in Job /\ db \in Database
  BY DEF Consistent, Typed, TypeOK
<1>1. CASE Commit
  BY <1>1, CommitKeepsReceipts DEF Commit
<1>2. CASE CommitUnacknowledged
  BY <1>2, CommitKeepsReceipts DEF CommitUnacknowledged
<1>3. CASE RecordRejection
  <2>1. /\ pc = "record"
        /\ db' = [db EXCEPT !.receipts[job.command.id] =
                    [status |-> "rejected", seq |-> readModel.seq]]
    BY <1>3 DEF RecordRejection
  <2>2. db.receipts[job.command.id].status = "none" /\ job.command.id \in Ids
    BY <2>1 DEF Consistent, Typed, StepsAreFed, CommitsAreWhole, RefusedHasNoReceipt, Ids
  <2>3. db'.receipts = [db.receipts EXCEPT ![job.command.id] =
                          [status |-> "rejected", seq |-> readModel.seq]]
    BY <1>0, <2>1 DEF Database
  <2> QED
    BY <2>2, <2>3, WrittenOverNone
<1>4. CASE Bootstrap
  <2>1. db'.receipts = db.receipts
    BY <1>0, <1>4 DEF Bootstrap, Database
  <2> QED
    BY <2>1 DEF KeepsReceipts
<1>5. CASE UNCHANGED db
  BY <1>5 DEF KeepsReceipts
<1>6. Commit \/ CommitUnacknowledged \/ RecordRejection \/ Bootstrap \/ UNCHANGED db
  <2>1. CASE UNCHANGED vars
    BY <2>1 DEF vars
  <2>2. CASE \E c \in Commands : Dispatch(c)
    BY <2>2 DEF Dispatch, durable
  <2>3. CASE Worker
    BY <2>3 DEF Worker, TakeCommand, AnswerFromReceipt, BeginTransaction, AppendEvent, Publish,
       ReplyAccepted, ReceiptReadFails, Refuse, Rollback, ReconcileRead, ReconcileReadFails,
       ReplayEvent, ReplayDone, RecordRejectionFails, ReplyFailed, durable
  <2>4. CASE Boot
    BY <2>4 DEF Boot, Start, Ready, durable
  <2>5. CASE Crash \/ PowerLoss \/ WalCheckpoint \/ Upgrade
    BY <2>5 DEF Crash, Stop, PowerLoss, WalCheckpoint, Upgrade
  <2> QED
    BY <2>1, <2>2, <2>3, <2>4, <2>5 DEF Next
<1> QED
  BY <1>1, <1>2, <1>3, <1>4, <1>5, <1>6

\* Without a power loss, no retry, failure or crash ever changes a receipt.
THEOREM ReceiptsNeverChange ==
  ASSUME "powerLoss" \notin Faults
  PROVE  Spec => ReceiptsAreFinal
<1>1. Consistent /\ [Next]_vars =>
        [\A id \in Ids : db.receipts[id].status # "none" =>
           db'.receipts[id] = db.receipts[id]]_vars
  BY ReceiptsKept DEF KeepsReceipts
<1> QED
  BY <1>1, AlwaysConsistent, PTL DEF Spec, ReceiptsAreFinal

\* A new answer agrees with the receipt of its command.
LEMMA AnswersAgree ==
  ASSUME Consistent, AcknowledgedIsDurable, "powerLoss" \notin Faults, [Next]_vars
  PROVE  AcknowledgedIsDurable'
<1>0. replies \in [Ids -> SUBSET Reply] /\ db.receipts \in [Ids -> Receipt]
  BY DEF Consistent, Typed, TypeOK, Database
<1>k. KeepsReceipts
  BY ReceiptsKept
<1>a. ASSUME NEW id \in Ids, NEW r, Answer(id, r),
             r.ok => db.receipts[id] = [status |-> "accepted", seq |-> r.seq]
      PROVE  AcknowledgedIsDurable'
  <2>1. ASSUME NEW x \in Ids, NEW y \in replies'[x], y.ok
        PROVE  db'.receipts[x] = [status |-> "accepted", seq |-> y.seq]
    <3>1. y \in replies[x] \/ (x = id /\ y = r)
      BY <1>0, <1>a, <2>1 DEF Answer
    <3>2. db.receipts[x] = [status |-> "accepted", seq |-> y.seq]
      BY <1>a, <2>1, <3>1 DEF AcknowledgedIsDurable
    <3>3. db.receipts[x].status # "none"
      BY <3>2
    <3> QED
      BY <1>k, <3>2, <3>3 DEF KeepsReceipts
  <2> QED
    BY <2>1 DEF AcknowledgedIsDurable
<1>c. pc \notin {"down", "boot", "idle"} => job.command.id \in Ids
  BY DEF Consistent, Typed, StepsAreFed, Ids
<1>1. CASE AnswerFromReceipt
  <2> DEFINE receipt == db.receipts[job.command.id]
  <2> DEFINE answer == IF receipt.status = "accepted"
                       THEN [ok |-> TRUE, seq |-> receipt.seq] ELSE Failed
  <2>1. job.command.id \in Ids /\ Answer(job.command.id, answer)
    BY <1>1, <1>c DEF AnswerFromReceipt
  <2>2. receipt \in Receipt
    BY <1>0, <2>1
  <2>3. answer.ok => receipt = [status |-> "accepted", seq |-> answer.seq]
    BY <2>2 DEF Receipt, Failed
  <2> HIDE DEF answer
  <2> QED
    BY <1>a, <2>1, <2>3
<1>2. CASE ReplyAccepted
  <2> DEFINE answer == [ok |-> TRUE, seq |-> LastToReplay]
  <2>1. job.command.id \in Ids /\ Answer(job.command.id, answer)
    BY <1>2, <1>c DEF ReplyAccepted, LastToReplay
  <2>2. db.receipts[job.command.id] = [status |-> "accepted", seq |-> answer.seq]
    BY <1>2 DEF Consistent, CommitsAreWhole, AnswerIsReceipt, ReplyAccepted
  <2> HIDE DEF answer
  <2> QED
    BY <1>a, <2>1, <2>2
<1>3. CASE ReplyFailed
  <2>1. job.command.id \in Ids /\ Answer(job.command.id, Failed) /\ ~Failed.ok
    BY <1>3, <1>c DEF ReplyFailed, Failed
  <2> QED
    BY <1>a, <2>1
<1>4. CASE UNCHANGED replies
  <2>1. ASSUME NEW x \in Ids, NEW y \in replies[x], y.ok
        PROVE  db'.receipts[x] = [status |-> "accepted", seq |-> y.seq]
    <3>1. db.receipts[x] = [status |-> "accepted", seq |-> y.seq]
      BY <2>1 DEF AcknowledgedIsDurable
    <3> QED
      BY <1>k, <2>1, <3>1 DEF KeepsReceipts
  <2> QED
    BY <1>4, <2>1 DEF AcknowledgedIsDurable
<1>5. AnswerFromReceipt \/ ReplyAccepted \/ ReplyFailed \/ UNCHANGED replies
  <2>1. CASE UNCHANGED vars
    BY <2>1 DEF vars
  <2>2. CASE \E c \in Commands : Dispatch(c)
    BY <2>2 DEF Dispatch
  <2>3. CASE Worker
    BY <2>3 DEF Worker, TakeCommand, BeginTransaction, AppendEvent, Commit, Publish,
       ReceiptReadFails, Refuse, Rollback, CommitUnacknowledged, ReconcileRead,
       ReconcileReadFails, ReplayEvent, ReplayDone, RecordRejection, RecordRejectionFails,
       FailWith, history
  <2>4. CASE Boot
    BY <2>4 DEF Boot, Start, Bootstrap, Ready, history
  <2>5. CASE Crash \/ PowerLoss \/ WalCheckpoint \/ Upgrade
    BY <2>5 DEF Crash, Stop, PowerLoss, WalCheckpoint, Upgrade, history
  <2> QED
    BY <2>1, <2>2, <2>3, <2>4, <2>5 DEF Next
<1> QED
  BY <1>1, <1>2, <1>3, <1>4, <1>5

\* Without a power loss, the sequence a client was given stays that of its
\* command, whatever is retried, fails or crashes afterwards.
THEOREM AnswersStayTrue ==
  ASSUME "powerLoss" \notin Faults
  PROVE  Spec => []AcknowledgedIsDurable
<1>1. Init => AcknowledgedIsDurable
  BY DEF Init, AcknowledgedIsDurable
<1>2. Consistent /\ AcknowledgedIsDurable /\ [Next]_vars => AcknowledgedIsDurable'
  BY AnswersAgree
<1> QED
  BY <1>1, <1>2, AlwaysConsistent, PTL DEF Spec

-----------------------------------------------------------------------------
(***************************************************************************)
(* The engine implements CommandLog for every set of commands and every    *)
(* fault but the loss of power.  A commit is an Accept, whether it was     *)
(* acknowledged or not, the receipt of a refused command is a Reject, the  *)
(* answers are Confirm and Fail, and every other step is a stutter.  A     *)
(* Reject names no sequence beyond the journal: this needs the read model  *)
(* never to claim an event the log does not hold.                          *)
(***************************************************************************)

(* The read model stays in the log *)

\* The sequence the read model starts from is in the log.
LEMMA StartSequenceInLog ==
  ASSUME db \in Database, CursorsInLog(db)
  PROVE  StartSequence <= Len(db.log)
<1> DEFINE cursor == [q \in Projectors |-> IF q \in installed THEN db.cursor[q] ELSE Len(db.log)]
<1>1. db.cursor \in [Projectors -> Nat] /\ Len(db.log) \in Nat
  BY DEF Database
<1>2. cursor \in [Projectors -> Nat] /\ \A q \in Projectors : cursor[q] <= Len(db.log)
  BY <1>1 DEF CursorsInLog
<1> HIDE DEF cursor
<1>3. SnapshotSequence(cursor) <= Len(db.log)
  BY <1>2, SnapshotSequenceIsLeast
<1> QED
  BY <1>3 DEF StartSequence, cursor

\* What the log, the read model and the step in progress must satisfy next.
LEMMA InLogStep ==
  ASSUME Consistent, ReadModelInLog, Len(db.log) <= Len(db'.log), Len(db'.log) \in Nat,
         readModel'.seq \in Nat,
         readModel' = readModel \/ readModel'.seq <= Len(db'.log),
         \/ pc' \notin {"receipt", "publish", "reconcile", "replay", "transaction"}
         \/ pc' # "transaction" /\ job'.next.seq <= Len(db'.log)
         \/ pc' = "transaction" /\ job'.next.seq <= Len(tx'.log)
  PROVE  ReadModelInLog'
<1>1. Len(db.log) \in Nat /\ readModel.seq \in Nat
  BY DEF Consistent, Typed, TypeOK, Database, ReadModel
<1>2. readModel'.seq <= Len(db'.log)
  BY <1>1 DEF ReadModelInLog
<1> QED
  BY <1>2 DEF ReadModelInLog

\* A transaction is committed to a log that is not shorter.
LEMMA CommitExtendsLog ==
  ASSUME Consistent, pc = "transaction", job.todo = <<>>
  PROVE  /\ WithReceipt.log = tx.log
         /\ Len(tx.log) \in Nat /\ Len(db.log) \in Nat /\ Len(db.log) < Len(tx.log)
<1>1. /\ db \in Database /\ tx \in Database /\ job \in Job /\ job.events # <<>>
      /\ Len(tx.log) = Len(db.log) + Len(job.events)
  BY DEF Consistent, Typed, TypeOK, StepsAreFed, CommitsAreWhole, TransactionExtendsLog
<1>2. Len(db.log) \in Nat /\ Len(tx.log) \in Nat /\ Len(job.events) \in Nat \ {0}
  BY <1>1 DEF Database, Job
<1>3. WithReceipt.log = tx.log
  BY <1>1 DEF WithReceipt, Database
<1>4. \A a, b \in Nat, c \in Nat \ {0} : b = a + c => a < b
  OBVIOUS
<1> QED
  BY <1>1, <1>2, <1>3, <1>4

\* Every step of the worker keeps the read model in the log.
LEMMA InLogWorker == Consistent /\ Typed' /\ ReadModelInLog /\ Worker => ReadModelInLog'
<1> SUFFICES ASSUME Consistent, Typed', ReadModelInLog, Worker PROVE ReadModelInLog'
  OBVIOUS
<1>0. /\ TypeOK /\ StepsAreFed
      /\ db \in Database /\ tx \in Database /\ job \in Job /\ readModel \in ReadModel
      /\ db' \in Database /\ job' \in Job /\ readModel' \in ReadModel
  BY DEF Consistent, Typed, TypeOK
<1>n. /\ Len(db.log) \in Nat /\ Len(tx.log) \in Nat /\ Len(db'.log) \in Nat
      /\ readModel.seq \in Nat /\ readModel'.seq \in Nat /\ job.next.seq \in Nat
  BY <1>0 DEF Database, ReadModel, Job
<1>q. ASSUME UNCHANGED <<db, readModel>>,
             pc' \notin {"receipt", "publish", "reconcile", "replay", "transaction"}
      PROVE  ReadModelInLog'
  BY <1>n, <1>q, InLogStep
<1>f. ASSUME NEW failure, FailWith(failure), Len(db.log) <= Len(db'.log)
      PROVE  ReadModelInLog'
  <2>1. job'.next = readModel /\ pc' = "reconcile" /\ readModel' = readModel
    BY <1>0, <1>f DEF FailWith, Job
  <2>2. readModel.seq <= Len(db'.log)
    BY <1>f, <1>n DEF ReadModelInLog
  <2> QED
    BY <1>f, <1>n, <2>1, <2>2, InLogStep
<1>k. ASSUME UNCHANGED <<db, readModel, job>>, pc \in {"receipt", "publish", "reconcile", "replay"},
             pc' # "transaction"
      PROVE  ReadModelInLog'
  BY <1>k, <1>n, InLogStep DEF ReadModelInLog
<1>1. CASE TakeCommand
  <2>1. UNCHANGED <<db, readModel>> /\ pc' = "receipt" /\ job'.next = readModel
    BY <1>1 DEF TakeCommand, durable, NoJob
  <2> QED
    BY <1>n, <2>1, InLogStep DEF ReadModelInLog
<1>2. CASE AnswerFromReceipt
  BY <1>2, <1>q DEF AnswerFromReceipt, durable
<1>3. CASE BeginTransaction
  <2>1. UNCHANGED <<db, readModel>> /\ pc = "receipt" /\ pc' = "transaction" /\ tx' = db
    BY <1>3 DEF BeginTransaction, durable
  <2>2. job'.next = job.next
    BY <1>0, <1>3 DEF BeginTransaction, Job
  <2> QED
    BY <1>n, <2>1, <2>2, InLogStep DEF ReadModelInLog
<1>4. CASE AppendEvent
  <2> DEFINE e == Head(job.todo)
  <2> DEFINE seq == Len(tx.log) + 1
  <2> DEFINE entry == [id |-> job.command.id, event |-> e]
  <2> DEFINE appended == [tx EXCEPT !.log = Append(@, entry)]
  <2>1. UNCHANGED <<db, readModel, pc>> /\ pc = "transaction" /\ job.todo # <<>>
        /\ job.command.id \in Ids
    BY <1>0, <1>4 DEF AppendEvent, durable, StepsAreFed, Ids
  <2>2. e \in Event /\ seq \in Nat
    BY <1>0, <1>n, <2>1 DEF Job
  <2>3. appended \in Database
    BY <1>0, <2>1, <2>2, AppendedType
  <2>4. tx' = ProjectAll(appended, e, seq)
    BY <1>4 DEF AppendEvent
  <2>5. tx'.log = Append(tx.log, entry)
    <3>1. tx'.log = appended.log
      BY <2>2, <2>3, <2>4, ProjectAllType
    <3> QED
      BY <1>0, <3>1 DEF Database
  <2>6. Len(tx'.log) = seq
    <3> HIDE DEF entry
    <3>1. tx.log \in Seq(Entry)
      BY <1>0 DEF Database
    <3> QED
      BY <2>5, <3>1
  <2>7. job'.next = ProjectEvent(job.next, e, seq)
    BY <1>0, <1>4 DEF AppendEvent, Job
  <2>8. job'.next.seq = seq
    <3> HIDE DEF e, seq
    <3>1. job.next \in ReadModel
      BY <1>0 DEF Job
    <3> QED
      BY <2>2, <2>7, <3>1, ProjectEventType
  <2>9. job'.next.seq <= Len(tx'.log)
    BY <2>2, <2>6, <2>8
  <2> QED
    BY <1>n, <2>1, <2>9, InLogStep
<1>5. CASE Commit
  <2>1. /\ pc = "transaction" /\ job.todo = <<>> /\ db' = WithReceipt
        /\ pc' = "publish" /\ UNCHANGED <<readModel, job>>
    BY <1>5 DEF Commit
  <2>2. db'.log = tx.log /\ Len(db.log) < Len(tx.log)
    BY <2>1, CommitExtendsLog
  <2>3. Len(db.log) <= Len(db'.log) /\ job.next.seq <= Len(db'.log)
    BY <1>n, <2>1, <2>2 DEF ReadModelInLog
  <2> QED
    BY <1>n, <2>1, <2>3, InLogStep
<1>6. CASE Publish
  <2>1. UNCHANGED db /\ pc = "publish" /\ readModel' = job.next /\ pc' = "reply"
    BY <1>6 DEF Publish, durable
  <2> QED
    BY <1>n, <2>1, InLogStep DEF ReadModelInLog
<1>7. CASE ReplyAccepted
  BY <1>7, <1>q DEF ReplyAccepted, durable
<1>8. CASE ReceiptReadFails \/ Refuse \/ Rollback
  <2>1. UNCHANGED db /\ \E failure : FailWith(failure)
    BY <1>8 DEF ReceiptReadFails, Refuse, Rollback
  <2> QED
    BY <1>f, <1>n, <2>1
<1>9. CASE CommitUnacknowledged
  <2>1. /\ FailWith("persistence") /\ pc = "transaction" /\ job.todo = <<>>
        /\ db' = WithReceipt
    BY <1>9 DEF CommitUnacknowledged
  <2>2. Len(db.log) <= Len(db'.log)
    BY <2>1, CommitExtendsLog
  <2> QED
    BY <1>f, <2>1, <2>2
<1>10. CASE ReconcileRead
  <2>1. /\ pc = "reconcile" /\ UNCHANGED <<db, readModel>> /\ job'.next = job.next
        /\ pc' \in {"replay", "record", "fail"}
    BY <1>0, <1>10 DEF ReconcileRead, durable, Job, AfterReconcile
  <2> QED
    BY <1>n, <2>1, InLogStep DEF ReadModelInLog
<1>11. CASE ReconcileReadFails
  BY <1>11, <1>k DEF ReconcileReadFails, durable, AfterReconcile
<1>12. CASE ReplayEvent
  <2> DEFINE seq == job.next.seq + 1
  <2>1. /\ pc = "replay" /\ pc' = "replay" /\ UNCHANGED <<db, readModel>>
        /\ job.next.seq < LastToReplay
        /\ job' = [job EXCEPT !.next = ProjectEvent(@, db.log[seq].event, seq)]
    BY <1>12 DEF ReplayEvent, durable
  <2>2. LastToReplay \in Nat /\ LastToReplay <= Len(db.log)
    <3>1. job.events # <<>> /\ LastToReplay <= Len(db.log)
      BY <1>0, <2>1 DEF StepsAreFed
    <3>2. job.events \in Seq(Nat)
      BY <1>0 DEF Job
    <3> QED
      BY <3>1, <3>2 DEF LastToReplay
  <2>3. seq \in 1..Len(db.log)
    BY <1>n, <2>1, <2>2
  <2>4. db.log[seq].event \in Event
    <3>1. db.log \in Seq(Entry)
      BY <1>0 DEF Database
    <3>2. db.log[seq] \in Entry
      BY <2>3, <3>1
    <3> QED
      BY <3>2 DEF Entry
  <2>5. job'.next.seq = seq
    <3> DEFINE e == db.log[seq].event
    <3>1. job.next \in ReadModel /\ seq \in Nat /\ e \in Event
      BY <1>0, <1>n, <2>4 DEF Job
    <3>2. job'.next = ProjectEvent(job.next, e, seq)
      BY <1>0, <2>1 DEF Job
    <3> HIDE DEF e, seq
    <3> QED
      BY <3>1, <3>2, ProjectEventType
  <2>6. job'.next.seq <= Len(db'.log)
    BY <1>n, <2>1, <2>3, <2>5
  <2> QED
    BY <1>n, <2>1, <2>6, InLogStep
<1>13. CASE ReplayDone
  <2>1. /\ UNCHANGED db /\ pc = "replay" /\ readModel' = job.next
        /\ pc' \in {"record", "fail"}
    BY <1>13 DEF ReplayDone, durable, AfterReconcile
  <2> QED
    BY <1>n, <2>1, InLogStep DEF ReadModelInLog
<1>14. CASE RecordRejection
  <2>1. db'.log = db.log /\ UNCHANGED readModel /\ pc' = "fail"
    BY <1>0, <1>14 DEF RecordRejection, Database
  <2> QED
    BY <1>n, <2>1, InLogStep
<1>15. CASE RecordRejectionFails
  BY <1>15, <1>q DEF RecordRejectionFails, durable
<1>16. CASE ReplyFailed
  BY <1>16, <1>q DEF ReplyFailed, durable
<1> QED
  BY <1>1, <1>2, <1>3, <1>4, <1>5, <1>6, <1>7, <1>8, <1>9, <1>10, <1>11, <1>12, <1>13,
     <1>14, <1>15, <1>16 DEF Worker

\* Every step keeps the read model in the log.
LEMMA InLogNext ==
  ASSUME Consistent, ReadModelInLog, [Next]_vars
  PROVE  ReadModelInLog'
<1>0. /\ TypeOK /\ StepsAreFed /\ Typed'
      /\ db \in Database /\ readModel \in ReadModel /\ db' \in Database /\ readModel' \in ReadModel
  BY TypedNext DEF Consistent, Typed, TypeOK
<1>n. /\ Len(db.log) \in Nat /\ Len(db'.log) \in Nat
      /\ readModel.seq \in Nat /\ readModel'.seq \in Nat
  BY <1>0 DEF Database, ReadModel
<1>e. ASSUME UNCHANGED <<db, tx, pc, job, readModel>>
      PROVE  ReadModelInLog'
  BY <1>e DEF ReadModelInLog
<1>1. CASE \E c \in Commands : Dispatch(c)
  BY <1>1, <1>e DEF Dispatch, durable
<1>2. CASE Worker
  BY <1>0, <1>2, InLogWorker
<1>3. CASE Start
  <2>1. UNCHANGED <<db, readModel>> /\ pc' = "boot"
    BY <1>3 DEF Start, durable
  <2> QED
    BY <1>n, <2>1, InLogStep
<1>4. CASE Bootstrap
  <2>1. db'.log = db.log /\ UNCHANGED readModel /\ pc' = "boot"
    BY <1>0, <1>4 DEF Bootstrap, Database
  <2> QED
    BY <1>n, <2>1, InLogStep
<1>5. CASE Ready
  <2>1. StartSequence <= Len(db.log) /\ StartSequence \in Nat
    BY <1>0, StartSequenceInLog, StartSequenceType DEF StepsAreFed
  <2>2. Snapshot(db.tables, db.cursor) \in ReadModel
    BY <1>0, SnapshotType DEF Database
  <2>3. readModel'.seq = StartSequence
    BY <1>5, <2>2 DEF Ready, ReadModel
  <2>4. UNCHANGED db /\ pc' = "idle"
    BY <1>5 DEF Ready, durable
  <2> QED
    BY <1>n, <2>1, <2>3, <2>4, InLogStep
<1>6. CASE Crash
  <2>1. db' = db /\ pc' = "down" /\ readModel'.seq = 0
    BY <1>6 DEF Crash, Stop, EmptyReadModel
  <2> QED
    BY <1>n, <2>1, InLogStep
<1>7. CASE PowerLoss
  <2>1. pc' = "down" /\ readModel'.seq = 0
    BY <1>7 DEF PowerLoss, Stop, EmptyReadModel
  <2> QED
    BY <1>n, <2>1 DEF ReadModelInLog
<1>8. CASE Upgrade \/ WalCheckpoint
  BY <1>8, <1>e DEF Upgrade, WalCheckpoint, volatile
<1>9. CASE UNCHANGED vars
  BY <1>9, <1>e DEF vars
<1> QED
  BY <1>1, <1>2, <1>3, <1>4, <1>5, <1>6, <1>7, <1>8, <1>9 DEF Next, Boot

\* The read model never claims an event the log lacks.
LEMMA AlwaysInLog == Spec => [](Consistent /\ ReadModelInLog)
<1>1. Init => ReadModelInLog
  BY DEF Init, ReadModelInLog, EmptyReadModel, EmptyDatabase
<1>2. Consistent /\ ReadModelInLog /\ [Next]_vars => ReadModelInLog'
  BY InLogNext
<1> QED
  BY <1>1, <1>2, AlwaysConsistent, PTL DEF Spec

-----------------------------------------------------------------------------
(* Each step of the engine is a step of the journal or a stutter *)

\* A commit, acknowledged or not, is the acceptance of its command.
LEMMA CommitAccepts ==
  ASSUME Consistent, pc = "transaction", job.todo = <<>>, db' = WithReceipt, UNCHANGED replies,
         NEW cid \in Ids, cid = job.command.id
  PROVE  Journal!Accept(cid)
<1> DEFINE J == [i \in 1..Len(db.log) |-> db.log[i].id]
<1> DEFINE K == [i \in 1..Len(db'.log) |-> db'.log[i].id]
<1>1. /\ db \in Database /\ tx \in Database /\ job.events # <<>>
  BY DEF Consistent, Typed, TypeOK, StepsAreFed
<1>2. /\ db.receipts[cid].status = "none" /\ tx.receipts = db.receipts
      /\ \A i \in 1..Len(db.log) : tx.log[i] = db.log[i]
      /\ \A i \in Len(db.log) + 1..Len(tx.log) : tx.log[i].id = cid
  BY DEF Consistent, CommitsAreWhole, TransactionExtendsLog
<1>3. /\ db'.log = tx.log
      /\ Len(tx.log) \in Nat /\ Len(db.log) \in Nat /\ Len(db.log) < Len(tx.log)
  BY CommitExtendsLog
<1>4. db'.receipts = [db.receipts EXCEPT ![cid] = [status |-> "accepted", seq |-> Len(tx.log)]]
  BY <1>1, <1>2 DEF WithReceipt, Database
<1>5. Len(J) = Len(db.log) /\ Len(K) = Len(tx.log)
  BY <1>3
<1>6. K = [i \in 1..Len(tx.log) |-> IF i <= Len(db.log) THEN J[i] ELSE cid]
  <2>1. ASSUME NEW i \in 1..Len(tx.log)
        PROVE  tx.log[i].id = IF i <= Len(db.log) THEN J[i] ELSE cid
    <3>1. CASE i <= Len(db.log)
      <4>1. i \in 1..Len(db.log)
        BY <1>3, <3>1
      <4> QED
        BY <1>2, <3>1, <4>1
    <3>2. CASE ~(i <= Len(db.log))
      <4>1. i \in Len(db.log) + 1..Len(tx.log)
        BY <1>3, <3>2
      <4> QED
        BY <1>2, <3>2, <4>1
    <3> QED
      BY <3>1, <3>2
  <2> HIDE DEF J
  <2> QED
    BY <1>3, <2>1
<1> HIDE DEF J, K
<1>7. /\ db.receipts[cid].status = "none"
      /\ Len(K) > Len(J)
      /\ K = [i \in 1..Len(K) |-> IF i <= Len(J) THEN J[i] ELSE cid]
      /\ db'.receipts = [db.receipts EXCEPT ![cid] = [status |-> "accepted", seq |-> Len(K)]]
      /\ UNCHANGED replies
  BY <1>2, <1>3, <1>4, <1>5, <1>6
<1> QED
  BY <1>7 DEF Journal!Accept, J, K

\* The receipt of a refused command is its rejection.
LEMMA RecordRejects ==
  ASSUME Consistent, ReadModelInLog, RecordRejection
  PROVE  Journal!Reject(job.command.id)
<1> DEFINE cid == job.command.id
<1>1. db \in Database /\ readModel \in ReadModel /\ pc = "record"
  BY DEF Consistent, Typed, TypeOK, RecordRejection
<1>2. db.receipts[cid].status = "none"
  BY <1>1 DEF Consistent, CommitsAreWhole, RefusedHasNoReceipt
<1>3. readModel.seq \in 0..Len(db.log)
  BY <1>1 DEF Database, ReadModel, ReadModelInLog
<1>4. /\ db'.log = db.log /\ UNCHANGED replies
      /\ db'.receipts = [db.receipts EXCEPT ![cid] = [status |-> "rejected", seq |-> readModel.seq]]
  BY <1>1 DEF RecordRejection, Database, history
<1>5. Len([i \in 1..Len(db.log) |-> db.log[i].id]) = Len(db.log)
  BY <1>1 DEF Database
<1> QED
  BY <1>2, <1>3, <1>4, <1>5 DEF Journal!Reject

\* An answer is a confirmation of the receipt or a failure.
LEMMA AnswersConfirmOrFail ==
  ASSUME Consistent, AnswerFromReceipt \/ ReplyAccepted \/ ReplyFailed
  PROVE  Journal!Confirm(job.command.id) \/ Journal!Fail(job.command.id)
<1> DEFINE cid == job.command.id
<1>1. UNCHANGED db
  BY DEF AnswerFromReceipt, ReplyAccepted, ReplyFailed, durable
<1>2. CASE AnswerFromReceipt
  BY <1>1, <1>2 DEF AnswerFromReceipt, Answer, Failed, Journal!Confirm, Journal!Fail
<1>3. CASE ReplyAccepted
  <2>1. db.receipts[cid] = [status |-> "accepted", seq |-> LastToReplay]
    BY <1>3 DEF Consistent, CommitsAreWhole, AnswerIsReceipt, ReplyAccepted
  <2>2. Answer(cid, [ok |-> TRUE, seq |-> LastToReplay])
    BY <1>3 DEF ReplyAccepted, LastToReplay
  <2> QED
    BY <1>1, <2>1, <2>2 DEF Answer, Journal!Confirm
<1>4. CASE ReplyFailed
  BY <1>1, <1>4 DEF ReplyFailed, Answer, Failed, Journal!Fail
<1> QED
  BY <1>2, <1>3, <1>4

\* Every step maps to a step of the journal or leaves it as it is.
LEMMA StepMapsToJournal ==
  ASSUME "powerLoss" \notin Faults, Consistent, ReadModelInLog, [Next]_vars
  PROVE  [Journal!Next]_<<[i \in 1..Len(db.log) |-> db.log[i].id], db.receipts, replies>>
<1>0. db \in Database /\ (pc \notin {"down", "boot", "idle"} => job.command.id \in Ids)
  BY DEF Consistent, Typed, TypeOK, StepsAreFed, Ids
<1>s. ASSUME db'.log = db.log, db'.receipts = db.receipts, UNCHANGED replies
      PROVE  UNCHANGED <<[i \in 1..Len(db.log) |-> db.log[i].id], db.receipts, replies>>
  BY <1>s
<1>1. CASE Commit \/ CommitUnacknowledged
  <2>1. /\ pc = "transaction" /\ job.todo = <<>> /\ db' = WithReceipt /\ UNCHANGED replies
    BY <1>1 DEF Commit, CommitUnacknowledged, FailWith, history
  <2>2. PICK cid \in Ids : cid = job.command.id
    BY <1>0, <2>1
  <2>3. Journal!Accept(cid)
    BY <2>1, <2>2, CommitAccepts
  <2> QED
    BY <2>3 DEF Journal!Next
<1>2. CASE RecordRejection
  <2>1. pc = "record"
    BY <1>2 DEF RecordRejection
  <2> QED
    BY <1>0, <1>2, <2>1, RecordRejects DEF Journal!Next
<1>3. CASE AnswerFromReceipt \/ ReplyAccepted \/ ReplyFailed
  <2>1. pc \in {"receipt", "reply", "fail"}
    BY <1>3 DEF AnswerFromReceipt, ReplyAccepted, ReplyFailed
  <2> QED
    BY <1>0, <1>3, <2>1, AnswersConfirmOrFail DEF Journal!Next
<1>4. CASE Bootstrap
  <2>1. db'.log = db.log /\ db'.receipts = db.receipts /\ UNCHANGED replies
    BY <1>0, <1>4 DEF Bootstrap, Database, history
  <2> QED
    BY <1>s, <2>1
<1>5. CASE UNCHANGED <<db, replies>>
  BY <1>5, <1>s
<1>6. \/ Commit \/ CommitUnacknowledged \/ RecordRejection \/ AnswerFromReceipt
      \/ ReplyAccepted \/ ReplyFailed \/ Bootstrap \/ UNCHANGED <<db, replies>>
  <2>1. CASE UNCHANGED vars
    BY <2>1 DEF vars
  <2>2. CASE \E c \in Commands : Dispatch(c)
    BY <2>2 DEF Dispatch, durable
  <2>3. CASE Worker
    BY <2>3 DEF Worker, TakeCommand, BeginTransaction, AppendEvent, Publish,
       ReceiptReadFails, Refuse, Rollback, ReconcileRead, ReconcileReadFails, ReplayEvent,
       ReplayDone, RecordRejectionFails, FailWith, durable, history
  <2>4. CASE Boot
    BY <2>4 DEF Boot, Start, Ready, durable, history
  <2>5. CASE Crash \/ PowerLoss \/ WalCheckpoint \/ Upgrade
    BY <2>5 DEF Crash, Stop, PowerLoss, WalCheckpoint, Upgrade, volatile, history
  <2> QED
    BY <2>1, <2>2, <2>3, <2>4, <2>5 DEF Next
<1> QED
  BY <1>1, <1>2, <1>3, <1>4, <1>5, <1>6

\* The engine starts where the journal does.
LEMMA InitMapsToJournal == Init => Journal!Init
<1> SUFFICES ASSUME Init PROVE Journal!Init
  OBVIOUS
<1>1. db.log = <<>> /\ db.receipts = [id \in Ids |-> NoReceipt] /\ replies = [id \in Ids |-> {}]
  BY DEF Init, EmptyDatabase
<1>2. [i \in 1..Len(db.log) |-> db.log[i].id] = <<>>
  BY <1>1
<1> QED
  BY <1>1, <1>2 DEF Journal!Init, Journal!Pending, NoReceipt

\* Without a power loss the engine implements the journal: each command takes
\* effect once, as a whole, or is refused for good, and its clients are told
\* nothing else, whatever is queued, retried, rolled back or lost in a crash.
THEOREM EngineImplementsCommandLog ==
  ASSUME "powerLoss" \notin Faults
  PROVE  Spec => ImplementsCommandLog
<1>1. Consistent /\ ReadModelInLog /\ [Next]_vars =>
        [Journal!Next]_<<[i \in 1..Len(db.log) |-> db.log[i].id], db.receipts, replies>>
  BY StepMapsToJournal
<1> QED
  BY <1>1, InitMapsToJournal, AlwaysInLog, PTL DEF Spec, ImplementsCommandLog, Journal!Spec

-----------------------------------------------------------------------------
(* What subscribers are given *)

Increasing(run) == \A i, j \in 1..Len(run) : i < j => run[i] < run[j]
Above(run, n) == \A i \in 1..Len(run) : n < run[i]
UpTo(run, n) == \A i \in 1..Len(run) : run[i] <= n

\* What was published lies below the read model, and what is about to be published
\* above it; both are in the order of the log.
SubscribersInOrder ==
  /\ Increasing(published) /\ UpTo(published, readModel.seq)
  /\ pc \in {"down", "boot"} => published = <<>>
  /\ pc \in {"transaction", "publish", "replay"} =>
       Increasing(job.events) /\ Above(job.events, readModel.seq)
  /\ pc \in {"transaction", "publish"} /\ job.events # <<>> => job.next.seq = LastToReplay

LEMMA IncreasingAppend ==
  ASSUME NEW run \in Seq(Nat), NEW n \in Nat, NEW m \in Nat, Increasing(run), Above(run, m),
         m < n, run # <<>> => run[Len(run)] < n
  PROVE  Increasing(Append(run, n)) /\ Above(Append(run, n), m)
<1> DEFINE k == Len(run)
           longer == Append(run, n)
<1>1. /\ k \in Nat /\ Len(longer) = k + 1 /\ longer[k + 1] = n
      /\ \A i \in 1..k : longer[i] = run[i] /\ run[i] \in Nat
  OBVIOUS
<1>2. \A i \in 1..k : run[i] < n
  <2> SUFFICES ASSUME NEW i \in 1..k PROVE run[i] < n
    OBVIOUS
  <2>1. k \in 1..k /\ run[k] < n
    BY <1>1
  <2>2. i = k \/ i < k
    BY <1>1
  <2>3. i < k => run[i] < run[k]
    BY <2>1 DEF Increasing
  <2> QED
    BY <1>1, <2>1, <2>2, <2>3
<1> HIDE DEF longer
<1>3. Increasing(longer)
  <2> SUFFICES ASSUME NEW i \in 1..k + 1, NEW j \in 1..k + 1, i < j
               PROVE  longer[i] < longer[j]
    BY <1>1 DEF Increasing
  <2>1. i \in 1..k
    BY <1>1
  <2>2. CASE j = k + 1
    BY <1>1, <1>2, <2>1, <2>2
  <2>3. CASE j # k + 1
    <3>1. \A n1 \in Nat : \A j1 \in 1..n1 + 1 : j1 = n1 + 1 \/ j1 \in 1..n1
      OBVIOUS
    <3>2. j \in 1..k
      BY <1>1, <2>3, <3>1
    <3> QED
      BY <1>1, <2>1, <3>2 DEF Increasing
  <2> QED
    BY <2>2, <2>3
<1>4. Above(longer, m)
  <2> SUFFICES ASSUME NEW i \in 1..k + 1 PROVE m < longer[i]
    BY <1>1 DEF Above
  <2>1. i = k + 1 \/ i \in 1..k
    BY <1>1
  <2> QED
    BY <1>1, <2>1 DEF Above
<1> QED
  BY <1>3, <1>4 DEF longer

LEMMA IncreasingConcat ==
  ASSUME NEW run \in Seq(Nat), NEW more \in Seq(Nat), NEW m \in Nat, NEW n \in Nat, m <= n,
         Increasing(run), UpTo(run, m), Increasing(more), Above(more, m), UpTo(more, n)
  PROVE  Increasing(run \o more) /\ UpTo(run \o more, n)
<1> DEFINE a == Len(run)
           b == Len(more)
           both == run \o more
<1>1. /\ a \in Nat /\ b \in Nat /\ Len(both) = a + b
      /\ \A i \in 1..a : both[i] = run[i] /\ run[i] \in Nat
      /\ \A i \in 1..b : more[i] \in Nat
      /\ \A i \in a + 1..a + b : both[i] = more[i - a]
  OBVIOUS
<1> HIDE DEF both
<1>2. \A i \in 1..a + b : i \in 1..a \/ (i \in a + 1..a + b /\ i - a \in 1..b)
  BY <1>1
<1>3. Increasing(both)
  <2> SUFFICES ASSUME NEW i \in 1..a + b, NEW j \in 1..a + b, i < j
               PROVE  both[i] < both[j]
    BY <1>1 DEF Increasing
  <2>1. CASE i \in 1..a /\ j \in 1..a
    BY <1>1, <2>1 DEF Increasing
  <2>2. CASE i \in 1..a /\ j \in a + 1..a + b
    <3>1. j - a \in 1..b /\ both[j] = more[j - a]
      BY <1>1, <2>2
    <3>2. both[i] <= m /\ m < both[j] /\ both[i] \in Nat /\ both[j] \in Nat
      BY <1>1, <2>2, <3>1 DEF UpTo, Above
    <3> QED
      BY <3>2
  <2>3. CASE i \in a + 1..a + b /\ j \in a + 1..a + b
    <3>1. i - a \in 1..b /\ j - a \in 1..b /\ i - a < j - a
      BY <1>1, <2>3
    <3> QED
      BY <1>1, <2>3, <3>1 DEF Increasing
  <2>4. ~(i \in a + 1..a + b /\ j \in 1..a)
    BY <1>1
  <2> QED
    BY <1>2, <2>1, <2>2, <2>3, <2>4
<1>4. UpTo(both, n)
  <2> SUFFICES ASSUME NEW i \in 1..a + b PROVE both[i] <= n
    BY <1>1 DEF UpTo
  <2>1. CASE i \in 1..a
    <3>1. both[i] <= m /\ both[i] \in Nat
      BY <1>1, <2>1 DEF UpTo
    <3> QED
      BY <3>1
  <2>2. CASE i \in a + 1..a + b /\ i - a \in 1..b
    BY <1>1, <2>2 DEF UpTo
  <2> QED
    BY <1>2, <2>1, <2>2
<1> QED
  BY <1>3, <1>4 DEF both

\* The last of an increasing run is the greatest.
LEMMA LastIsGreatest ==
  ASSUME NEW run \in Seq(Nat), run # <<>>, Increasing(run)
  PROVE  UpTo(run, run[Len(run)])
<1>1. Len(run) \in 1..Len(run) /\ \A i \in 1..Len(run) : run[i] \in Nat
  OBVIOUS
<1>2. \A i \in 1..Len(run) : i = Len(run) \/ i < Len(run)
  OBVIOUS
<1> QED
  BY <1>1, <1>2 DEF Increasing, UpTo

\* A step that publishes nothing and prepares nothing.
LEMMA SubscribersQuiet ==
  ASSUME SubscribersInOrder, UNCHANGED <<readModel, published>>,
         pc' \in {"down", "boot"} => pc \in {"down", "boot"},
         \/ pc' \notin {"transaction", "publish", "replay"}
         \/ /\ UNCHANGED job
            /\ pc \in {"transaction", "publish"} /\ pc' \in {"transaction", "publish"}
         \/ pc = "replay" /\ pc' = "replay" /\ job'.events = job.events
  PROVE  SubscribersInOrder'
BY DEF SubscribersInOrder, LastToReplay

\* The model and the published run move on together.
LEMMA SubscribersMoveOn ==
  ASSUME Consistent, ReadModelInLog, SubscribersInOrder, Publish \/ ReplayDone
  PROVE  SubscribersInOrder'
<1>1. /\ pc \in {"publish", "replay"} /\ pc' \in {"reply", "record", "fail"}
      /\ readModel' = job.next /\ published' = published \o job.events
  BY DEF Publish, ReplayDone, AfterReconcile
<1>2. /\ published \in Seq(Nat) /\ job.events \in Seq(Nat) /\ job.events # <<>>
      /\ readModel.seq \in Nat /\ job.next.seq \in Nat
  BY <1>1 DEF Consistent, Typed, TypeOK, StepsAreFed, Job, ReadModel
<1>3. /\ Increasing(published) /\ UpTo(published, readModel.seq)
      /\ Increasing(job.events) /\ Above(job.events, readModel.seq)
  BY <1>1 DEF SubscribersInOrder
<1>4. job.next.seq = LastToReplay
  BY <1>2 DEF SubscribersInOrder, Publish, ReplayDone
<1>5. UpTo(job.events, job.next.seq)
  BY <1>2, <1>3, <1>4, LastIsGreatest DEF LastToReplay
<1>6. readModel.seq <= job.next.seq
  <2>1. 1 \in 1..Len(job.events) /\ job.events[1] \in Nat
    BY <1>2
  <2>2. readModel.seq < job.events[1] /\ job.events[1] <= job.next.seq
    BY <1>3, <1>5, <2>1 DEF Above, UpTo
  <2> QED
    BY <1>2, <2>1, <2>2
<1>7. Increasing(published') /\ UpTo(published', readModel'.seq)
  BY <1>1, <1>2, <1>3, <1>5, <1>6, IncreasingConcat
<1> QED
  BY <1>1, <1>7 DEF SubscribersInOrder

\* The next event of a transaction follows those before it.
LEMMA SubscribersAwaitEvent ==
  ASSUME Consistent, ReadModelInLog, SubscribersInOrder, AppendEvent
  PROVE  SubscribersInOrder'
<1> DEFINE seq == Len(tx.log) + 1
           events == Append(job.events, seq)
<1>1. /\ pc = "transaction" /\ job.todo # <<>> /\ pc' = pc /\ UNCHANGED <<readModel, published>>
      /\ job' = [job EXCEPT !.todo = Tail(@), !.events = events,
                            !.next = ProjectEvent(@, Head(job.todo), seq)]
  BY DEF AppendEvent
<1>2. /\ job \in Job /\ job.events \in Seq(Nat) /\ job.next \in ReadModel /\ job.todo \in Seq(Event)
      /\ readModel.seq \in Nat /\ Len(tx.log) \in Nat /\ Len(db.log) \in Nat
      /\ Len(job.events) \in Nat
  BY DEF Consistent, Typed, TypeOK, Job, ReadModel, Database
<1>3. Head(job.todo) \in Event
  BY <1>1, <1>2
<1>4. seq \in Nat /\ readModel.seq < seq /\ (job.events # <<>> => job.events[Len(job.events)] < seq)
  <2>1. Len(tx.log) = Len(db.log) + Len(job.events)
    BY <1>1 DEF Consistent, CommitsAreWhole, TransactionExtendsLog
  <2>2. readModel.seq <= Len(db.log)
    BY DEF ReadModelInLog
  <2>3. job.events # <<>> => job.events[Len(job.events)] = Len(tx.log)
    BY <1>1 DEF Consistent, CommitsAreWhole, TransactionExtendsLog, LastToReplay
  <2>4. \A a, b, c, d \in Nat : a = b + c /\ d <= b => d < a + 1
    OBVIOUS
  <2>5. readModel.seq < seq
    BY <1>2, <2>1, <2>2, <2>4
  <2>6. \A a, b \in Nat : b = a => b < a + 1
    OBVIOUS
  <2>7. job.events # <<>> => job.events[Len(job.events)] < seq
    BY <1>2, <2>3, <2>6
  <2> QED
    BY <1>2, <2>5, <2>7
<1>5. job'.next.seq = seq /\ job'.events = events
  BY <1>1, <1>2, <1>3, <1>4, ProjectEventType DEF Job
<1>6. events # <<>> /\ events[Len(events)] = seq
  <2> HIDE DEF seq
  <2>1. Len(events) = Len(job.events) + 1 /\ events[Len(job.events) + 1] = seq
    BY <1>2, <1>4
  <2>2. \A s : s = <<>> => Len(s) = 0
    OBVIOUS
  <2>3. Len(events) # 0
    BY <1>2, <2>1
  <2> QED
    BY <2>1, <2>2, <2>3
<1>7. Increasing(events) /\ Above(events, readModel.seq)
  <2>1. Increasing(job.events) /\ Above(job.events, readModel.seq)
    BY <1>1 DEF SubscribersInOrder
  <2> QED
    BY <1>2, <1>4, <2>1, IncreasingAppend
<1> HIDE DEF events
<1> QED
  BY <1>1, <1>5, <1>6, <1>7 DEF SubscribersInOrder, LastToReplay

LEMMA SubscribersStep ==
  ASSUME Consistent, ReadModelInLog, SubscribersInOrder, [Next]_vars
  PROVE  SubscribersInOrder'
<1>0. /\ job \in Job /\ readModel \in ReadModel /\ readModel.seq \in Nat /\ db \in Database
      /\ Len(db.log) \in Nat /\ Len(<<>>) = 0
  BY DEF Consistent, Typed, TypeOK, ReadModel, Database
<1>1. CASE Publish \/ ReplayDone
  BY <1>1, SubscribersMoveOn
<1>2. CASE AppendEvent
  BY <1>2, SubscribersAwaitEvent
<1>3. CASE ReconcileRead
  <2>1. CASE pc' = "replay"
    <3>1. /\ readModel.seq <= Len(db.log) /\ job'.events = PageAfter(readModel.seq)
          /\ UNCHANGED <<readModel, published>> /\ pc = "reconcile"
      BY <1>0, <1>3, <2>1 DEF ReconcileRead, Job, ReadModelInLog, AfterReconcile
    <3>2. /\ job'.events \in Seq(Nat)
          /\ \A i \in 1..Len(job'.events) : job'.events[i] = readModel.seq + i
      BY <1>0, <3>1, PageAfterIsNext, EngineAssumption
    <3>3. Increasing(job'.events) /\ Above(job'.events, readModel.seq)
      <4>1. \A i, j \in 1..Len(job'.events) : i < j => job'.events[i] < job'.events[j]
        BY <1>0, <3>2
      <4>2. \A i \in 1..Len(job'.events) : readModel.seq < job'.events[i]
        BY <1>0, <3>2
      <4> QED
        BY <4>1, <4>2 DEF Increasing, Above
    <3> QED
      BY <2>1, <3>1, <3>3 DEF SubscribersInOrder
  <2>2. CASE pc' # "replay"
    BY <1>3, <2>2, SubscribersQuiet DEF ReconcileRead, AfterReconcile
  <2> QED
    BY <2>1, <2>2
<1>4. CASE Crash \/ PowerLoss
  <2>1. pc' = "down" /\ published' = <<>>
    BY <1>4 DEF Crash, PowerLoss, Stop
  <2> QED
    BY <1>0, <2>1 DEF SubscribersInOrder, Increasing, UpTo
<1>5. CASE Ready
  <2>1. pc' = "idle" /\ published = <<>> /\ UNCHANGED published
    BY <1>5 DEF Ready, SubscribersInOrder
  <2> QED
    BY <1>0, <2>1 DEF SubscribersInOrder, Increasing, UpTo
<1>6. CASE BeginTransaction
  <2>1. /\ pc = "receipt" /\ pc' = "transaction" /\ job'.events = job.events
        /\ UNCHANGED <<readModel, published>>
    BY <1>0, <1>6 DEF BeginTransaction, Job
  <2>2. job.events = <<>>
    BY <2>1 DEF Consistent, CommitsAreWhole, TakenIsFresh
  <2> QED
    BY <1>0, <2>1, <2>2 DEF SubscribersInOrder, Increasing, Above
<1>7. CASE TakeCommand \/ AnswerFromReceipt \/ ReplyAccepted \/ ReplyFailed
  <2>1. /\ UNCHANGED <<readModel, published>>
        /\ pc' \notin {"down", "boot", "transaction", "publish", "replay"}
    BY <1>7 DEF TakeCommand, AnswerFromReceipt, ReplyAccepted, ReplyFailed
  <2> QED
    BY <2>1, SubscribersQuiet
<1>8. CASE ReceiptReadFails \/ Refuse \/ Rollback \/ CommitUnacknowledged
  <2>1. /\ UNCHANGED <<readModel, published>>
        /\ pc' \notin {"down", "boot", "transaction", "publish", "replay"}
    BY <1>8 DEF ReceiptReadFails, Refuse, Rollback, CommitUnacknowledged, FailWith
  <2> QED
    BY <2>1, SubscribersQuiet
<1>9. CASE ReconcileReadFails \/ RecordRejection \/ RecordRejectionFails
  <2>1. /\ UNCHANGED <<readModel, published>>
        /\ pc' \notin {"down", "boot", "transaction", "publish", "replay"}
    BY <1>9 DEF ReconcileReadFails, RecordRejection, RecordRejectionFails, AfterReconcile
  <2> QED
    BY <2>1, SubscribersQuiet
<1>10. CASE Commit
  BY <1>10, SubscribersQuiet DEF Commit
<1>11. CASE ReplayEvent
  <2>1. /\ UNCHANGED <<readModel, published>> /\ pc = "replay" /\ pc' = "replay"
        /\ job'.events = job.events
    BY <1>0, <1>11 DEF ReplayEvent, Job
  <2> QED
    BY <2>1, SubscribersQuiet
<1>12. CASE Start \/ Bootstrap
  <2>1. /\ UNCHANGED <<readModel, published>> /\ pc \in {"down", "boot"} /\ pc' = "boot"
    BY <1>12 DEF Start, Bootstrap
  <2> QED
    BY <2>1, SubscribersQuiet
<1>13. CASE (\E c \in Commands : Dispatch(c)) \/ WalCheckpoint \/ Upgrade \/ UNCHANGED vars
  <2>1. UNCHANGED <<readModel, published, pc, job>>
    BY <1>13 DEF Dispatch, WalCheckpoint, Upgrade, volatile, vars
  <2> QED
    BY <2>1 DEF SubscribersInOrder, LastToReplay
<1> QED
  BY <1>1, <1>2, <1>3, <1>4, <1>5, <1>6, <1>7, <1>8, <1>9, <1>10, <1>11, <1>12, <1>13
     DEF Next, Worker, Boot

LEMMA AlwaysInOrder == Spec => [](Consistent /\ ReadModelInLog /\ SubscribersInOrder)
<1>1. Init => SubscribersInOrder
  BY DEF Init, SubscribersInOrder, Increasing, UpTo
<1>2. Consistent /\ ReadModelInLog /\ SubscribersInOrder /\ [Next]_vars => SubscribersInOrder'
  BY SubscribersStep
<1> QED
  BY <1>1, <1>2, AlwaysInLog, PTL DEF Spec

\* Subscribers never see an event out of log order between two starts, whatever
\* fails, however late a projector is and however far the read model fell behind.
THEOREM EventsArePublishedIncreasingly == Spec => []PublishedIncreasing
<1>1. SubscribersInOrder => PublishedIncreasing
  BY DEF SubscribersInOrder, Increasing, PublishedIncreasing
<1> QED
  BY <1>1, AlwaysInOrder, PTL

-----------------------------------------------------------------------------
(* What a later start gives its subscribers again *)

\* The projectors that ran from the first event on.
Prompt == Projectors \ LateProjectors

\* The start caught every projector up to the same sequence.
Even == \A q, r \in installed : target[q] = target[r]

UpToDate(d) == \A q \in Prompt : d.cursor[q] = Len(d.log)

\* A projector that ran from the first event on lies behind nothing, so that a
\* start that catches all projectors up alike begins after what was published.
PromptProjectorsLead ==
  /\ Prompt \subseteq installed
  /\ UpToDate(db) /\ UpToDate(tx)
  /\ \A s \in retired : s <= Len(db.log)
  /\ pc = "boot" => \A q \in Prompt : target[q] = Len(db.log)
  /\ pc # "down" => \A q \in Prompt : \A s \in retired : s <= target[q]
  /\ pc \notin {"down", "boot"} /\ Even =>
       \A q \in Prompt : target[q] <= readModel.seq /\ Above(published, target[q])

\* A step that keeps the stores, what was retired, the targets and the order.
LEMMA LeadQuiet ==
  ASSUME PromptProjectorsLead, installed' = installed, retired' = retired, target' = target,
         db'.log = db.log, UpToDate(db'), UpToDate(tx'),
         UNCHANGED <<readModel, published>>,
         pc' = pc \/ (pc \notin {"down", "boot"} /\ pc' \notin {"down", "boot"})
  PROVE  PromptProjectorsLead'
BY DEF PromptProjectorsLead, Even, UpToDate

\* The stores after a step of the worker other than appending and committing.
LEMMA LeadPlain ==
  ASSUME PromptProjectorsLead, UNCHANGED <<db, installed, retired, target, readModel, published>>,
         tx' \in {db, tx},
         pc' = pc \/ (pc \notin {"down", "boot"} /\ pc' \notin {"down", "boot"})
  PROVE  PromptProjectorsLead'
<1>1. UpToDate(db') /\ UpToDate(tx') /\ db'.log = db.log
  BY DEF PromptProjectorsLead, UpToDate
<1> QED
  BY <1>1, LeadQuiet

\* An event is projected by every projector that is not late.
LEMMA LeadAppend ==
  ASSUME Consistent, PromptProjectorsLead, AppendEvent
  PROVE  PromptProjectorsLead'
<1> DEFINE e == Head(job.todo)
           seq == Len(tx.log) + 1
           entry == [id |-> job.command.id, event |-> e]
           d1 == [tx EXCEPT !.log = Append(@, entry)]
<1>1. /\ tx' = ProjectAll(d1, e, seq) /\ pc' = pc /\ UNCHANGED <<db, installed>>
      /\ UNCHANGED <<retired, target, readModel, published>>
  BY DEF AppendEvent, durable, history
<1>2. tx \in Database /\ tx.log \in Seq(Entry) /\ Len(tx.log) \in Nat
  BY DEF Consistent, Typed, TypeOK, Database
<1>3. tx'.log = Append(tx.log, entry)
  <2> HIDE DEF entry, e
  <2> QED
    BY <1>1, <1>2 DEF ProjectAll, Database
<1>4. Len(tx'.log) = seq
  <2> HIDE DEF entry
  <2> QED
    BY <1>2, <1>3
<1>5. tx'.cursor = [q \in Projectors |-> IF q \in installed THEN seq ELSE tx.cursor[q]]
  <2> HIDE DEF entry, e, seq
  <2>1. d1.cursor = tx.cursor /\ d1 = [tx EXCEPT !.log = Append(tx.log, entry)]
    BY <1>2 DEF Database
  <2>2. tx'.cursor = [q \in Projectors |-> IF q \in installed THEN seq ELSE d1.cursor[q]]
    BY <1>1, <1>2 DEF ProjectAll, Database
  <2> QED
    BY <2>1, <2>2
<1> HIDE DEF seq
<1>6. UpToDate(tx')
  BY <1>4, <1>5 DEF PromptProjectorsLead, UpToDate, Prompt
<1>7. UpToDate(db') /\ db'.log = db.log
  BY <1>1 DEF PromptProjectorsLead
<1> QED
  BY <1>1, <1>6, <1>7, LeadQuiet

\* A commit makes the log longer, and the stores alike.
LEMMA LeadCommit ==
  ASSUME Consistent, PromptProjectorsLead, Commit \/ CommitUnacknowledged
  PROVE  PromptProjectorsLead'
<1>1. /\ pc = "transaction" /\ job.todo = <<>> /\ db' = WithReceipt /\ tx' = db'
      /\ pc' \in {"publish", "reconcile"}
      /\ UNCHANGED <<installed, retired, target, readModel, published>>
  BY DEF Commit, CommitUnacknowledged, FailWith, history
<1>2. /\ WithReceipt.log = tx.log /\ Len(tx.log) \in Nat /\ Len(db.log) \in Nat
      /\ Len(db.log) < Len(tx.log)
  BY <1>1, CommitExtendsLog
<1>3. WithReceipt.cursor = tx.cursor
  BY DEF Consistent, Typed, TypeOK, WithReceipt, Database
<1>4. UpToDate(db') /\ UpToDate(tx')
  BY <1>1, <1>2, <1>3 DEF PromptProjectorsLead, UpToDate
<1>5. \A s \in retired' : s <= Len(db'.log)
  <2>1. retired \subseteq Nat /\ \A s \in retired : s <= Len(db.log)
    BY DEF Consistent, Typed, TypeOK, PromptProjectorsLead
  <2> QED
    BY <1>1, <1>2, <2>1
<1> QED
  BY <1>1, <1>4, <1>5 DEF PromptProjectorsLead, Even

\* What is published lies above the model, and so above the targets.
LEMMA LeadPublish ==
  ASSUME Consistent, SubscribersInOrder, SubscribersInOrder', Typed', PromptProjectorsLead,
         Publish \/ ReplayDone
  PROVE  PromptProjectorsLead'
<1>1. /\ pc \in {"publish", "replay"} /\ pc' \in {"reply", "record", "fail"}
      /\ published' = published \o job.events
      /\ UNCHANGED <<db, tx, installed, retired, target>>
  BY DEF Publish, ReplayDone, AfterReconcile, durable, history
<1>2. /\ published \in Seq(Nat) /\ job.events \in Seq(Nat) /\ job.events # <<>>
      /\ readModel.seq \in Nat /\ readModel'.seq \in Nat /\ target \in [Projectors -> Nat]
  BY <1>1 DEF Consistent, Typed, TypeOK, StepsAreFed, Job, ReadModel
<1>3. ASSUME Even, NEW q \in Prompt
      PROVE  target[q] <= readModel'.seq /\ Above(published', target[q])
  <2>1. target[q] <= readModel.seq /\ Above(published, target[q]) /\ target[q] \in Nat
    BY <1>1, <1>2, <1>3 DEF PromptProjectorsLead, Prompt
  <2>2. Above(job.events, readModel.seq) /\ UpTo(published', readModel'.seq)
    BY <1>1 DEF SubscribersInOrder
  <2>3. Above(published', target[q])
    <3>1. /\ Len(published) \in Nat /\ Len(job.events) \in Nat
          /\ \A i \in 1..Len(published') :
               \/ i \in 1..Len(published) /\ published'[i] = published[i]
               \/ /\ i - Len(published) \in 1..Len(job.events)
                  /\ published'[i] = job.events[i - Len(published)]
      BY <1>1, <1>2
    <3>2. \A i \in 1..Len(job.events) : target[q] < job.events[i]
      <4> SUFFICES ASSUME NEW i \in 1..Len(job.events) PROVE target[q] < job.events[i]
        OBVIOUS
      <4>1. job.events[i] \in Nat /\ readModel.seq < job.events[i]
        BY <1>2, <2>2 DEF Above
      <4> QED
        BY <1>2, <2>1, <4>1
    <3> QED
      BY <2>1, <3>1, <3>2 DEF Above
  <2>4. published' \in Seq(Nat) /\ 1 \in 1..Len(published')
    BY <1>1, <1>2
  <2>5. target[q] < published'[1] /\ published'[1] <= readModel'.seq /\ published'[1] \in Nat
    BY <2>2, <2>3, <2>4 DEF Above, UpTo
  <2>6. target[q] <= readModel'.seq
    BY <1>2, <2>1, <2>5
  <2> QED
    BY <2>3, <2>6
<1> QED
  BY <1>1, <1>3 DEF PromptProjectorsLead, Even

\* A start that catches all projectors up alike reads the model they agree on.
LEMMA LeadReady ==
  ASSUME Consistent, SubscribersInOrder, PromptProjectorsLead, Ready
  PROVE  PromptProjectorsLead'
<1> DEFINE cursor == [q \in Projectors |-> IF q \in installed THEN db.cursor[q] ELSE Len(db.log)]
<1>1. /\ pc = "boot" /\ pc' = "idle" /\ db.cursor = target
      /\ readModel' = [Snapshot(db.tables, db.cursor) EXCEPT !.seq = StartSequence]
      /\ UNCHANGED <<db, tx, installed, retired, target, published>>
  BY DEF Ready, durable, history
<1>2. published = <<>> /\ Len(published) = 0
  BY <1>1 DEF SubscribersInOrder
<1>3. db \in Database /\ Len(db.log) \in Nat /\ db.cursor \in [Projectors -> Nat] /\ installed \subseteq Projectors
  BY DEF Consistent, Typed, TypeOK, Database
<1>4. readModel'.seq = StartSequence
  BY <1>1, <1>3, SnapshotType DEF Database, ReadModel
<1>5. ASSUME Even, NEW q \in Prompt
      PROVE  target[q] <= StartSequence
  <2>1. target[q] = Len(db.log) /\ q \in installed
    BY <1>1, <1>5 DEF PromptProjectorsLead
  <2>2. \A r \in Projectors : cursor[r] = target[q]
    BY <1>1, <1>5, <2>1 DEF Even
  <2>3. cursor \in [Projectors -> Nat]
    BY <1>3
  <2> HIDE DEF cursor
  <2>4. SnapshotSequence(cursor) = target[q]
    BY <2>2, <2>3, SnapshotSequenceIsLeast
  <2> QED
    BY <1>3, <2>1, <2>4 DEF StartSequence, cursor
<1>6. \A n : Above(published, n)
  BY <1>2 DEF Above
<1> QED
  BY <1>1, <1>4, <1>5, <1>6 DEF PromptProjectorsLead, Even

LEMMA LeadStep ==
  ASSUME "powerLoss" \notin Faults, Consistent, ReadModelInLog, SubscribersInOrder,
         PromptProjectorsLead, [Next]_vars
  PROVE  PromptProjectorsLead'
<1>n. Typed' /\ SubscribersInOrder'
  BY TypedNext, SubscribersStep DEF Consistent
<1>0. /\ db \in Database /\ Len(db.log) \in Nat /\ db.cursor \in [Projectors -> Nat]
      /\ readModel.seq \in Nat /\ readModel.seq <= Len(db.log)
      /\ retired \subseteq Nat /\ published \in Seq(Nat) /\ installed \subseteq Projectors
  BY DEF Consistent, Typed, TypeOK, Database, ReadModel, ReadModelInLog
<1>1. CASE AppendEvent
  BY <1>1, LeadAppend
<1>2. CASE Commit \/ CommitUnacknowledged
  BY <1>2, LeadCommit
<1>3. CASE Publish \/ ReplayDone
  BY <1>n, <1>3, LeadPublish
<1>4. CASE Ready
  BY <1>4, LeadReady
<1>5. CASE Start
  <2>1. /\ pc' = "boot" /\ UNCHANGED <<db, tx, installed, retired>>
        /\ target' = [q \in Projectors |-> IF q \in installed
                        THEN db.cursor[q] + Len(PageAfter(db.cursor[q])) ELSE db.cursor[q]]
    BY <1>5 DEF Start, durable, history
  <2>2. ASSUME NEW q \in Prompt PROVE target'[q] = Len(db.log)
    <3>1. q \in installed /\ q \in Projectors /\ db.cursor[q] = Len(db.log)
      BY DEF PromptProjectorsLead, UpToDate, Prompt
    <3>2. \A from \in Nat : from <= Len(db.log) =>
            PageAfter(from) \in Seq(Nat) /\ from + Len(PageAfter(from)) <= Len(db.log)
      BY <1>0, PageAfterIsNext, EngineAssumption
    <3>3. db.cursor[q] + Len(PageAfter(db.cursor[q])) = Len(db.log)
      <4>1. PICK from \in Nat : from = db.cursor[q]
        BY <1>0, <3>1
      <4>2. from = Len(db.log) /\ from <= Len(db.log)
        BY <1>0, <3>1, <4>1
      <4>3. Len(PageAfter(from)) \in Nat /\ from + Len(PageAfter(from)) <= Len(db.log)
        <5>1. PageAfter(from) \in Seq(Nat) /\ from + Len(PageAfter(from)) <= Len(db.log)
          BY <3>2, <4>1, <4>2, Zenon
        <5>2. \A s \in Seq(Nat) : Len(s) \in Nat
          OBVIOUS
        <5> QED
          BY <5>1, <5>2, Zenon
      <4>4. Len(PageAfter(from)) = 0
        <5>1. \A a, b, c \in Nat : a = c /\ a + b <= c => b = 0
          OBVIOUS
        <5> QED
          BY <1>0, <4>1, <4>2, <4>3, <5>1
      <4> QED
        BY <1>0, <4>1, <4>2, <4>4
    <3> QED
      BY <2>1, <3>1, <3>3
  <2> QED
    BY <2>1, <2>2 DEF PromptProjectorsLead
<1>6. CASE Bootstrap
  <2>1. PICK i \in 1..Len(ProjectorOrder) :
          LET q == ProjectorOrder[i]
              seq == db.cursor[q] + 1
          IN  /\ db.cursor[q] < target[q]
              /\ db' = [db EXCEPT !.tables = Apply(q, @, db.log[seq].event), !.cursor[q] = seq]
    BY <1>6 DEF Bootstrap
  <2> DEFINE q == ProjectorOrder[i]
  <2>2. /\ pc = "boot" /\ pc' = "boot" /\ tx' = db'
        /\ UNCHANGED <<installed, retired, target, readModel, published>>
    BY <1>6 DEF Bootstrap, history
  <2>3. q \in Projectors /\ db.cursor[q] < target[q] /\ db'.log = db.log
        /\ db'.cursor = [db.cursor EXCEPT ![q] = db.cursor[q] + 1]
    BY <1>0, <2>1 DEF Database, Projectors
  <2> HIDE DEF q
  <2>4. q \notin Prompt
    BY <1>0, <2>2, <2>3 DEF PromptProjectorsLead, UpToDate
  <2>5. UpToDate(db')
    BY <1>0, <2>3, <2>4 DEF PromptProjectorsLead, UpToDate, Prompt
  <2> QED
    BY <2>2, <2>3, <2>5, LeadQuiet
<1>7. CASE Crash
  <2>1. /\ pc' = "down" /\ db' = db /\ tx' = db /\ retired' = retired \cup Values(published)
        /\ UNCHANGED installed
    BY <1>7 DEF Crash, Stop
  <2>2. \A s \in Values(published) : s <= Len(db.log)
    <3> SUFFICES ASSUME NEW i \in 1..Len(published) PROVE published[i] <= Len(db.log)
      BY DEF Values
    <3>1. published[i] \in Nat /\ published[i] <= readModel.seq
      BY <1>0 DEF SubscribersInOrder, UpTo
    <3> QED
      BY <1>0, <3>1
  <2> QED
    BY <2>1, <2>2 DEF PromptProjectorsLead, UpToDate
<1>8. CASE RecordRejection
  <2> DEFINE d == [db EXCEPT !.receipts[job.command.id] =
                     [status |-> "rejected", seq |-> readModel.seq]]
  <2>1. d.log = db.log /\ d.cursor = db.cursor
    BY <1>0 DEF Database
  <2>2. db' = d /\ tx' = d /\ pc = "record" /\ pc' = "fail"
        /\ UNCHANGED <<installed, retired, target, readModel, published>>
    BY <1>8 DEF RecordRejection, history
  <2> HIDE DEF d
  <2>3. UpToDate(d)
    BY <2>1 DEF PromptProjectorsLead, UpToDate
  <2> QED
    BY <2>1, <2>2, <2>3, LeadQuiet
<1>9. CASE TakeCommand \/ AnswerFromReceipt \/ BeginTransaction \/ ReplyAccepted \/ ReplyFailed
  <2>1. /\ UNCHANGED <<db, installed, retired, target, readModel, published>> /\ tx' \in {db, tx}
        /\ pc \notin {"down", "boot"} /\ pc' \notin {"down", "boot"}
    BY <1>9 DEF TakeCommand, AnswerFromReceipt, BeginTransaction, ReplyAccepted, ReplyFailed,
       durable, history
  <2> QED
    BY <2>1, LeadPlain
<1>10. CASE ReceiptReadFails \/ Refuse \/ Rollback
  <2>1. /\ UNCHANGED <<db, installed, retired, target, readModel, published>> /\ tx' \in {db, tx}
        /\ pc \notin {"down", "boot"} /\ pc' \notin {"down", "boot"}
    BY <1>10 DEF ReceiptReadFails, Refuse, Rollback, FailWith, history
  <2> QED
    BY <2>1, LeadPlain
<1>11. CASE ReconcileRead \/ ReconcileReadFails \/ ReplayEvent \/ RecordRejectionFails
  <2>1. /\ UNCHANGED <<db, installed, retired, target, readModel, published>> /\ tx' \in {db, tx}
        /\ pc \notin {"down", "boot"} /\ pc' \notin {"down", "boot"}
    BY <1>11 DEF ReconcileRead, ReconcileReadFails, ReplayEvent, RecordRejectionFails,
       AfterReconcile, durable, history
  <2> QED
    BY <2>1, LeadPlain
<1>12. CASE (\E c \in Commands : Dispatch(c)) \/ UNCHANGED vars
  <2>1. /\ UNCHANGED <<db, installed, retired, target, readModel, published>> /\ tx' \in {db, tx}
        /\ pc' = pc
    BY <1>12 DEF Dispatch, vars, durable
  <2> QED
    BY <2>1, LeadPlain
<1>13. CASE Upgrade
  <2>1. /\ UNCHANGED <<db, tx, retired, target, readModel, published, pc>> /\ pc = "down"
        /\ installed' = Projectors
    BY <1>13 DEF Upgrade, volatile, history
  <2> QED
    BY <2>1 DEF PromptProjectorsLead, UpToDate, Prompt
<1>14. ~PowerLoss /\ ~WalCheckpoint
  BY DEF PowerLoss, WalCheckpoint
<1> QED
  BY <1>1, <1>2, <1>3, <1>4, <1>5, <1>6, <1>7, <1>8, <1>9, <1>10, <1>11, <1>12, <1>13, <1>14
     DEF Next, Worker, Boot

\* While the machine does not lose power, an event is published again after a
\* restart only if the start left one projector behind another, whatever fails,
\* however small a page is, and provided one projector ran from the first event on.
THEOREM RepetitionTakesALateProjector ==
  ASSUME "powerLoss" \notin Faults, LateProjectors # Projectors
  PROVE  Spec => []RepublishedOnlyIfBehind
<1>1. Init => PromptProjectorsLead
  <2> SUFFICES ASSUME Init PROVE PromptProjectorsLead
    OBVIOUS
  <2>1. /\ db = EmptyDatabase /\ tx = EmptyDatabase /\ pc = "down" /\ retired = {}
        /\ installed = Projectors \ LateProjectors
        /\ EmptyDatabase.cursor = [q \in Projectors |-> 0]
        /\ EmptyDatabase.log = <<>> /\ Len(EmptyDatabase.log) = 0
    BY DEF Init, EmptyDatabase
  <2> QED
    BY <2>1 DEF PromptProjectorsLead, UpToDate, Prompt
<1>2. Consistent /\ ReadModelInLog /\ SubscribersInOrder /\ PromptProjectorsLead /\ [Next]_vars
      => PromptProjectorsLead'
  BY LeadStep
<1>3. Consistent /\ SubscribersInOrder /\ PromptProjectorsLead => RepublishedOnlyIfBehind
  <2> SUFFICES ASSUME Consistent, SubscribersInOrder, PromptProjectorsLead,
                      NEW i \in 1..Len(published), published[i] \in retired,
                      \A q, r \in installed : ~(target[q] < target[r])
               PROVE  FALSE
    BY DEF RepublishedOnlyIfBehind, Values
  <2>1. /\ target \in [Projectors -> Nat] /\ installed \subseteq Projectors
        /\ published \in Seq(Nat)
    BY DEF Consistent, Typed, TypeOK
  <2>2. Even
    BY <2>1 DEF Even
  <2>3. pc \notin {"down", "boot"}
    <3>1. Len(published) \in Nat /\ i \in 1..Len(published)
      BY <2>1
    <3>2. published # <<>>
      BY <3>1
    <3> QED
      BY <3>2 DEF SubscribersInOrder
  <2>4. PICK q \in Prompt : TRUE
    BY EngineAssumption DEF Prompt
  <2>5. target[q] < published[i] /\ published[i] <= target[q]
    BY <2>2, <2>3 DEF PromptProjectorsLead, Above
  <2>6. target[q] \in Nat /\ published[i] \in Nat
    BY <2>1 DEF Prompt
  <2> QED
    BY <2>5, <2>6
<1> QED
  BY <1>1, <1>2, <1>3, AlwaysInOrder, PTL DEF Spec
=============================================================================
