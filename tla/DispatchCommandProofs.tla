----------------------- MODULE DispatchCommandProofs ------------------------
(***************************************************************************)
(* The engine together with the attempts of a first turn is still the      *)
(* engine, so what is proved of the engine holds of it; and, for any       *)
(* number of attempts, an attempt only ever deletes a thread it created and*)
(* no turn started in, and a first turn that failed leaves no thread.      *)
(***************************************************************************)
EXTENDS DispatchCommand, ReadModelProofs

-----------------------------------------------------------------------------
(* The engine underneath *)

\* A handler queues one command of its own, or does not move.
LEMMA HandlerDispatches ==
  ASSUME NEW a \in Attempts, Handler(a)
  PROVE  \E c \in Commands : Dispatch(c)
<1>1. {CreateCommand(a), StartCommand, DeleteCommand(a)} \subseteq Commands
  BY DispatchAssumption
<1> QED
  BY <1>1 DEF Handler, BeginAttempt, StartTurn, CleanUp

\* Every step is a step of the engine or leaves its variables alone.
LEMMA StepMapsToEngine ==
  ASSUME [DispatchNext]_dispatchVars
  PROVE  [Next]_vars
<1>1. CASE \E c \in ClientCommands : Dispatch(c) /\ UNCHANGED attempts
  BY <1>1 DEF ClientCommands, Next
<1>2. CASE \E a \in Attempts : Handler(a)
  BY <1>2, HandlerDispatches DEF Next
<1>3. CASE WorkerAnswers
  BY <1>3 DEF WorkerAnswers, Worker, Next
<1>4. CASE WorkerProceeds
  BY <1>4 DEF WorkerProceeds, Worker, Next
<1>5. CASE Boot \/ Crash \/ PowerLoss \/ WalCheckpoint \/ Upgrade
  BY <1>5 DEF Next
<1>6. CASE UNCHANGED dispatchVars
  BY <1>6 DEF dispatchVars
<1> QED
  BY <1>1, <1>2, <1>3, <1>4, <1>5, <1>6 DEF DispatchNext, ProcessEnds, Surroundings

\* The engine behaves as the engine, whatever the attempts ask of it.
THEOREM AttemptsUseTheEngine == DispatchSpec => Spec
<1>1. DispatchInit => Init
  BY DEF DispatchInit
<1>2. [DispatchNext]_dispatchVars => [Next]_vars
  BY StepMapsToEngine
<1> QED
  BY <1>1, <1>2, PTL DEF DispatchSpec, Spec

\* The commands of the attempts, too, take effect at most once and whole.
THEOREM AttemptsTakeEffectOnce == DispatchSpec => []ExactlyOnce
BY AttemptsUseTheEngine, CommandsTakeEffectOnce

-----------------------------------------------------------------------------
(* Attempts and receipts *)

\* Receipts that exist stay, so what an attempt knows of them stays true.
LEMMA StayingAttempts ==
  ASSUME "powerLoss" \notin Faults, Consistent, [Next]_vars, AttemptsOwnTheirThread,
         AttemptsTypeOK, NEW a \in Attempts, attempts'[a] \in {attempts[a], "lost", "failed"}
  PROVE  /\ attempts'[a] \in {"created", "starting", "undoing", "deleting", "done"} =>
              db'.receipts[CreateId[a]].status = "accepted"
         /\ attempts'[a] = "done" => db'.receipts[StartId].status = "accepted"
<1>1. CreateId[a] \in Ids /\ StartId \in Ids
  <2>1. CreateCommand(a) \in Commands /\ StartCommand \in Commands
    BY DispatchAssumption
  <2>2. CreateCommand(a).id = CreateId[a] /\ StartCommand.id = StartId
    BY DEF CreateCommand, StartCommand
  <2> QED
    BY <2>1, <2>2 DEF Ids
<1>2. KeepsReceipts
  BY ReceiptsKept
<1> QED
  BY <1>1, <1>2 DEF KeepsReceipts, AttemptsOwnTheirThread

\* An answer of success reaches an attempt only when the command it waits for has
\* an accepted receipt.
LEMMA AnswersMoveAttempts ==
  ASSUME "powerLoss" \notin Faults, Consistent, [Next]_vars, AttemptsOwnTheirThread,
         AttemptsTypeOK, NEW ok \in BOOLEAN, Answered(ok), UNCHANGED db, job.command.id \in Ids,
         ok => db.receipts[job.command.id].status = "accepted"
  PROVE  AttemptsTypeOK' /\ AttemptsOwnTheirThread'
<1>1. ASSUME NEW a \in Attempts
      PROVE  /\ attempts'[a] \in Stages
             /\ attempts'[a] \in {"created", "starting", "undoing", "deleting", "done"} =>
                  db'.receipts[CreateId[a]].status = "accepted"
             /\ attempts'[a] = "done" => db'.receipts[StartId].status = "accepted"
  <2>0. attempts[a] \in Stages
    BY DEF AttemptsTypeOK
  <2>1. CASE Awaited(a) # job.command.id
    <3>1. attempts'[a] = attempts[a]
      BY <2>1 DEF Answered
    <3> QED
      BY <2>0, <3>1, StayingAttempts
  <2>2. CASE Awaited(a) = job.command.id /\ attempts[a] = "creating"
    <3>1. attempts'[a] = (IF ok THEN "created" ELSE "failed") /\ job.command.id = CreateId[a]
      BY <2>2 DEF Answered, Onward, Awaited
    <3> QED
      BY <3>1 DEF Stages
  <2>3. CASE Awaited(a) = job.command.id /\ attempts[a] = "starting"
    <3>1. attempts'[a] = (IF ok THEN "done" ELSE "undoing") /\ job.command.id = StartId
      BY <2>3 DEF Answered, Onward, Awaited
    <3>2. db.receipts[CreateId[a]].status = "accepted"
      BY <2>3 DEF AttemptsOwnTheirThread
    <3> QED
      BY <3>1, <3>2 DEF Stages
  <2>4. CASE Awaited(a) = job.command.id /\ attempts[a] = "deleting"
    <3>1. attempts'[a] = "failed"
      BY <2>4 DEF Answered, Onward
    <3> QED
      BY <3>1 DEF Stages
  <2>5. CASE Awaited(a) = job.command.id /\ attempts[a] \notin {"creating", "starting", "deleting"}
    <3>1. Awaited(a) = None
      BY <2>5 DEF Awaited
    <3> QED
      BY <2>5, <3>1, DispatchAssumption
  <2> QED
    BY <2>1, <2>2, <2>3, <2>4, <2>5
<1>2. attempts' = [a \in Attempts |-> attempts'[a]]
  BY DEF Answered
<1> QED
  BY <1>1, <1>2 DEF AttemptsTypeOK, AttemptsOwnTheirThread

\* The types of the attempts and their knowledge survive every step.
LEMMA AttemptsStep ==
  ASSUME "powerLoss" \notin Faults, Consistent, AttemptsOwnTheirThread, AttemptsTypeOK,
         [DispatchNext]_dispatchVars
  PROVE  AttemptsTypeOK' /\ AttemptsOwnTheirThread'
<1>0. [Next]_vars
  BY StepMapsToEngine
<1>1. CASE UNCHANGED attempts
  <2>1. \A a \in Attempts : attempts'[a] \in {attempts[a], "lost", "failed"}
    BY <1>1
  <2> QED
    BY <1>0, <1>1, <2>1, StayingAttempts DEF AttemptsTypeOK, AttemptsOwnTheirThread
<1>2. ASSUME NEW a \in Attempts, Handler(a)
      PROVE  AttemptsTypeOK' /\ AttemptsOwnTheirThread'
  <2>1. UNCHANGED db
    BY <1>2 DEF Handler, BeginAttempt, StartTurn, CleanUp, Dispatch, durable
  <2>2. PICK stage \in {"creating", "starting", "deleting"} :
          /\ attempts' = [attempts EXCEPT ![a] = stage]
          /\ stage # "creating" => attempts[a] \in {"created", "undoing"}
    BY <1>2 DEF Handler, BeginAttempt, StartTurn, CleanUp, Enter
  <2> QED
    BY <2>1, <2>2 DEF AttemptsTypeOK, AttemptsOwnTheirThread, Stages
<1>3. CASE WorkerAnswers
  <2>0. /\ pc \in {"receipt", "reply", "fail"} => job.command.id \in Ids
        /\ pc = "reply" => db.receipts[job.command.id].status = "accepted"
    BY DEF Consistent, Typed, StepsAreFed, CommitsAreWhole, AnswerIsReceipt, Ids
  <2>1. PICK ok \in BOOLEAN :
          /\ Answered(ok) /\ UNCHANGED db /\ job.command.id \in Ids
          /\ ok => db.receipts[job.command.id].status = "accepted"
    <3>1. CASE AnswerFromReceipt /\ Answered(db.receipts[job.command.id].status = "accepted")
      <4>1. UNCHANGED db /\ job.command.id \in Ids
        BY <2>0, <3>1 DEF AnswerFromReceipt, durable
      <4>2. CASE db.receipts[job.command.id].status = "accepted"
        BY <3>1, <4>1, <4>2
      <4>3. CASE db.receipts[job.command.id].status # "accepted"
        BY <3>1, <4>1, <4>3
      <4> QED
        BY <4>2, <4>3
    <3>2. CASE ReplyAccepted /\ Answered(TRUE)
      BY <2>0, <3>2 DEF ReplyAccepted, durable
    <3>3. CASE ReplyFailed /\ Answered(FALSE)
      BY <2>0, <3>3 DEF ReplyFailed, durable
    <3> QED
      BY <1>3, <3>1, <3>2, <3>3 DEF WorkerAnswers
  <2> QED
    BY <1>0, <2>1, AnswersMoveAttempts
<1>4. CASE LoseAttempts
  <2>1. \A a \in Attempts : attempts'[a] \in {attempts[a], "lost", "failed"}
    BY <1>4 DEF LoseAttempts
  <2>2. AttemptsOwnTheirThread'
    BY <1>0, <2>1, StayingAttempts DEF AttemptsOwnTheirThread
  <2> QED
    BY <1>4, <2>2 DEF LoseAttempts, AttemptsTypeOK, Stages
<1> QED
  BY <1>1, <1>2, <1>3, <1>4 DEF DispatchNext, WorkerProceeds, ProcessEnds, Surroundings, dispatchVars

\* Unless power is lost, an attempt deletes the thread only after its own create of
\* it was accepted, and tells of a turn only if its start was accepted, for any
\* number of attempts, other clients, failures and crashes.
THEOREM AttemptsDeleteOnlyTheirOwn ==
  ASSUME "powerLoss" \notin Faults
  PROVE  DispatchSpec => []AttemptsOwnTheirThread
<1>1. DispatchInit => AttemptsTypeOK /\ AttemptsOwnTheirThread
  BY DEF DispatchInit, AttemptsTypeOK, AttemptsOwnTheirThread, Stages
<1>2. Consistent /\ AttemptsTypeOK /\ AttemptsOwnTheirThread /\ [DispatchNext]_dispatchVars
      => AttemptsTypeOK' /\ AttemptsOwnTheirThread'
  BY AttemptsStep
<1> QED
  BY <1>1, <1>2, AttemptsUseTheEngine, AlwaysConsistent, PTL DEF DispatchSpec

-----------------------------------------------------------------------------
(* What the attempts ask of the engine *)

AtRest == pc \in {"down", "boot", "idle"}

\* The commands the clients and the attempts send.
Sent == ClientCommands \cup {StartCommand}
        \cup {CreateCommand(a) : a \in Attempts} \cup {DeleteCommand(a) : a \in Attempts}

OnlySent ==
  /\ \A i \in 1..Len(queue) : queue[i] \in Sent
  /\ ~AtRest => job.command \in Sent

\* The ids in use: those of the commands on their way and of the logged entries.
UsesOnly(S) ==
  /\ \A i \in 1..Len(queue) : queue[i].id \in S
  /\ ~AtRest => job.command.id \in S
  /\ \A d \in {db, tx, synced} : \A i \in 1..Len(d.log) : d.log[i].id \in S

DeleteIds == {DeleteId[a] : a \in Attempts}

\* No attempt has come to delete its thread, unless the client was told that the
\* start failed.
NothingUndone ==
  /\ \A a \in Attempts : attempts[a] \notin {"undoing", "deleting"}
  /\ UsesOnly(Ids \ DeleteIds)

UndoneIsTold == NothingUndone \/ Failed \in replies[StartId]

\* An attempt sends nothing before it begins.
AttemptsBegin ==
  \A a \in Attempts : attempts[a] = "none" => UsesOnly(Ids \ {CreateId[a]})

\* An attempt failed because its create did, or it deleted the thread, or could not.
FailuresAreKnown ==
  \A a \in Attempts : attempts[a] = "failed" =>
    \/ Failed \in replies[CreateId[a]] \cup replies[DeleteId[a]]
    \/ db.receipts[DeleteId[a]].status = "accepted"

IsCreation(e) == e.type = "thread.created" /\ e.thread = Thread
IsStart(e) == e.type = "thread.turn-start-requested"
IsDeletion(e) == e.type = "thread.deleted" /\ e.thread = Thread

\* The thread is created by an attempt; the events of its start and of a delete are
\* in the log once they were accepted.
CreatedByAttempts ==
  /\ \A d \in {db, tx, synced} : \A i \in 1..Len(d.log) :
       IsCreation(d.log[i].event) => \E a \in Attempts : d.log[i].id = CreateId[a]
  /\ pc = "transaction" => \A i \in 1..Len(job.todo) :
       IsCreation(job.todo[i]) => \E a \in Attempts : job.command.id = CreateId[a]

StartsIn(log) == \E i \in 1..Len(log) : IsStart(log[i].event)
DeletesIn(log) == \E i \in 1..Len(log) : IsDeletion(log[i].event)

AcceptedIsLogged ==
  /\ db.receipts[StartId].status = "accepted" => StartsIn(db.log)
  /\ \A a \in Attempts :
       db.receipts[DeleteId[a]].status = "accepted" => DeletesIn(db.log)
  /\ pc = "transaction" =>
       /\ job.command.id = StartId =>
            StartsIn(tx.log) \/ \E i \in 1..Len(job.todo) : IsStart(job.todo[i])
       /\ job.command.id \in DeleteIds =>
            DeletesIn(tx.log) \/ \E i \in 1..Len(job.todo) : IsDeletion(job.todo[i])

\* The steps that send nothing.
EngineStep == Worker \/ Boot \/ Crash \/ PowerLoss \/ WalCheckpoint \/ Upgrade \/ UNCHANGED vars

LEMMA StepKinds ==
  ASSUME [DispatchNext]_dispatchVars
  PROVE  \/ \E c \in ClientCommands : Dispatch(c) /\ UNCHANGED attempts
         \/ \E a \in Attempts : Handler(a)
         \/ EngineStep
<1>1. CASE WorkerAnswers \/ WorkerProceeds
  BY <1>1 DEF WorkerAnswers, WorkerProceeds, Worker, EngineStep
<1>2. CASE ProcessEnds \/ Surroundings \/ UNCHANGED dispatchVars
  BY <1>2 DEF ProcessEnds, Surroundings, dispatchVars, EngineStep
<1> QED
  BY <1>1, <1>2 DEF DispatchNext

\* The ids of the attempts are ids of commands.
LEMMA AttemptIds ==
  ASSUME NEW a \in Attempts
  PROVE  /\ CreateId[a] \in Ids /\ StartId \in Ids /\ DeleteId[a] \in Ids
         /\ CreateCommand(a).id = CreateId[a] /\ StartCommand.id = StartId
         /\ DeleteCommand(a).id = DeleteId[a]
<1>1. /\ CreateCommand(a) \in Commands /\ StartCommand \in Commands
      /\ DeleteCommand(a) \in Commands
  BY DispatchAssumption
<1>2. /\ CreateCommand(a).id = CreateId[a] /\ StartCommand.id = StartId
      /\ DeleteCommand(a).id = DeleteId[a]
  BY DEF CreateCommand, StartCommand, DeleteCommand
<1> QED
  BY <1>1, <1>2 DEF Ids

LEMMA StartIsSent == StartId \in Ids /\ StartCommand.id = StartId
<1>1. StartCommand.id = StartId
  BY DEF StartCommand
<1> QED
  BY <1>1, DispatchAssumption DEF Ids

\* Clients are only ever told more.
LEMMA RepliesGrow ==
  ASSUME Typed, [Next]_vars, NEW id \in Ids
  PROVE  replies[id] \subseteq replies'[id]
<1>1. replies \in [Ids -> SUBSET Reply]
  BY DEF Typed, TypeOK
<1>2. \A x, r : Answer(x, r) => replies[id] \subseteq replies'[id]
  BY <1>1 DEF Answer
<1>3. CASE AnswerFromReceipt \/ ReplyAccepted \/ ReplyFailed
  BY <1>2, <1>3 DEF AnswerFromReceipt, ReplyAccepted, ReplyFailed
<1>4. CASE UNCHANGED replies
  BY <1>4
<1>5. CASE TakeCommand \/ BeginTransaction \/ AppendEvent \/ Commit \/ Publish
  BY <1>4, <1>5 DEF TakeCommand, BeginTransaction, AppendEvent, Commit, Publish, history
<1>6. CASE ReceiptReadFails \/ Refuse \/ Rollback \/ CommitUnacknowledged
  BY <1>4, <1>6 DEF ReceiptReadFails, Refuse, Rollback, CommitUnacknowledged, FailWith, history
<1>7. CASE ReconcileRead \/ ReconcileReadFails \/ ReplayEvent \/ ReplayDone
           \/ RecordRejection \/ RecordRejectionFails
  BY <1>4, <1>7 DEF ReconcileRead, ReconcileReadFails, ReplayEvent, ReplayDone,
     RecordRejection, RecordRejectionFails, history
<1>8. CASE Boot \/ Crash \/ PowerLoss \/ WalCheckpoint \/ Upgrade
  BY <1>4, <1>8 DEF Boot, Start, Bootstrap, Ready, Crash, PowerLoss, Stop, WalCheckpoint,
     Upgrade, history
<1>9. CASE (\E c \in Commands : Dispatch(c)) \/ UNCHANGED vars
  BY <1>4, <1>9 DEF Dispatch, vars
<1> QED
  BY <1>3, <1>5, <1>6, <1>7, <1>8, <1>9 DEF Next, Worker

\* The commands in the queue and in process are some of those sent.
LEMMA CommandsStayIn ==
  ASSUME Typed, NEW S, \A i \in 1..Len(queue) : queue[i] \in S, ~AtRest => job.command \in S,
         EngineStep \/ \E c \in S : Dispatch(c)
  PROVE  /\ \A i \in 1..Len(queue') : queue'[i] \in S
         /\ ~AtRest' => job'.command \in S
<1>0. queue \in Seq(Commands) /\ job \in Job
  BY DEF Typed, TypeOK
<1>1. ASSUME NEW c \in S, Dispatch(c)
      PROVE  /\ \A i \in 1..Len(queue') : queue'[i] \in S
             /\ ~AtRest' => job'.command \in S
  <2>1. queue' = Append(queue, c) /\ UNCHANGED <<pc, job>>
    BY <1>1 DEF Dispatch
  <2>2. \A i \in 1..Len(Append(queue, c)) : Append(queue, c)[i] \in S
    BY <1>0
  <2> QED
    BY <2>1, <2>2 DEF AtRest
<1>2. CASE TakeCommand
  <2>1. queue' = Tail(queue) /\ queue # <<>> /\ job'.command = Head(queue)
    BY <1>2 DEF TakeCommand, NoJob
  <2>2. Head(queue) \in S /\ \A i \in 1..Len(Tail(queue)) : Tail(queue)[i] \in S
    BY <1>0, <2>1
  <2> QED
    BY <2>1, <2>2
<1>3. CASE Crash \/ PowerLoss
  BY <1>3 DEF Crash, PowerLoss, Stop, AtRest
<1>4. CASE AnswerFromReceipt \/ ReplyAccepted \/ ReplyFailed
  BY <1>4 DEF AnswerFromReceipt, ReplyAccepted, ReplyFailed, AtRest
<1>5. CASE BeginTransaction \/ AppendEvent \/ Commit \/ Publish
  BY <1>0, <1>5 DEF BeginTransaction, AppendEvent, Commit, Publish, AtRest, Job
<1>6. CASE ReceiptReadFails \/ Refuse \/ Rollback \/ CommitUnacknowledged
  BY <1>0, <1>6 DEF ReceiptReadFails, Refuse, Rollback, CommitUnacknowledged, FailWith, AtRest, Job
<1>7. CASE ReconcileRead \/ ReconcileReadFails \/ ReplayEvent \/ ReplayDone
           \/ RecordRejection \/ RecordRejectionFails
  BY <1>0, <1>7 DEF ReconcileRead, ReconcileReadFails, ReplayEvent, ReplayDone,
     RecordRejection, RecordRejectionFails, AtRest, Job
<1>8. CASE Boot \/ WalCheckpoint \/ Upgrade \/ UNCHANGED vars
  BY <1>8 DEF Boot, Start, Bootstrap, Ready, WalCheckpoint, Upgrade, volatile, vars, AtRest
<1> QED
  BY <1>1, <1>2, <1>3, <1>4, <1>5, <1>6, <1>7, <1>8 DEF EngineStep, Worker

\* The logs of the stores gain nothing but the entries appended.
LEMMA EntriesStayIn ==
  ASSUME Typed, [Next]_vars, NEW S,
         \A d \in {db, tx, synced} : \A i \in 1..Len(d.log) : d.log[i] \in S,
         AppendEvent => [id |-> job.command.id, event |-> Head(job.todo)] \in S
  PROVE  \A d \in {db', tx', synced'} : \A i \in 1..Len(d.log) : d.log[i] \in S
<1>0. db \in Database /\ tx \in Database /\ synced \in Database
  BY DEF Typed, TypeOK
<1>1. CASE AppendEvent
  <2> DEFINE entry == [id |-> job.command.id, event |-> Head(job.todo)]
             d1 == [tx EXCEPT !.log = Append(@, entry)]
  <2>1. tx' = ProjectAll(d1, Head(job.todo), Len(tx.log) + 1) /\ UNCHANGED <<db, synced>>
    BY <1>1 DEF AppendEvent, durable
  <2>2. entry \in S
    BY <1>1
  <2> HIDE DEF entry
  <2>3. d1.log = Append(tx.log, entry) /\ tx'.log = d1.log
    BY <1>0, <2>1 DEF ProjectAll, Database
  <2>4. \A i \in 1..Len(tx'.log) : tx'.log[i] \in S
    <3>1. tx.log \in Seq(Entry) /\ \A i \in 1..Len(tx.log) : tx.log[i] \in S
      BY <1>0 DEF Database
    <3>2. \A i \in 1..Len(Append(tx.log, entry)) : Append(tx.log, entry)[i] \in S
      BY <2>2, <3>1
    <3> QED
      BY <2>3, <3>2
  <2> QED
    BY <2>1, <2>4
<1>2. CASE \A d \in {db', tx', synced'} : \E s \in {db, tx, synced} : d.log = s.log
  BY <1>2
<1>3. CASE Commit \/ CommitUnacknowledged
  <2>1. WithReceipt.log = tx.log
    BY <1>0 DEF WithReceipt, Database
  <2>2. db' = WithReceipt /\ tx' = db' /\ UNCHANGED synced
    BY <1>3 DEF Commit, CommitUnacknowledged, FailWith
  <2> QED
    BY <1>2, <2>1, <2>2
<1>4. CASE RecordRejection
  <2> DEFINE d == [db EXCEPT !.receipts[job.command.id] =
                     [status |-> "rejected", seq |-> readModel.seq]]
  <2>1. d.log = db.log
    BY <1>0 DEF Database
  <2>2. db' = d /\ tx' = db' /\ UNCHANGED synced
    BY <1>4 DEF RecordRejection
  <2> HIDE DEF d
  <2> QED
    BY <1>2, <2>1, <2>2
<1>5. CASE Bootstrap
  <2>1. db'.log = db.log /\ tx' = db' /\ UNCHANGED synced
    BY <1>0, <1>5 DEF Bootstrap, Database
  <2> QED
    BY <1>2, <2>1
<1>6. CASE TakeCommand \/ AnswerFromReceipt \/ BeginTransaction \/ Publish \/ ReplyAccepted
  <2>1. UNCHANGED <<db, synced>> /\ tx' \in {db, tx}
    BY <1>6 DEF TakeCommand, AnswerFromReceipt, BeginTransaction, Publish, ReplyAccepted, durable
  <2> QED
    BY <1>2, <2>1
<1>7. CASE ReceiptReadFails \/ Refuse \/ Rollback
  <2>1. UNCHANGED <<db, synced>> /\ tx' \in {db, tx}
    BY <1>7 DEF ReceiptReadFails, Refuse, Rollback, FailWith
  <2> QED
    BY <1>2, <2>1
<1>8. CASE ReconcileRead \/ ReconcileReadFails \/ ReplayEvent \/ ReplayDone
           \/ RecordRejectionFails \/ ReplyFailed
  <2>1. UNCHANGED <<db, synced, tx>>
    BY <1>8 DEF ReconcileRead, ReconcileReadFails, ReplayEvent, ReplayDone,
       RecordRejectionFails, ReplyFailed, durable
  <2> QED
    BY <1>2, <2>1
<1>9. CASE Start \/ Ready \/ (\E c \in Commands : Dispatch(c)) \/ UNCHANGED vars
  <2>1. UNCHANGED <<db, synced, tx>>
    BY <1>9 DEF Start, Ready, Dispatch, vars, durable
  <2> QED
    BY <1>2, <2>1
<1>10. CASE Crash \/ PowerLoss \/ WalCheckpoint \/ Upgrade
  <2>1. db' \in {db, synced} /\ tx' \in {db, tx, synced} /\ synced' \in {db, synced}
    BY <1>10 DEF Crash, PowerLoss, Stop, WalCheckpoint, Upgrade, volatile
  <2> QED
    BY <1>2, <2>1
<1> QED
  BY <1>1, <1>3, <1>4, <1>5, <1>6, <1>7, <1>8, <1>9, <1>10 DEF Next, Worker, Boot

\* A step that sends a command whose id is in S uses ids in S.
LEMMA IdsStayIn ==
  ASSUME Consistent, [Next]_vars, NEW S, UsesOnly(S),
         EngineStep \/ \E c \in Commands : c.id \in S /\ Dispatch(c)
  PROVE  UsesOnly(S)'
<1> DEFINE C == {c \in Commands : c.id \in S}
           E == {x \in Entry : x.id \in S}
<1>0. /\ queue \in Seq(Commands) /\ (~AtRest => job.command \in Commands)
      /\ Typed /\ \A d \in {db, tx, synced} : d.log \in Seq(Entry)
  BY DEF Consistent, Typed, TypeOK, StepsAreFed, AtRest, Database
<1>1. (\A i \in 1..Len(queue) : queue[i] \in C) /\ (~AtRest => job.command \in C)
  <2>1. (\A i \in 1..Len(queue) : queue[i].id \in S) /\ (~AtRest => job.command.id \in S)
    BY DEF UsesOnly
  <2>2. queue \in Seq(Commands) /\ (~AtRest => job.command \in Commands)
    BY <1>0
  <2>3. \A i \in 1..Len(queue) : queue[i] \in Commands
    BY <2>2
  <2>4. \A i \in 1..Len(queue) : queue[i] \in C
    BY <2>1, <2>3
  <2> QED
    BY <2>1, <2>2, <2>4
<1>2. (\A i \in 1..Len(queue') : queue'[i] \in C) /\ (~AtRest' => job'.command \in C)
  <2>1. EngineStep \/ \E c \in C : Dispatch(c)
    OBVIOUS
  <2> HIDE DEF C
  <2> QED
    BY <1>0, <1>1, <2>1, CommandsStayIn
<1>3. \A d \in {db, tx, synced} : \A i \in 1..Len(d.log) : d.log[i] \in E
  <2>1. \A d \in {db, tx, synced} : \A i \in 1..Len(d.log) : d.log[i] \in Entry
    BY <1>0
  <2> QED
    BY <2>1 DEF UsesOnly
<1>4. AppendEvent => [id |-> job.command.id, event |-> Head(job.todo)] \in E
  <2> SUFFICES ASSUME AppendEvent
               PROVE  [id |-> job.command.id, event |-> Head(job.todo)] \in E
    OBVIOUS
  <2>1. job.todo \in Seq(Event) /\ job.todo # <<>> /\ ~AtRest
    BY <1>0 DEF AppendEvent, AtRest, Typed, TypeOK, Job
  <2>2. Head(job.todo) \in Event
    BY <2>1
  <2>3. job.command.id \in S /\ job.command.id \in Ids
    <3>1. job.command \in C
      BY <1>1, <2>1
    <3> QED
      BY <3>1 DEF Ids
  <2> QED
    BY <2>2, <2>3 DEF Entry
<1>5. \A d \in {db', tx', synced'} : \A i \in 1..Len(d.log) : d.log[i] \in E
  <2> HIDE DEF E
  <2> QED
    BY <1>0, <1>3, <1>4, EntriesStayIn
<1> QED
  BY <1>2, <1>5 DEF UsesOnly, AtRest

\* How an attempt may move, and what is known when it does.
LEMMA AttemptsMove ==
  ASSUME Consistent, AttemptsTypeOK, [DispatchNext]_dispatchVars,
         NEW a \in Attempts, attempts'[a] # attempts[a]
  PROVE  LET from == attempts[a]
             to == attempts'[a]
         IN  \/ from = "none" /\ to = "creating"
             \/ from = "created" /\ to = "starting"
             \/ from = "undoing" /\ to = "deleting"
             \/ from \notin {"none", "done", "failed"} /\ to = "lost"
             \/ from = "creating" /\ to = "created"
             \/ from = "creating" /\ to = "failed" /\ Failed \in replies'[CreateId[a]]
             \/ from = "starting" /\ to = "done"
             \/ from = "starting" /\ to = "undoing" /\ Failed \in replies'[StartId]
             \/ /\ from = "deleting" /\ to = "failed"
                /\ \/ Failed \in replies'[DeleteId[a]]
                   \/ db'.receipts[DeleteId[a]].status = "accepted"
<1>0. /\ attempts \in [Attempts -> Stages] /\ replies \in [Ids -> SUBSET Reply]
      /\ CreateId[a] \in Ids /\ StartId \in Ids /\ DeleteId[a] \in Ids
  BY AttemptIds DEF AttemptsTypeOK, Consistent, Typed, TypeOK
<1>1. CASE \E b \in Attempts : Handler(b)
  <2>1. PICK b \in Attempts : Handler(b)
    BY <1>1
  <2> QED
    BY <1>0, <2>1 DEF Handler, BeginAttempt, StartTurn, CleanUp, Enter
<1>2. CASE WorkerAnswers
  <2> DEFINE id == job.command.id
  <2>0. /\ pc \in {"receipt", "reply", "fail"} => id \in Ids
        /\ pc = "reply" => db.receipts[id].status = "accepted"
    BY DEF Consistent, Typed, StepsAreFed, CommitsAreWhole, AnswerIsReceipt, Ids
  <2>1. PICK ok \in BOOLEAN :
          /\ Answered(ok) /\ UNCHANGED db /\ id \in Ids
          /\ ok => db.receipts[id].status = "accepted"
          /\ ~ok => Failed \in replies'[id]
    <3>1. CASE AnswerFromReceipt /\ Answered(db.receipts[id].status = "accepted")
      <4>1. UNCHANGED db /\ id \in Ids
        BY <2>0, <3>1 DEF AnswerFromReceipt, durable
      <4>2. CASE db.receipts[id].status = "accepted"
        BY <3>1, <4>1, <4>2
      <4>3. CASE db.receipts[id].status # "accepted"
        <5>1. Answer(id, Failed)
          BY <3>1, <4>3 DEF AnswerFromReceipt
        <5>2. Failed \in replies'[id]
          BY <1>0, <4>1, <5>1 DEF Answer
        <5> QED
          BY <3>1, <4>1, <4>3, <5>2
      <4> QED
        BY <4>2, <4>3
    <3>2. CASE ReplyAccepted /\ Answered(TRUE)
      BY <2>0, <3>2 DEF ReplyAccepted, durable
    <3>3. CASE ReplyFailed /\ Answered(FALSE)
      <4>1. UNCHANGED db /\ id \in Ids /\ Answer(id, Failed)
        BY <2>0, <3>3 DEF ReplyFailed, durable
      <4>2. Failed \in replies'[id]
        BY <1>0, <4>1 DEF Answer
      <4> QED
        BY <3>3, <4>1, <4>2
    <3> QED
      BY <1>2, <3>1, <3>2, <3>3 DEF WorkerAnswers
  <2>2. Awaited(a) = id /\ attempts'[a] = Onward(attempts[a], ok)
    BY <2>1 DEF Answered
  <2>3. attempts[a] \in {"creating", "starting", "deleting"}
    <3>1. CASE attempts[a] \notin {"creating", "starting", "deleting"}
      <4>1. Awaited(a) = None
        BY <3>1 DEF Awaited
      <4> QED
        BY <2>1, <2>2, <4>1, DispatchAssumption
    <3> QED
      BY <3>1
  <2>4. CASE attempts[a] = "creating"
    BY <2>1, <2>2, <2>4 DEF Onward, Awaited
  <2>5. CASE attempts[a] = "starting"
    BY <2>1, <2>2, <2>5 DEF Onward, Awaited
  <2>6. CASE attempts[a] = "deleting"
    BY <2>1, <2>2, <2>6 DEF Onward, Awaited
  <2> QED
    BY <2>3, <2>4, <2>5, <2>6
<1>3. CASE LoseAttempts
  BY <1>0, <1>3 DEF LoseAttempts
<1> QED
  BY <1>1, <1>2, <1>3 DEF DispatchNext, WorkerProceeds, ProcessEnds, Surroundings, dispatchVars

\* An attempt sends a command only when it moves, and the command is its own.
LEMMA AttemptsSend ==
  ASSUME AttemptsTypeOK, NEW a \in Attempts, Handler(a)
  PROVE  \/ attempts[a] = "none" /\ attempts'[a] = "creating" /\ Dispatch(CreateCommand(a))
         \/ attempts[a] = "created" /\ Dispatch(StartCommand)
         \/ attempts[a] = "undoing" /\ attempts'[a] = "deleting" /\ Dispatch(DeleteCommand(a))
BY DEF Handler, BeginAttempt, StartTurn, CleanUp, Enter, AttemptsTypeOK

\* The engine only ever has commands of the clients and the attempts.
LEMMA OnlySentStep ==
  ASSUME Typed, AttemptsTypeOK, OnlySent, [DispatchNext]_dispatchVars
  PROVE  OnlySent'
<1>1. EngineStep \/ \E c \in Sent : Dispatch(c)
  BY StepKinds, AttemptsSend DEF Sent
<1> QED
  BY <1>1, CommandsStayIn DEF OnlySent, AtRest

\* The ids of clients, creates and starts are not those of deletes.
LEMMA OthersAreNoDeletes ==
  /\ \A c \in ClientCommands : c.id \in Ids \ DeleteIds
  /\ \A a \in Attempts : {CreateId[a], StartId} \subseteq Ids \ DeleteIds
BY AttemptIds, DispatchAssumption DEF DeleteIds, ClientCommands, Ids

\* An attempt comes to undo its create by the answer to the start, which the client
\* is given as well.
LEMMA UndoneStep ==
  ASSUME Consistent, AttemptsTypeOK, UndoneIsTold, [DispatchNext]_dispatchVars
  PROVE  UndoneIsTold'
<1>0. [Next]_vars /\ Typed
  BY StepMapsToEngine DEF Consistent
<1>1. replies[StartId] \subseteq replies'[StartId]
  BY <1>0, StartIsSent, RepliesGrow
<1>2. SUFFICES ASSUME NothingUndone, Failed \notin replies'[StartId]
               PROVE  NothingUndone'
  BY <1>1 DEF UndoneIsTold
<1>3. ASSUME NEW a \in Attempts
      PROVE  attempts'[a] \notin {"undoing", "deleting"}
  <2>1. attempts[a] \notin {"undoing", "deleting"}
    BY <1>2 DEF NothingUndone
  <2>2. CASE attempts'[a] = attempts[a]
    BY <2>1, <2>2
  <2>3. CASE attempts'[a] # attempts[a]
    BY <1>2, <2>1, <2>3, AttemptsMove
  <2> QED
    BY <2>2, <2>3
<1>4. EngineStep \/ \E c \in Commands : c.id \in Ids \ DeleteIds /\ Dispatch(c)
  <2>1. ASSUME NEW a \in Attempts, Handler(a)
        PROVE  Dispatch(CreateCommand(a)) \/ Dispatch(StartCommand)
    BY <1>2, <2>1, AttemptsSend DEF NothingUndone
  <2>2. \A a \in Attempts : {CreateCommand(a), StartCommand} \subseteq Commands
    BY DispatchAssumption
  <2> QED
    BY <2>1, <2>2, StepKinds, AttemptIds, OthersAreNoDeletes DEF ClientCommands
<1>5. UsesOnly(Ids \ DeleteIds)'
  BY <1>0, <1>2, <1>4, IdsStayIn DEF NothingUndone
<1> QED
  BY <1>3, <1>5 DEF NothingUndone

LEMMA AttemptsInit ==
  DispatchInit => AttemptsTypeOK /\ OnlySent /\ UndoneIsTold
<1> SUFFICES ASSUME DispatchInit PROVE AttemptsTypeOK /\ OnlySent /\ UndoneIsTold
  OBVIOUS
<1>1. /\ queue = <<>> /\ pc = "down" /\ attempts = [a \in Attempts |-> "none"]
      /\ db = EmptyDatabase /\ tx = EmptyDatabase /\ synced = EmptyDatabase
      /\ EmptyDatabase.log = <<>> /\ Len(EmptyDatabase.log) = 0
  BY DEF DispatchInit, Init, EmptyDatabase
<1>2. AttemptsTypeOK
  BY <1>1 DEF AttemptsTypeOK, Stages
<1>3. OnlySent
  BY <1>1 DEF OnlySent, AtRest
<1>4. NothingUndone
  BY <1>1 DEF NothingUndone, UsesOnly, AtRest
<1> QED
  BY <1>2, <1>3, <1>4 DEF UndoneIsTold

\* Attempts stay in their stages, whatever fails.
LEMMA AttemptsTypeStep ==
  ASSUME Consistent, AttemptsTypeOK, [DispatchNext]_dispatchVars
  PROVE  AttemptsTypeOK'
<1>1. attempts' = [a \in Attempts |-> attempts'[a]]
  BY DEF AttemptsTypeOK, DispatchNext, Handler, BeginAttempt, StartTurn, CleanUp, Enter,
     WorkerAnswers, Answered, WorkerProceeds, ProcessEnds, LoseAttempts, Surroundings, dispatchVars
<1>2. ASSUME NEW a \in Attempts PROVE attempts'[a] \in Stages
  <2>1. attempts[a] \in Stages
    BY DEF AttemptsTypeOK
  <2>2. CASE attempts'[a] # attempts[a]
    BY <2>2, AttemptsMove DEF Stages
  <2> QED
    BY <2>1, <2>2
<1> QED
  BY <1>1, <1>2 DEF AttemptsTypeOK

LEMMA AlwaysSent == DispatchSpec => [](Consistent /\ AttemptsTypeOK /\ OnlySent /\ UndoneIsTold)
<1>1. Consistent /\ AttemptsTypeOK /\ OnlySent /\ UndoneIsTold /\ [DispatchNext]_dispatchVars
      => AttemptsTypeOK' /\ OnlySent' /\ UndoneIsTold'
  BY AttemptsTypeStep, OnlySentStep, UndoneStep DEF Consistent
<1> QED
  BY <1>1, AttemptsInit, AttemptsUseTheEngine, AlwaysConsistent, PTL DEF DispatchSpec

\* Whatever fails, and however often the request is sent: once a turn started, the
\* thread is deleted by an attempt only if the client was told that the start failed.
THEOREM StartedThreadsAreKept == DispatchSpec => []BootstrapKeepsStartedThreads
<1>1. UndoneIsTold => BootstrapKeepsStartedThreads
  <2> SUFFICES ASSUME UndoneIsTold, NEW j \in CleanUps
               PROVE  Failed \in replies[StartId]
    BY DEF BootstrapKeepsStartedThreads
  <2>1. j \in 1..Len(db.log) /\ db.log[j].id \in DeleteIds
    BY DEF CleanUps, DeleteIds
  <2> QED
    BY <2>1 DEF UndoneIsTold, NothingUndone, UsesOnly
<1> QED
  BY <1>1, AlwaysSent, PTL

-----------------------------------------------------------------------------
(* What a failed first turn leaves *)

\* No client but the attempts creates the thread.
OnlyAttemptsCreate ==
  \A c \in ClientCommands : ~(c.type = "thread.create" /\ c.thread = Thread)

\* Only a command to create a thread makes an event that one was created.
LEMMA CreationsAreAsked ==
  ASSUME NEW m \in ReadModel, NEW c \in Commands, NEW es \in Decide(m, c),
         NEW i \in 1..Len(es), es[i].type = "thread.created"
  PROVE  c.type = "thread.create" /\ es[i].thread = c.thread
<1>0. c \in Command(Ids)
  BY EngineAssumption
<1>1. CASE c.type = "thread.create"
  <2>1. es = <<[type |-> "thread.created", thread |-> c.thread, project |-> c.project]>>
    BY <1>1 DEF Decide, ThreadRequests
  <2>2. Len(es) = 1 /\ i = 1
    BY <2>1
  <2> QED
    BY <1>1, <2>1, <2>2
<1>2. CASE c.type = "thread.proposed-plan.upsert"
  <2>1. es = <<[type |-> "thread.proposed-plan-upserted", thread |-> c.thread, plan |-> c.plan,
                   createdAt |-> c.createdAt]>>
    BY <1>2 DEF Decide, ThreadRequests
  <2>2. Len(es) = 1 /\ i = 1
    BY <2>1
  <2> QED
    BY <2>1, <2>2
<1>3. CASE c.type = "project.delete"
  <2> DEFINE active == ActiveThreads(m, c.project)
             deleted(ts) == [j \in 1..Len(ts) |-> [type |-> "thread.deleted", thread |-> ts[j]]]
             last == [type |-> "project.deleted", project |-> c.project]
             S == [type : {"thread.deleted"}, thread : active]
  <2>1. PICK ts \in SetToSeqs(active) : es = deleted(ts) \o <<last>>
    BY <1>3 DEF Decide, ThreadRequests, ProjectDeletions
  <2>2. Cardinality(active) \in Nat
    <3>1. IsFiniteSet(Threads)
      BY ModelAssumption
    <3>2. active \subseteq Threads
      BY RowType DEF ActiveThreads, ReadModel
    <3> QED
      BY <3>1, <3>2, FS_Subset, FS_CardinalityType
  <2>3. ts \in [1..Cardinality(active) -> active]
    BY DEF SetToSeqs
  <2>4. ts \in Seq(active) /\ Len(ts) = Cardinality(active)
    BY <2>2, <2>3
  <2>5. deleted(ts) \in Seq(S) /\ Len(deleted(ts)) = Len(ts)
    <3>1. Len(ts) \in Nat /\ \A j \in 1..Len(ts) : [type |-> "thread.deleted", thread |-> ts[j]] \in S
      BY <2>2, <2>3, <2>4
    <3> HIDE DEF S, active
    <3>2. deleted(ts) \in [1..Len(ts) -> S]
      BY <3>1
    <3> QED
      BY <3>1, <3>2
  <2>6. /\ last.type # "thread.created"
        /\ \A j \in 1..Len(ts) : deleted(ts)[j].type # "thread.created"
    BY <2>5
  <2> HIDE DEF last, deleted
  <2>7. /\ Len(es) = Len(ts) + 1 /\ es[Len(ts) + 1] = last
        /\ \A j \in 1..Len(ts) : es[j] = deleted(ts)[j]
    BY <2>1, <2>2, <2>4, <2>5
  <2> QED
    BY <2>2, <2>4, <2>6, <2>7
<1>4. CASE c.type = "thread.turn.start"
  <2>1. es = <<[type |-> "thread.message-sent", thread |-> c.thread],
               [type |-> "thread.turn-start-requested", thread |-> c.thread]>>
    BY <1>4 DEF Decide, ThreadRequests
  <2>2. Len(es) = 2 /\ \A j \in 1..2 : es[j].type # "thread.created"
    BY <2>1
  <2> QED
    BY <2>2
<1>5. CASE c.type \in ThreadRequests
  <2>1. es = <<[type |-> RequestEvent(c.type), thread |-> c.thread]>>
    BY <1>5 DEF Decide, ThreadRequests
  <2>2. RequestEvent(c.type) # "thread.created" /\ Len(es) = 1
    BY <2>1 DEF RequestEvent
  <2> QED
    BY <2>1, <2>2
<1>6. CASE c.type \in {"project.create", "project.meta.update", "thread.delete", "thread.archive",
                       "thread.unarchive", "sandbox.model.pin", "sandbox.model.unpin"}
  <2>1. \E e : es = <<e>> /\ e.type # "thread.created"
    <3>1. CASE c.type = "project.create"
      BY <3>1 DEF Decide, ThreadRequests
    <3>2. CASE c.type = "project.meta.update"
      BY <3>2 DEF Decide, ThreadRequests
    <3>3. CASE c.type = "thread.delete"
      BY <3>3 DEF Decide, ThreadRequests
    <3>4. CASE c.type = "thread.archive"
      BY <3>4 DEF Decide, ThreadRequests
    <3>5. CASE c.type = "thread.unarchive"
      BY <3>5 DEF Decide, ThreadRequests
    <3>6. CASE c.type = "sandbox.model.pin"
      BY <3>6 DEF Decide, ThreadRequests
    <3>7. CASE c.type = "sandbox.model.unpin"
      BY <3>7 DEF Decide, ThreadRequests
    <3> QED
      BY <1>6, <3>1, <3>2, <3>3, <3>4, <3>5, <3>6, <3>7
  <2>2. Len(es) = 1
    BY <2>1
  <2> QED
    BY <2>1, <2>2
<1>7. \/ c.type \in ThreadRequests
      \/ c.type \in {"project.create", "project.meta.update", "project.delete", "thread.create",
                     "thread.delete", "thread.archive", "thread.unarchive", "thread.turn.start",
                     "thread.proposed-plan.upsert", "sandbox.model.pin", "sandbox.model.unpin"}
  BY <1>0 DEF Command
<1> QED
  BY <1>1, <1>2, <1>3, <1>4, <1>5, <1>6, <1>7

LEMMA StartIsDecided ==
  ASSUME NEW m \in ReadModel, NEW es \in Decide(m, StartCommand)
  PROVE  \E i \in 1..Len(es) : IsStart(es[i])
<1>1. es = <<[type |-> "thread.message-sent", thread |-> Thread],
             [type |-> "thread.turn-start-requested", thread |-> Thread]>>
  BY DEF Decide, ThreadRequests, StartCommand
<1>2. 2 \in 1..Len(es) /\ es[2].type = "thread.turn-start-requested"
  BY <1>1
<1> QED
  BY <1>2 DEF IsStart

LEMMA DeleteIsDecided ==
  ASSUME NEW m \in ReadModel, NEW a \in Attempts, NEW es \in Decide(m, DeleteCommand(a))
  PROVE  \E i \in 1..Len(es) : IsDeletion(es[i])
<1>1. es = <<[type |-> "thread.deleted", thread |-> Thread]>>
  BY DEF Decide, ThreadRequests, DeleteCommand
<1>2. 1 \in 1..Len(es) /\ es[1] = [type |-> "thread.deleted", thread |-> Thread]
  BY <1>1
<1> QED
  BY <1>2 DEF IsDeletion

\* What the ids of a command in process say of it.
LEMMA IdsNameCommands ==
  ASSUME NEW c \in Sent
  PROVE  /\ c.id = StartId => c = StartCommand
         /\ c.id \in DeleteIds => \E a \in Attempts : c = DeleteCommand(a)
         /\ OnlyAttemptsCreate /\ c.type = "thread.create" /\ c.thread = Thread =>
              \E a \in Attempts : c.id = CreateId[a]
<1>1. CASE c \in ClientCommands
  BY <1>1 DEF ClientCommands, DeleteIds, OnlyAttemptsCreate
<1>2. CASE c = StartCommand
  BY <1>2, DispatchAssumption DEF StartCommand, DeleteIds
<1>3. ASSUME NEW a \in Attempts, c = CreateCommand(a)
      PROVE  c.id = CreateId[a] /\ c.id # StartId /\ c.id \notin DeleteIds
  BY <1>3, DispatchAssumption DEF CreateCommand, DeleteIds
<1>4. ASSUME NEW a \in Attempts, c = DeleteCommand(a)
      PROVE  c.id # StartId /\ c.type # "thread.create"
  BY <1>4, DispatchAssumption DEF DeleteCommand
<1> QED
  BY <1>1, <1>2, <1>3, <1>4 DEF Sent

\* The steps that lead to an open transaction.
LEMMA TransactionSteps ==
  ASSUME [Next]_vars, pc' = "transaction"
  PROVE  BeginTransaction \/ AppendEvent \/ (pc = "transaction" /\ UNCHANGED <<job, tx>>)
<1>1. CASE UNCHANGED vars
  BY <1>1 DEF vars
<1>2. CASE (\E c \in Commands : Dispatch(c)) \/ Boot \/ Crash \/ PowerLoss \/ WalCheckpoint \/ Upgrade
  BY <1>2 DEF Dispatch, Boot, Start, Bootstrap, Ready, Crash, PowerLoss, Stop, WalCheckpoint,
     Upgrade, volatile
<1>3. CASE TakeCommand \/ AnswerFromReceipt \/ Commit \/ Publish \/ ReplyAccepted \/ ReplyFailed
  BY <1>3 DEF TakeCommand, AnswerFromReceipt, Commit, Publish, ReplyAccepted, ReplyFailed
<1>4. CASE ReceiptReadFails \/ Refuse \/ Rollback \/ CommitUnacknowledged
  BY <1>4 DEF ReceiptReadFails, Refuse, Rollback, CommitUnacknowledged, FailWith
<1>5. CASE ReconcileRead \/ ReconcileReadFails \/ ReplayEvent \/ ReplayDone
           \/ RecordRejection \/ RecordRejectionFails
  BY <1>5 DEF ReconcileRead, ReconcileReadFails, ReplayEvent, ReplayDone, RecordRejection,
     RecordRejectionFails, AfterReconcile
<1> QED
  BY <1>1, <1>2, <1>3, <1>4, <1>5 DEF Next, Worker

\* What the steps do to the committed log and receipts, while power lasts.
LEMMA DatabaseSteps ==
  ASSUME "powerLoss" \notin Faults, Typed, [Next]_vars
  PROVE  \/ db'.log = db.log /\ db'.receipts = db.receipts
         \/ CommitStep
         \/ RecordRejection /\ db'.log = db.log
<1>0. db \in Database
  BY DEF Typed, TypeOK
<1>1. CASE RecordRejection
  <2> DEFINE d == [db EXCEPT !.receipts[job.command.id] =
                     [status |-> "rejected", seq |-> readModel.seq]]
  <2>1. d.log = db.log
    BY <1>0 DEF Database
  <2>2. db' = d
    BY <1>1 DEF RecordRejection
  <2> HIDE DEF d
  <2> QED
    BY <1>1, <2>1, <2>2
<1>2. CASE Bootstrap
  BY <1>0, <1>2 DEF Bootstrap, Database
<1>3. CASE UNCHANGED vars
  BY <1>3 DEF vars
<1>4. CASE (\E c \in Commands : Dispatch(c)) \/ Start \/ Ready
  BY <1>4 DEF Dispatch, Start, Ready, durable
<1>5. CASE Crash \/ PowerLoss \/ WalCheckpoint \/ Upgrade
  BY <1>5 DEF Crash, Stop, PowerLoss, WalCheckpoint, Upgrade
<1>6. CASE TakeCommand \/ AnswerFromReceipt \/ BeginTransaction \/ AppendEvent \/ Publish
           \/ ReplyAccepted \/ ReceiptReadFails \/ Refuse \/ Rollback \/ ReconcileRead
           \/ ReconcileReadFails \/ ReplayEvent \/ ReplayDone \/ RecordRejectionFails \/ ReplyFailed
  BY <1>6 DEF TakeCommand, AnswerFromReceipt, BeginTransaction, AppendEvent, Publish,
       ReplyAccepted, ReceiptReadFails, Refuse, Rollback, ReconcileRead, ReconcileReadFails,
       ReplayEvent, ReplayDone, RecordRejectionFails, ReplyFailed, durable
<1> QED
  BY <1>1, <1>2, <1>3, <1>4, <1>5, <1>6 DEF Next, Worker, Boot, CommitStep

\* What is logged stays logged.
LEMMA LoggedStays ==
  ASSUME NEW log, NEW log2, Len(log) \in Nat, Len(log2) \in Nat, Len(log) <= Len(log2),
         \A i \in 1..Len(log) : log2[i] = log[i]
  PROVE  (StartsIn(log) => StartsIn(log2)) /\ (DeletesIn(log) => DeletesIn(log2))
<1>1. \A i \in 1..Len(log) : i \in 1..Len(log2)
  OBVIOUS
<1> QED
  BY <1>1 DEF StartsIn, DeletesIn

\* An attempt that has not begun keeps its id to itself.
LEMMA BeginsStep ==
  ASSUME Consistent, AttemptsTypeOK, AttemptsBegin, [DispatchNext]_dispatchVars
  PROVE  AttemptsBegin'
<1>1. SUFFICES ASSUME NEW a \in Attempts, attempts'[a] = "none"
               PROVE  UsesOnly(Ids \ {CreateId[a]})'
  BY DEF AttemptsBegin
<1>2. attempts[a] = "none"
  BY <1>1, AttemptsMove
<1>3. UsesOnly(Ids \ {CreateId[a]})
  BY <1>2 DEF AttemptsBegin
<1>4. EngineStep \/ \E c \in Commands : c.id \in Ids \ {CreateId[a]} /\ Dispatch(c)
  <2>1. CASE \E c \in ClientCommands : Dispatch(c)
    BY <2>1 DEF ClientCommands, Ids
  <2>2. ASSUME NEW b \in Attempts, Handler(b)
        PROVE  \E c \in Commands : c.id \in Ids \ {CreateId[a]} /\ Dispatch(c)
    <3>1. CASE Dispatch(CreateCommand(b)) /\ attempts'[b] = "creating"
      <4>1. CreateId[b] # CreateId[a]
        BY <1>1, <3>1, DispatchAssumption
      <4> QED
        BY <3>1, <4>1, AttemptIds, DispatchAssumption
    <3>2. CASE Dispatch(StartCommand)
      BY <3>2, StartIsSent, DispatchAssumption
    <3>3. CASE Dispatch(DeleteCommand(b))
      BY <3>3, AttemptIds, DispatchAssumption
    <3> QED
      BY <2>2, <3>1, <3>2, <3>3, AttemptsSend
  <2> QED
    BY <2>1, <2>2, StepKinds
<1>5. [Next]_vars
  BY StepMapsToEngine
<1> QED
  BY <1>3, <1>4, <1>5, IdsStayIn

\* What is known of a failed attempt stays known.
LEMMA FailuresStep ==
  ASSUME "powerLoss" \notin Faults, Consistent, AttemptsTypeOK, FailuresAreKnown,
         [DispatchNext]_dispatchVars
  PROVE  FailuresAreKnown'
<1>1. SUFFICES ASSUME NEW a \in Attempts, attempts'[a] = "failed"
               PROVE  \/ Failed \in replies'[CreateId[a]] \cup replies'[DeleteId[a]]
                      \/ db'.receipts[DeleteId[a]].status = "accepted"
  BY DEF FailuresAreKnown
<1>2. [Next]_vars /\ Typed /\ CreateId[a] \in Ids /\ DeleteId[a] \in Ids
  BY StepMapsToEngine, AttemptIds DEF Consistent
<1>3. CASE attempts[a] = "failed"
  <2>1. \/ Failed \in replies[CreateId[a]] \cup replies[DeleteId[a]]
        \/ db.receipts[DeleteId[a]].status = "accepted"
    BY <1>3 DEF FailuresAreKnown
  <2>2. /\ replies[CreateId[a]] \subseteq replies'[CreateId[a]]
        /\ replies[DeleteId[a]] \subseteq replies'[DeleteId[a]]
    BY <1>2, RepliesGrow
  <2>3. KeepsReceipts
    BY <1>2, ReceiptsKept
  <2> QED
    BY <1>2, <2>1, <2>2, <2>3 DEF KeepsReceipts
<1>4. CASE attempts[a] # "failed"
  BY <1>1, <1>4, AttemptsMove
<1> QED
  BY <1>3, <1>4

\* Where an event came from is what the id of its entry says.
LEMMA CreatedStep ==
  ASSUME OnlyAttemptsCreate, Consistent, OnlySent, CreatedByAttempts, [Next]_vars
  PROVE  CreatedByAttempts'
<1> DEFINE E == {x \in Entry : IsCreation(x.event) => \E a \in Attempts : x.id = CreateId[a]}
<1>0. /\ Typed /\ \A d \in {db, tx, synced} : d.log \in Seq(Entry)
      /\ job \in Job /\ readModel \in ReadModel
      /\ \A i \in 1..Len(job.todo) : job.todo[i] \in Event
  BY DEF Consistent, Typed, TypeOK, Database, Job
<1>1. \A d \in {db, tx, synced} : \A i \in 1..Len(d.log) : d.log[i] \in E
  <2>1. \A d \in {db, tx, synced} : \A i \in 1..Len(d.log) : d.log[i] \in Entry
    BY <1>0
  <2> QED
    BY <2>1 DEF CreatedByAttempts
<1>2. AppendEvent => [id |-> job.command.id, event |-> Head(job.todo)] \in E
  <2> SUFFICES ASSUME AppendEvent
               PROVE  [id |-> job.command.id, event |-> Head(job.todo)] \in E
    OBVIOUS
  <2>1. job.todo \in Seq(Event) /\ job.todo # <<>> /\ pc = "transaction" /\ job.command \in Commands
    BY <1>0 DEF AppendEvent, Typed, TypeOK, StepsAreFed, Job
  <2>2. Head(job.todo) = job.todo[1] /\ 1 \in 1..Len(job.todo) /\ Head(job.todo) \in Event
    BY <2>1
  <2>3. job.command.id \in Ids
    BY <2>1 DEF Ids
  <2>4. IsCreation(Head(job.todo)) => \E a \in Attempts : job.command.id = CreateId[a]
    BY <2>1, <2>2 DEF CreatedByAttempts
  <2> QED
    BY <2>2, <2>3, <2>4 DEF Entry
<1>3. \A d \in {db', tx', synced'} : \A i \in 1..Len(d.log) : d.log[i] \in E
  <2> HIDE DEF E
  <2> QED
    BY <1>0, <1>1, <1>2, EntriesStayIn
<1>4. ASSUME pc' = "transaction", NEW i \in 1..Len(job'.todo), IsCreation(job'.todo[i])
      PROVE  \E a \in Attempts : job'.command.id = CreateId[a]
  <2>1. CASE BeginTransaction
    <3>1. /\ job'.command = job.command /\ job'.todo \in Decide(readModel, job.command)
          /\ job.command \in Commands /\ job.command \in Sent
      BY <1>0, <2>1 DEF BeginTransaction, Typed, StepsAreFed, Job, OnlySent, AtRest
    <3>2. job.command.type = "thread.create" /\ job.command.thread = Thread
      BY <1>0, <1>4, <3>1, CreationsAreAsked DEF IsCreation
    <3> QED
      BY <3>1, <3>2, IdsNameCommands
  <2>2. CASE AppendEvent
    <3>1. /\ job.todo # <<>> /\ job.todo \in Seq(Event) /\ pc = "transaction"
          /\ job'.todo = Tail(job.todo) /\ job'.command = job.command
      BY <1>0, <2>2 DEF AppendEvent, Job
    <3>2. i + 1 \in 1..Len(job.todo) /\ job'.todo[i] = job.todo[i + 1]
      BY <1>4, <3>1
    <3> QED
      BY <1>4, <3>1, <3>2 DEF CreatedByAttempts
  <2>3. CASE pc = "transaction" /\ UNCHANGED <<job, tx>>
    BY <1>4, <2>3 DEF CreatedByAttempts
  <2> QED
    BY <1>4, <2>1, <2>2, <2>3, TransactionSteps
<1> QED
  BY <1>3, <1>4 DEF CreatedByAttempts

\* The open transaction extends the committed log.
LEMMA OpenExtends ==
  ASSUME Consistent, pc = "transaction"
  PROVE  /\ db.log \in Seq(Entry) /\ tx.log \in Seq(Entry)
         /\ Len(db.log) \in Nat /\ Len(tx.log) \in Nat /\ Len(db.log) <= Len(tx.log)
         /\ \A i \in 1..Len(db.log) : tx.log[i] = db.log[i]
<1>1. db \in Database /\ tx \in Database /\ job \in Job
  BY DEF Consistent, Typed, TypeOK
<1>2. Len(db.log) \in Nat /\ Len(tx.log) \in Nat /\ Len(job.events) \in Nat
      /\ db.log \in Seq(Entry) /\ tx.log \in Seq(Entry)
  BY <1>1 DEF Database, Job
<1>3. /\ Len(tx.log) = Len(db.log) + Len(job.events)
      /\ \A i \in 1..Len(db.log) : tx.log[i] = db.log[i]
  BY DEF Consistent, CommitsAreWhole, TransactionExtendsLog
<1>4. \A a, b, c \in Nat : a = b + c => b <= a
  OBVIOUS
<1> QED
  BY <1>2, <1>3, <1>4

\* A commit logs the start, or the deletion, that it accepts.
LEMMA CommitLogs ==
  ASSUME Consistent, AcceptedIsLogged, CommitStep
  PROVE  /\ db'.receipts[StartId].status = "accepted" => StartsIn(db'.log)
         /\ \A a \in Attempts :
              db'.receipts[DeleteId[a]].status = "accepted" => DeletesIn(db'.log)
<1>1. pc = "transaction" /\ job.todo = <<>> /\ db' = WithReceipt
  BY DEF CommitStep, Commit, CommitUnacknowledged
<1>2. /\ tx \in Database /\ job.command.id \in Ids /\ tx.receipts = db.receipts
      /\ db.receipts \in [Ids -> Receipt]
  BY <1>1 DEF Consistent, Typed, TypeOK, StepsAreFed, CommitsAreWhole, TransactionExtendsLog,
     Ids, Database
<1>3. /\ db'.log = tx.log
      /\ db'.receipts = [db.receipts EXCEPT ![job.command.id] =
                           [status |-> "accepted", seq |-> Len(tx.log)]]
  BY <1>1, <1>2 DEF WithReceipt, Database
<1>4. (StartsIn(db.log) => StartsIn(db'.log)) /\ (DeletesIn(db.log) => DeletesIn(db'.log))
  BY <1>1, <1>3, OpenExtends, LoggedStays
<1>5. Len(job.todo) = 0
  BY <1>1
<1>6. /\ job.command.id = StartId => StartsIn(db'.log)
      /\ job.command.id \in DeleteIds => DeletesIn(db'.log)
  BY <1>1, <1>3, <1>5 DEF AcceptedIsLogged
<1>7. db'.receipts[StartId].status = "accepted" => StartsIn(db'.log)
  <2>1. CASE job.command.id = StartId
    BY <1>6, <2>1
  <2>2. CASE job.command.id # StartId
    <3>1. db'.receipts[StartId] = db.receipts[StartId]
      BY <1>2, <1>3, <2>2, StartIsSent
    <3> QED
      BY <1>4, <3>1 DEF AcceptedIsLogged
  <2> QED
    BY <2>1, <2>2
<1>8. ASSUME NEW a \in Attempts
      PROVE  db'.receipts[DeleteId[a]].status = "accepted" => DeletesIn(db'.log)
  <2>1. CASE job.command.id = DeleteId[a]
    BY <1>6, <2>1 DEF DeleteIds
  <2>2. CASE job.command.id # DeleteId[a]
    <3>1. db'.receipts[DeleteId[a]] = db.receipts[DeleteId[a]]
      BY <1>2, <1>3, <2>2, AttemptIds
    <3> QED
      BY <1>4, <3>1 DEF AcceptedIsLogged
  <2> QED
    BY <2>1, <2>2
<1> QED
  BY <1>7, <1>8

\* An appended event leaves the events still to append for the log.
LEMMA AppendLogs ==
  ASSUME Consistent, AppendEvent
  PROVE  /\ StartsIn(tx.log) \/ (\E i \in 1..Len(job.todo) : IsStart(job.todo[i])) =>
              StartsIn(tx'.log) \/ \E i \in 1..Len(job'.todo) : IsStart(job'.todo[i])
         /\ DeletesIn(tx.log) \/ (\E i \in 1..Len(job.todo) : IsDeletion(job.todo[i])) =>
              DeletesIn(tx'.log) \/ \E i \in 1..Len(job'.todo) : IsDeletion(job'.todo[i])
<1> DEFINE e == Head(job.todo)
           entry == [id |-> job.command.id, event |-> e]
           d1 == [tx EXCEPT !.log = Append(@, entry)]
<1>1. /\ pc = "transaction" /\ job.todo # <<>>
      /\ tx' = ProjectAll(d1, e, Len(tx.log) + 1)
      /\ job' = [job EXCEPT !.todo = Tail(@), !.events = Append(@, Len(tx.log) + 1),
                            !.next = ProjectEvent(@, e, Len(tx.log) + 1)]
  BY DEF AppendEvent
<1>2. job.todo \in Seq(Event) /\ job \in Job /\ tx \in Database
  BY DEF Consistent, Typed, TypeOK, Job
<1>3. job'.todo = Tail(job.todo)
  BY <1>1, <1>2 DEF Job
<1>4. entry.event = e
  OBVIOUS
<1>5. tx'.log = Append(tx.log, entry)
  <2> HIDE DEF entry
  <2>1. d1.log = Append(tx.log, entry) /\ tx'.log = d1.log
    BY <1>1, <1>2 DEF ProjectAll, Database
  <2> QED
    BY <2>1
<1> HIDE DEF entry, e
<1>6. /\ Len(tx.log) \in Nat /\ Len(tx'.log) = Len(tx.log) + 1
      /\ tx'.log[Len(tx.log) + 1] = entry
      /\ \A i \in 1..Len(tx.log) : tx'.log[i] = tx.log[i]
  <2>1. tx.log \in Seq(Entry)
    BY <1>2 DEF Database
  <2> QED
    BY <1>5, <2>1
<1>7. (StartsIn(tx.log) => StartsIn(tx'.log)) /\ (DeletesIn(tx.log) => DeletesIn(tx'.log))
  <2>1. Len(tx'.log) \in Nat /\ Len(tx.log) <= Len(tx'.log)
    BY <1>6
  <2> QED
    BY <1>6, <2>1, LoggedStays
<1>8. (IsStart(e) => StartsIn(tx'.log)) /\ (IsDeletion(e) => DeletesIn(tx'.log))
  <2>1. Len(tx.log) + 1 \in 1..Len(tx'.log) /\ tx'.log[Len(tx.log) + 1].event = e
    BY <1>4, <1>6
  <2> QED
    BY <2>1 DEF StartsIn, DeletesIn
<1>9. ASSUME NEW i \in 1..Len(job.todo)
      PROVE  job.todo[i] = e \/ \E j \in 1..Len(job'.todo) : job'.todo[j] = job.todo[i]
  <2>1. CASE i = 1
    BY <1>1, <1>2, <2>1 DEF e
  <2>2. CASE i # 1
    <3>1. i - 1 \in 1..Len(Tail(job.todo)) /\ Tail(job.todo)[i - 1] = job.todo[i]
      BY <1>1, <1>2, <2>2
    <3> QED
      BY <1>3, <3>1
  <2> QED
    BY <2>1, <2>2
<1> QED
  BY <1>7, <1>8, <1>9

\* What is accepted of the start and the deletes is in the log.
LEMMA LoggedStep ==
  ASSUME "powerLoss" \notin Faults, Consistent, OnlySent, AcceptedIsLogged, [Next]_vars
  PROVE  AcceptedIsLogged'
<1>0. Typed /\ db.receipts \in [Ids -> Receipt] /\ readModel \in ReadModel /\ job \in Job
  BY DEF Consistent, Typed, TypeOK, Database
<1>1. /\ db'.receipts[StartId].status = "accepted" => StartsIn(db'.log)
      /\ \A a \in Attempts :
           db'.receipts[DeleteId[a]].status = "accepted" => DeletesIn(db'.log)
  <2>1. CASE db'.log = db.log /\ db'.receipts = db.receipts
    BY <2>1 DEF AcceptedIsLogged, StartsIn, DeletesIn
  <2>2. CASE CommitStep
    BY <2>2, CommitLogs
  <2>3. CASE RecordRejection /\ db'.log = db.log
    <3>1. /\ db' = [db EXCEPT !.receipts[job.command.id] =
                      [status |-> "rejected", seq |-> readModel.seq]]
          /\ db \in Database
      BY <1>0, <2>3 DEF RecordRejection, Typed, TypeOK
    <3>2. db'.receipts = [db.receipts EXCEPT ![job.command.id] =
                            [status |-> "rejected", seq |-> readModel.seq]]
      BY <3>1 DEF Database
    <3>3. \A id \in Ids : db'.receipts[id].status = "accepted" => db.receipts[id].status = "accepted"
      BY <1>0, <3>2
    <3>4. \A a \in Attempts : DeleteId[a] \in Ids
      BY AttemptIds
    <3> QED
      BY <2>3, <3>3, <3>4, StartIsSent DEF AcceptedIsLogged, StartsIn, DeletesIn
  <2> QED
    BY <1>0, <2>1, <2>2, <2>3, DatabaseSteps
<1>2. ASSUME pc' = "transaction"
      PROVE  /\ job'.command.id = StartId =>
                  StartsIn(tx'.log) \/ \E i \in 1..Len(job'.todo) : IsStart(job'.todo[i])
             /\ job'.command.id \in DeleteIds =>
                  DeletesIn(tx'.log) \/ \E i \in 1..Len(job'.todo) : IsDeletion(job'.todo[i])
  <2>1. CASE BeginTransaction
    <3>1. /\ job'.command = job.command /\ job'.todo \in Decide(readModel, job.command)
          /\ job.command \in Sent
      BY <1>0, <2>1 DEF BeginTransaction, Job, OnlySent, AtRest
    <3>2. /\ job.command.id = StartId => job.command = StartCommand
          /\ job.command.id \in DeleteIds => \E a \in Attempts : job.command = DeleteCommand(a)
      BY <3>1, IdsNameCommands
    <3> QED
      BY <1>0, <3>1, <3>2, StartIsDecided, DeleteIsDecided
  <2>2. CASE AppendEvent
    <3>1. pc = "transaction" /\ job'.command = job.command
      BY <1>0, <2>2 DEF AppendEvent, Job
    <3> QED
      BY <2>2, <3>1, AppendLogs DEF AcceptedIsLogged
  <2>3. CASE pc = "transaction" /\ UNCHANGED <<job, tx>>
    BY <2>3 DEF AcceptedIsLogged, StartsIn, DeletesIn
  <2> QED
    BY <1>2, <2>1, <2>2, <2>3, TransactionSteps
<1> QED
  BY <1>1, <1>2 DEF AcceptedIsLogged, DeleteIds

\* What the attempts ask of the engine, and what became of it.
Errands == AttemptsBegin /\ FailuresAreKnown /\ CreatedByAttempts /\ AcceptedIsLogged

LEMMA ErrandsInit == DispatchInit => Errands
<1> SUFFICES ASSUME DispatchInit PROVE Errands
  OBVIOUS
<1>1. /\ queue = <<>> /\ Len(queue) = 0 /\ pc = "down" /\ attempts = [a \in Attempts |-> "none"]
      /\ db = EmptyDatabase /\ tx = EmptyDatabase /\ synced = EmptyDatabase
      /\ EmptyDatabase.log = <<>> /\ Len(EmptyDatabase.log) = 0
      /\ EmptyDatabase.receipts = [id \in Ids |-> NoReceipt]
  BY DEF DispatchInit, Init, EmptyDatabase
<1>2. AttemptsBegin
  BY <1>1 DEF AttemptsBegin, UsesOnly, AtRest
<1>3. FailuresAreKnown
  BY <1>1 DEF FailuresAreKnown
<1>4. CreatedByAttempts
  BY <1>1 DEF CreatedByAttempts
<1>5. AcceptedIsLogged
  BY <1>1, AttemptIds, StartIsSent DEF AcceptedIsLogged, NoReceipt
<1> QED
  BY <1>2, <1>3, <1>4, <1>5 DEF Errands

\* The thread of an attempt that neither works on it nor left it by a known failure
\* is deleted, or a turn started in it.
LEMMA NothingIsLeft ==
  ASSUME Consistent, Chronicles, AttemptsTypeOK, AttemptsOwnTheirThread, Errands
  PROVE  BootstrapLeavesNothing
<1> SUFFICES ASSUME Active, Starts = {}
             PROVE  \E a \in Attempts :
                      \/ attempts[a] \notin {"none", "done", "failed"}
                      \/ /\ attempts[a] = "failed"
                         /\ \/ /\ Failed \in replies[CreateId[a]]
                               /\ db.receipts[CreateId[a]].status = "accepted"
                            \/ Failed \in replies[DeleteId[a]]
  BY DEF BootstrapLeavesNothing
<1>1. Told(db.log, db.tables)
  BY DEF Chronicles, Chronicle
<1>2. PICK i \in 1..Len(db.log) : IsCreation(db.log[i].event)
  BY <1>1 DEF Told, Active, IsCreation
<1>3. PICK a \in Attempts : db.log[i].id = CreateId[a]
  BY <1>2 DEF Errands, CreatedByAttempts
<1>4. db.receipts[CreateId[a]].status = "accepted"
  <2>1. CreateId[a] \in Ids /\ i \in EntriesOf(db, CreateId[a])
    BY <1>3, AttemptIds DEF EntriesOf
  <2>2. Whole(db)
    BY DEF Consistent, CommitsAreWhole
  <2> QED
    BY <2>1, <2>2 DEF Whole
<1>5. attempts[a] # "none"
  BY <1>3 DEF Errands, AttemptsBegin, UsesOnly
<1>6. ~StartsIn(db.log)
  BY DEF Starts, StartsIn, IsStart
<1>7. attempts[a] # "done"
  BY <1>6 DEF AttemptsOwnTheirThread, Errands, AcceptedIsLogged
<1>8. ~DeletesIn(db.log)
  BY <1>1 DEF Told, Active, DeletesIn, IsDeletion
<1>9. attempts[a] = "failed" => Failed \in replies[CreateId[a]] \cup replies[DeleteId[a]]
  BY <1>8 DEF Errands, FailuresAreKnown, AcceptedIsLogged
<1> QED
  BY <1>4, <1>5, <1>7, <1>9

\* Unless power is lost, and if no other client creates it, the thread of a first
\* turn that failed is gone, except for the faults that are named.
THEOREM FirstTurnsLeaveNothing ==
  ASSUME Suited, "powerLoss" \notin Faults, OnlyAttemptsCreate
  PROVE  DispatchSpec => []BootstrapLeavesNothing
<1>1. Consistent /\ AttemptsTypeOK /\ OnlySent /\ Errands /\ [DispatchNext]_dispatchVars => Errands'
  BY StepMapsToEngine, BeginsStep, FailuresStep, CreatedStep, LoggedStep DEF Errands
<1>2. DispatchSpec => []Errands
  BY <1>1, ErrandsInit, AlwaysSent, PTL DEF DispatchSpec
<1>3. DispatchSpec => [](Consistent /\ AttemptsTypeOK /\ AttemptsOwnTheirThread /\ Chronicles)
  BY AlwaysSent, AttemptsDeleteOnlyTheirOwn, AttemptsUseTheEngine, AlwaysChronicles, PTL
<1> QED
  BY <1>2, <1>3, NothingIsLeft, PTL
=============================================================================
