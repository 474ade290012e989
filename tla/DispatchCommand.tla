-------------------------- MODULE DispatchCommand ---------------------------
(***************************************************************************)
(* The first turn of a thread (dispatch-command.ts): the bridge handles one*)
(* client request with up to three commands of its own to the engine.  It  *)
(* creates the thread, starts the turn and, when the start fails, deletes  *)
(* the thread it created.  The create and the delete carry ids made for    *)
(* this handling, the start carries the id the client chose.  A client that*)
(* sends the request again, which it may do while the first handling is    *)
(* still under way, causes another attempt with the same start.  An attempt*)
(* goes on when its connection closes; only the end of the process ends it.*)
(***************************************************************************)
EXTENDS OrchestrationEngine

CONSTANTS
  Attempts,   \* the handlings of the request, numbered in the order they begin
  CreateId,   \* for each attempt, the id of the create it makes
  DeleteId,   \* for each attempt, the id of the delete it makes
  StartId,    \* the id of the client's command
  Thread,     \* the thread of the first turn
  Project     \* the project the thread is created in

VARIABLE attempts   \* how far each attempt is

Stages == {"none", "creating", "created", "starting", "done", "undoing",
           "deleting", "failed", "lost"}

CreateCommand(a) ==
  [id |-> CreateId[a], type |-> "thread.create", thread |-> Thread, project |-> Project]
StartCommand ==
  [id |-> StartId, type |-> "thread.turn.start", thread |-> Thread,
   sourceThread |-> None, sourcePlan |-> None]
DeleteCommand(a) == [id |-> DeleteId[a], type |-> "thread.delete", thread |-> Thread]

\* The commands other clients send.
ClientCommands ==
  {c \in Commands : c.id \notin {StartId} \cup {CreateId[a] : a \in Attempts}
                                          \cup {DeleteId[a] : a \in Attempts}}

\* The ids of creates and deletes are made fresh (serverCommandId: a tag and a UUID).
ASSUME DispatchAssumption ==
  /\ None \notin Ids
  /\ StartCommand \in Commands
  /\ \A a \in Attempts : {CreateCommand(a), DeleteCommand(a)} \subseteq Commands
  /\ \A a, b \in Attempts : CreateId[a] # DeleteId[b] /\ (CreateId[a] = CreateId[b] => a = b)
  /\ \A a \in Attempts : StartId \notin {CreateId[a], DeleteId[a]}

DispatchInit == Init /\ attempts = [a \in Attempts |-> "none"]

-----------------------------------------------------------------------------
(* Definitions marked "Mutant" are slips of the definition that follows them: *)
(* no definition uses them, each shows that some property notices the slip.   *)

Enter(a, stage) == attempts' = [attempts EXCEPT ![a] = stage]

\* dispatchBootstrapTurnStart, up to its first dispatch.
BeginAttempt(a) ==
  /\ attempts[a] = "none"
  /\ Dispatch(CreateCommand(a))
  /\ Enter(a, "creating")

StartTurn(a) ==
  /\ attempts[a] = "created"
  /\ Dispatch(StartCommand)
  /\ Enter(a, "starting")

\* cleanupCreatedThread
CleanUp(a) ==
  /\ attempts[a] = "undoing"
  /\ Dispatch(DeleteCommand(a))
  /\ Enter(a, "deleting")

\* The id of the dispatch an attempt waits for.
Awaited(a) ==
  CASE attempts[a] = "creating" -> CreateId[a]
    [] attempts[a] = "starting" -> StartId
    [] attempts[a] = "deleting" -> DeleteId[a]
    [] OTHER -> None

\* Mutant: the thread counts as created when its create was dispatched.
Onward_CreatedEarly(stage, ok) ==
  CASE stage = "creating" -> IF ok THEN "created" ELSE "undoing"
    [] stage = "starting" -> IF ok THEN "done" ELSE "undoing"
    [] stage = "deleting" -> "failed"

\* Mutant: a failed start is not undone.
Onward_NoCleanup(stage, ok) ==
  CASE stage = "creating" -> IF ok THEN "created" ELSE "failed"
    [] stage = "starting" -> IF ok THEN "done" ELSE "failed"
    [] stage = "deleting" -> "failed"

\* What an attempt does with an answer.  Only a create that was answered with
\* success marks the thread as the attempt's own (createdThread); the answer to
\* the delete is ignored.
Onward(stage, ok) ==
  CASE stage = "creating" -> IF ok THEN "created" ELSE "failed"
    [] stage = "starting" -> IF ok THEN "done" ELSE "undoing"
    [] stage = "deleting" -> "failed"

\* The deferred of the command in process is completed.  Creates and deletes
\* have one waiting attempt; so has the start, which an attempt dispatches only
\* after its own create of the thread was accepted.
Answered(ok) ==
  attempts' = [a \in Attempts |->
                 IF Awaited(a) = job.command.id THEN Onward(attempts[a], ok) ELSE attempts[a]]

\* The end of the process ends the attempts it was handling.
LoseAttempts ==
  attempts' = [a \in Attempts |->
                 IF attempts[a] \in {"none", "done", "failed"} THEN attempts[a] ELSE "lost"]

-----------------------------------------------------------------------------
WorkerAnswers ==
  \/ AnswerFromReceipt /\ Answered(db.receipts[job.command.id].status = "accepted")
  \/ ReplyAccepted /\ Answered(TRUE)
  \/ ReplyFailed /\ Answered(FALSE)

WorkerProceeds ==
  /\ \/ TakeCommand \/ BeginTransaction \/ AppendEvent \/ Commit \/ Publish
     \/ ReceiptReadFails \/ Refuse \/ Rollback \/ CommitUnacknowledged
     \/ ReconcileRead \/ ReconcileReadFails \/ ReplayEvent \/ ReplayDone
     \/ RecordRejection \/ RecordRejectionFails
  /\ UNCHANGED attempts

Handler(a) == BeginAttempt(a) \/ StartTurn(a) \/ CleanUp(a)

ProcessEnds == (Crash \/ PowerLoss) /\ LoseAttempts

\* What happens to the database and the build around the process.
Surroundings == (Boot \/ WalCheckpoint \/ Upgrade) /\ UNCHANGED attempts

DispatchNext ==
  \/ \E c \in ClientCommands : Dispatch(c) /\ UNCHANGED attempts
  \/ \E a \in Attempts : Handler(a)
  \/ WorkerAnswers \/ WorkerProceeds
  \/ ProcessEnds
  \/ Surroundings

dispatchVars == <<vars, attempts>>

DispatchSpec == DispatchInit /\ [][DispatchNext]_dispatchVars

-----------------------------------------------------------------------------
(* Properties *)

Starts == {i \in 1..Len(db.log) : db.log[i].event.type = "thread.turn-start-requested"}
CleanUps == {i \in 1..Len(db.log) : \E a \in Attempts : db.log[i].id = DeleteId[a]}

\* An attempt deletes the thread only if no turn started in it, or if the client
\* was told that the start failed: a request sent twice, whose second handling
\* finds the thread there and fails, never deletes the thread the first started.
BootstrapKeepsStartedThreads ==
  \A i \in Starts, j \in CleanUps : i < j => Failed \in replies[StartId]

Active == Thread \in DOMAIN db.tables.threads /\ ~db.tables.threads[Thread].deleted

\* A thread without a turn is one an attempt still works on, or what a fault left:
\* the process ended, the create was stored but its answer reported a failure, or
\* the delete failed too.  (A power loss may also take a start that was answered.)
BootstrapLeavesNothing ==
  Active /\ Starts = {} =>
    \E a \in Attempts :
      \/ attempts[a] \notin {"none", "done", "failed"}
      \/ /\ attempts[a] = "failed"
         /\ \/ Failed \in replies[CreateId[a]] /\ db.receipts[CreateId[a]].status = "accepted"
            \/ Failed \in replies[DeleteId[a]]

\* An attempt goes on with a thread, and deletes it in the end, only if its own
\* create of it was accepted, and tells the client of a turn only if the start was.
\* (A power loss takes receipts.)
AttemptsOwnTheirThread ==
  \A a \in Attempts :
    /\ attempts[a] \in {"created", "starting", "undoing", "deleting", "done"} =>
         db.receipts[CreateId[a]].status = "accepted"
    /\ attempts[a] = "done" => db.receipts[StartId].status = "accepted"

AttemptsTypeOK == attempts \in [Attempts -> Stages]
=============================================================================
