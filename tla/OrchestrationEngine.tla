------------------------ MODULE OrchestrationEngine -------------------------
(***************************************************************************)
(* The orchestration engine of the agent bridge (OrchestrationEngine.ts):  *)
(* one worker takes commands from an unbounded queue, refuses or decides   *)
(* each against the read model it holds in memory, commits the events, the *)
(* projections and the command's receipt in one SQLite transaction, then   *)
(* updates the read model, publishes the events to the live subscribers and*)
(* answers the client.  A retry with the same command id is answered from  *)
(* the receipt.  The process may crash between any two steps; everything   *)
(* but the database is then lost, and the next start catches the projection*)
(* tables up with the event log and rebuilds the read model from them.     *)
(***************************************************************************)
EXTENDS OrchestrationModel

CONSTANTS
  Commands,        \* the commands clients send
  Faults,          \* the kinds of fault of the environment that may strike
  PageLimit,       \* events one readFromSequence returns (1000 in the code)
  LateProjectors,  \* projectors the program gains in an upgrade
  MaxDispatches,   \* bound on the number of dispatches, retries included
  MaxQueued        \* bound on the length of the queue (unbounded in the code)

Ids == {c.id : c \in Commands}

FaultKinds == {"receiptRead", "transaction", "commitAck", "reconcileRead",
               "rejectionWrite", "powerLoss"}

ASSUME EngineAssumption ==
  /\ Commands \subseteq Command(Ids)
  /\ Faults \subseteq FaultKinds
  /\ PageLimit \in Nat \ {0}
  /\ LateProjectors \subseteq Projectors
  /\ MaxDispatches \in Nat
  /\ MaxQueued \in Nat

VARIABLES
  db,         \* committed contents of the SQLite database
  synced,     \* contents the disk holds after a power loss (WAL, synchronous=NORMAL)
  tx,         \* contents as the open transaction sees them
  pc,         \* what the process is doing
  queue,      \* commandQueue
  job,        \* processEnvelope's variables
  readModel,  \* the read model in memory
  published,  \* sequences of the events sent to eventPubSub since this start
  retired,    \* sequences published before the last start
  target,     \* sequence each projector is caught up to by this start
  installed,  \* projectors of the running version of the program
  replies,    \* what clients were answered, by command id
  dispatches  \* number of dispatches so far

durable == <<db, synced, installed>>
volatile == <<tx, pc, queue, job, readModel, published, target>>
history == <<retired, replies, dispatches>>
vars == <<db, synced, installed, tx, pc, queue, job, readModel, published, target,
          retired, replies, dispatches>>

Entry == [id : Ids, event : Event]
Receipt == [status : {"none", "accepted", "rejected"}, seq : Nat]
Database == [log : Seq(Entry), receipts : [Ids -> Receipt],
             cursor : [Projectors -> Nat], tables : Tables]

NoReceipt == [status |-> "none", seq |-> 0]
EmptyDatabase == [log |-> <<>>, receipts |-> [id \in Ids |-> NoReceipt],
                  cursor |-> [q \in Projectors |-> 0], tables |-> EmptyTables]

Failures == {"none", "persistence", "invariant"}
NoCommand == [id |-> None, type |-> "none"]

\* The envelope's command, the events still to append, the error of the
\* dispatch, the read model being built and the events to publish with it.
Job == [command : Commands \cup {NoCommand}, todo : Seq(Event), failure : Failures,
        next : ReadModel, events : Seq(Nat)]
NoJob == [command |-> NoCommand, todo |-> <<>>, failure |-> "none",
          next |-> EmptyReadModel, events |-> <<>>]

Reply == [ok : BOOLEAN, seq : Nat]
Failed == [ok |-> FALSE, seq |-> 0]

Steps == {"down", "boot", "idle", "receipt", "transaction", "publish", "reply",
          "reconcile", "replay", "record", "fail"}

TypeOK ==
  /\ db \in Database /\ synced \in Database /\ tx \in Database
  /\ pc \in Steps
  /\ queue \in Seq(Commands)
  /\ job \in Job
  /\ readModel \in ReadModel
  /\ published \in Seq(Nat)
  /\ retired \subseteq Nat
  /\ target \in [Projectors -> Nat]
  /\ installed \subseteq Projectors
  /\ replies \in [Ids -> SUBSET Reply]
  /\ dispatches \in 0..MaxDispatches

Init ==
  /\ db = EmptyDatabase /\ synced = EmptyDatabase /\ tx = EmptyDatabase
  /\ pc = "down"
  /\ queue = <<>>
  /\ job = NoJob
  /\ readModel = EmptyReadModel
  /\ published = <<>>
  /\ retired = {}
  /\ target = [q \in Projectors |-> 0]
  /\ installed = Projectors \ LateProjectors
  /\ replies = [id \in Ids |-> {}]
  /\ dispatches = 0

-----------------------------------------------------------------------------
(* Clients *)

(* Definitions marked "Mutant" are slips of the definition that follows them: *)
(* no definition uses them, each shows that some property notices the slip.   *)

\* dispatch: an envelope is queued; the client waits for its deferred.  A client
\* may send the same command again at any time.
Dispatch(c) ==
  /\ pc \notin {"down", "boot"}
  /\ dispatches < MaxDispatches /\ Len(queue) < MaxQueued
  /\ queue' = Append(queue, c)
  /\ dispatches' = dispatches + 1
  /\ UNCHANGED <<durable, tx, pc, job, readModel, published, target, retired, replies>>

Answer(id, r) == replies' = [replies EXCEPT ![id] = @ \cup {r}]

-----------------------------------------------------------------------------
(* The worker: the successful path of processEnvelope *)

TakeCommand ==
  /\ pc = "idle" /\ queue # <<>>
  /\ job' = [NoJob EXCEPT !.command = Head(queue), !.next = readModel]
  /\ queue' = Tail(queue)
  /\ pc' = "receipt"
  /\ UNCHANGED <<durable, tx, readModel, published, target, history>>

\* A command whose receipt exists is answered from it and not decided again.
AnswerFromReceipt ==
  LET receipt == db.receipts[job.command.id] IN
  /\ pc = "receipt" /\ receipt.status # "none"
  /\ Answer(job.command.id, IF receipt.status = "accepted"
                            THEN [ok |-> TRUE, seq |-> receipt.seq] ELSE Failed)
  /\ pc' = "idle" /\ job' = NoJob
  /\ UNCHANGED <<durable, tx, queue, readModel, published, target, retired, dispatches>>

\* Mutant: only an accepted receipt keeps a command from being decided again.
BeginTransaction_RetriesRejected ==
  /\ pc = "receipt" /\ db.receipts[job.command.id].status # "accepted"
  /\ \E es \in Decide(readModel, job.command) : job' = [job EXCEPT !.todo = es]
  /\ tx' = db
  /\ pc' = "transaction"
  /\ UNCHANGED <<durable, queue, readModel, published, target, history>>

\* The command is decided against the read model and the transaction opened.
BeginTransaction ==
  /\ pc = "receipt" /\ db.receipts[job.command.id].status = "none"
  /\ \E es \in Decide(readModel, job.command) : job' = [job EXCEPT !.todo = es]
  /\ tx' = db
  /\ pc' = "transaction"
  /\ UNCHANGED <<durable, queue, readModel, published, target, history>>

\* projectionPipeline.projectEvent for an event stored under sequence seq: every
\* projector applies it and moves its cursor there, whatever the cursor was.
ProjectAll(d, e, seq) ==
  LET run(q, tb) == IF q \in installed THEN Apply(q, tb, e) ELSE tb IN
  [d EXCEPT !.tables = run("sandbox", run("threads", run("proposedPlans", run("projects", @)))),
            !.cursor = [q \in Projectors |-> IF q \in installed THEN seq ELSE @[q]]]

\* The next decided event is appended, projected in memory and in the tables.
AppendEvent ==
  /\ pc = "transaction" /\ job.todo # <<>>
  /\ LET e == Head(job.todo)
         seq == Len(tx.log) + 1
     IN
     /\ tx' = ProjectAll([tx EXCEPT !.log = Append(@, [id |-> job.command.id, event |-> e])],
                         e, seq)
     /\ job' = [job EXCEPT !.todo = Tail(@), !.events = Append(@, seq),
                           !.next = ProjectEvent(@, e, seq)]
  /\ UNCHANGED <<durable, pc, queue, readModel, published, target, history>>

\* Mutant: the receipt names the sequence of the command's first event.
WithReceipt_FirstSequence ==
  [tx EXCEPT !.receipts[job.command.id] = [status |-> "accepted", seq |-> job.events[1]]]

\* The transaction's contents with the receipt of the command, which names the
\* sequence of its last event.
WithReceipt ==
  [tx EXCEPT !.receipts[job.command.id] = [status |-> "accepted", seq |-> Len(tx.log)]]

\* Mutant: the receipt is not part of the transaction.
Commit_WithoutReceipt ==
  /\ pc = "transaction" /\ job.todo = <<>>
  /\ db' = tx
  /\ pc' = "publish"
  /\ UNCHANGED <<synced, installed, tx, queue, job, readModel, published, target, history>>

\* The receipt is written and the transaction committed.
Commit ==
  /\ pc = "transaction" /\ job.todo = <<>>
  /\ db' = WithReceipt
  /\ tx' = db'
  /\ pc' = "publish"
  /\ UNCHANGED <<synced, installed, queue, job, readModel, published, target, history>>

Publish ==
  /\ pc = "publish"
  /\ readModel' = job.next
  /\ published' = published \o job.events
  /\ pc' = "reply"
  /\ UNCHANGED <<durable, tx, queue, job, target, history>>

ReplyAccepted ==
  /\ pc = "reply"
  /\ Answer(job.command.id, [ok |-> TRUE, seq |-> job.events[Len(job.events)]])
  /\ pc' = "idle" /\ job' = NoJob
  /\ UNCHANGED <<durable, tx, queue, readModel, published, target, retired, dispatches>>

-----------------------------------------------------------------------------
(* The worker: a dispatch that fails *)

FailWith(failure) ==
  /\ job' = [job EXCEPT !.failure = failure, !.todo = <<>>, !.events = <<>>, !.next = readModel]
  /\ pc' = "reconcile"
  /\ UNCHANGED <<synced, installed, queue, readModel, published, target, history>>

ReceiptReadFails ==
  /\ "receiptRead" \in Faults
  /\ pc = "receipt"
  /\ FailWith("persistence")
  /\ UNCHANGED <<db, tx>>

\* The decider refuses the command.
Refuse ==
  /\ pc = "receipt" /\ db.receipts[job.command.id].status = "none"
  /\ Decide(readModel, job.command) = {}
  /\ FailWith("invariant")
  /\ UNCHANGED <<db, tx>>

\* An append, a projection, the receipt or COMMIT fails: everything rolls back.
Rollback ==
  /\ "transaction" \in Faults
  /\ pc = "transaction"
  /\ FailWith("persistence")
  /\ tx' = db
  /\ UNCHANGED db

\* Mutant: the receipt is written after COMMIT was acknowledged.
CommitUnacknowledged_WithoutReceipt ==
  /\ "commitAck" \in Faults
  /\ pc = "transaction" /\ job.todo = <<>>
  /\ db' = tx /\ tx' = tx
  /\ FailWith("persistence")

\* COMMIT took effect but reported an error.
CommitUnacknowledged ==
  /\ "commitAck" \in Faults
  /\ pc = "transaction" /\ job.todo = <<>>
  /\ db' = WithReceipt
  /\ tx' = db'
  /\ FailWith("persistence")

\* Mutant: any failed dispatch is recorded as a rejection.
AfterReconcile_AlwaysRecords == "record"

\* Only a refusal by the decider is recorded.
AfterReconcile == IF job.failure = "invariant" THEN "record" ELSE "fail"

\* Mutant: the read includes the event at `from`.
PageAfter_Inclusive(from) ==
  LET available == Len(db.log) - from
      n == IF available < PageLimit THEN available ELSE PageLimit
  IN  [i \in 1..n |-> from + i - 1]

\* The sequences readFromSequence returns after `from`.
PageAfter(from) ==
  LET available == Len(db.log) - from
      n == IF available < PageLimit THEN available ELSE PageLimit
  IN  [i \in 1..n |-> from + i]

\* Mutant: the read model is taken to be up to date.
ReconcileRead_Skipped ==
  /\ pc = "reconcile"
  /\ pc' = AfterReconcile
  /\ UNCHANGED <<durable, tx, queue, job, readModel, published, target, history>>

\* reconcileReadModelAfterDispatchFailure reads the events the read model lacks.
ReconcileRead ==
  /\ pc = "reconcile"
  /\ IF readModel.seq < Len(db.log)
     THEN job' = [job EXCEPT !.events = PageAfter(readModel.seq)] /\ pc' = "replay"
     ELSE pc' = AfterReconcile /\ UNCHANGED job
  /\ UNCHANGED <<durable, tx, queue, readModel, published, target, history>>

\* Mutant: the error is not caught and ends the worker fiber.
ReconcileReadFails_EndsWorker ==
  /\ "reconcileRead" \in Faults
  /\ pc = "reconcile"
  /\ pc' = "ended"
  /\ UNCHANGED <<durable, tx, queue, job, readModel, published, target, history>>

\* The error is logged and the read model left as it is.
ReconcileReadFails ==
  /\ "reconcileRead" \in Faults
  /\ pc = "reconcile"
  /\ pc' = AfterReconcile
  /\ UNCHANGED <<durable, tx, queue, job, readModel, published, target, history>>

LastToReplay == job.events[Len(job.events)]

ReplayEvent ==
  /\ pc = "replay" /\ job.next.seq < LastToReplay
  /\ LET seq == job.next.seq + 1 IN
     job' = [job EXCEPT !.next = ProjectEvent(@, db.log[seq].event, seq)]
  /\ UNCHANGED <<durable, tx, pc, queue, readModel, published, target, history>>

\* Mutant: what was replayed is not published.
ReplayDone_Unpublished ==
  /\ pc = "replay" /\ job.next.seq = LastToReplay
  /\ readModel' = job.next
  /\ pc' = AfterReconcile
  /\ UNCHANGED <<durable, tx, queue, job, published, target, history>>

\* The read model is replaced, and what was replayed is published.
ReplayDone ==
  /\ pc = "replay" /\ job.next.seq = LastToReplay
  /\ readModel' = job.next
  /\ published' = published \o job.events
  /\ pc' = AfterReconcile
  /\ UNCHANGED <<durable, tx, queue, job, target, history>>

\* A refused command leaves a receipt, so that its retry is refused as well.
RecordRejection ==
  /\ pc = "record"
  /\ db' = [db EXCEPT !.receipts[job.command.id] =
              [status |-> "rejected", seq |-> readModel.seq]]
  /\ tx' = db'
  /\ pc' = "fail"
  /\ UNCHANGED <<synced, installed, queue, job, readModel, published, target, history>>

RecordRejectionFails ==
  /\ "rejectionWrite" \in Faults
  /\ pc = "record"
  /\ pc' = "fail"
  /\ UNCHANGED <<durable, tx, queue, job, readModel, published, target, history>>

ReplyFailed ==
  /\ pc = "fail"
  /\ Answer(job.command.id, Failed)
  /\ pc' = "idle" /\ job' = NoJob
  /\ UNCHANGED <<durable, tx, queue, readModel, published, target, retired, dispatches>>

-----------------------------------------------------------------------------
(* Crash and start *)

Values(s) == {s[i] : i \in 1..Len(s)}

\* Everything in memory is lost: queued commands, their waiting clients, the
\* read model, the open transaction and what subscribers had not handled yet.
Stop(contents) ==
  /\ db' = contents /\ tx' = contents
  /\ pc' = "down"
  /\ queue' = <<>> /\ job' = NoJob
  /\ readModel' = EmptyReadModel
  /\ retired' = retired \cup Values(published) /\ published' = <<>>
  /\ UNCHANGED <<synced, installed, target, replies, dispatches>>

Crash == pc # "down" /\ Stop(db)

\* The machine loses power: transactions not yet synced to disk are gone.
PowerLoss == "powerLoss" \in Faults /\ synced # db /\ Stop(synced)

\* A WAL checkpoint syncs what is committed.
WalCheckpoint ==
  /\ "powerLoss" \in Faults
  /\ synced # db
  /\ synced' = db
  /\ UNCHANGED <<db, installed, volatile, history>>

\* A new version of the program, with more projectors, replaces the old one.
Upgrade ==
  /\ pc = "down" /\ installed # Projectors
  /\ installed' = Projectors
  /\ UNCHANGED <<db, synced, volatile, history>>

\* bootstrap: each projector is to read, from its cursor on, at most one page.
Start ==
  /\ pc = "down"
  /\ target' = [q \in Projectors |->
                  IF q \in installed
                  THEN db.cursor[q] + Len(PageAfter(db.cursor[q])) ELSE db.cursor[q]]
  /\ pc' = "boot"
  /\ UNCHANGED <<durable, tx, queue, job, readModel, published, history>>

\* One event of the catch-up of one projector; projectors run in order, and each
\* event is a transaction of its own.
Bootstrap ==
  /\ pc = "boot"
  /\ \E i \in 1..Len(ProjectorOrder) :
       LET q == ProjectorOrder[i]
           seq == db.cursor[q] + 1
       IN
       /\ db.cursor[q] < target[q]
       /\ \A j \in 1..(i - 1) : db.cursor[ProjectorOrder[j]] = target[ProjectorOrder[j]]
       /\ db' = [db EXCEPT !.tables = Apply(q, @, db.log[seq].event), !.cursor[q] = seq]
  /\ tx' = db'
  /\ UNCHANGED <<synced, installed, pc, queue, job, readModel, published, target, history>>

\* Mutant: the sequence of the snapshot is not restored.
StartSequence_Zero == 0

\* Mutant: the query requires projectors the pipeline does not run.
StartSequence_AllProjectors == SnapshotSequence(db.cursor)

\* Cursor rows exist for the installed projectors only; the version that is not
\* upgraded does not require the others.
StartSequence ==
  SnapshotSequence([q \in Projectors |-> IF q \in installed THEN db.cursor[q] ELSE Len(db.log)])

\* The read model is rebuilt from the tables and the worker is started.
Ready ==
  /\ pc = "boot" /\ db.cursor = target
  /\ readModel' = [Snapshot(db.tables, db.cursor) EXCEPT !.seq = StartSequence]
  /\ pc' = "idle"
  /\ UNCHANGED <<durable, tx, queue, job, published, target, history>>

-----------------------------------------------------------------------------
Worker ==
  \/ TakeCommand \/ AnswerFromReceipt \/ BeginTransaction \/ AppendEvent
  \/ Commit \/ Publish \/ ReplyAccepted
  \/ ReceiptReadFails \/ Refuse \/ Rollback \/ CommitUnacknowledged
  \/ ReconcileRead \/ ReconcileReadFails \/ ReplayEvent \/ ReplayDone
  \/ RecordRejection \/ RecordRejectionFails \/ ReplyFailed

Boot == Start \/ Bootstrap \/ Ready

Next ==
  \/ \E c \in Commands : Dispatch(c)
  \/ Worker \/ Boot
  \/ Crash \/ PowerLoss \/ WalCheckpoint \/ Upgrade

Spec == Init /\ [][Next]_vars

\* The worker fiber keeps running, and systemd restarts the process.
FairSpec == Spec /\ WF_vars(Worker) /\ WF_vars(Boot)

-----------------------------------------------------------------------------
(* Properties *)

EntriesOf(d, id) == {i \in 1..Len(d.log) : d.log[i].id = id}

\* An id with an accepted receipt has one run of entries that ends at the
\* sequence of the receipt; any other id has none.
Whole(d) ==
  \A id \in Ids :
    IF d.receipts[id].status = "accepted"
    THEN \E first \in 1..d.receipts[id].seq : EntriesOf(d, id) = first..d.receipts[id].seq
    ELSE EntriesOf(d, id) = {}

\* A command takes effect at most once, whole, and exactly when its receipt says
\* it was accepted: its events are one run of the log that ends at the sequence
\* of the receipt.  Retries, failed transactions, lost commit acknowledgements
\* and crashes never split, repeat or lose a part of it.
ExactlyOnce == Whole(db)

\* What a client was told stays true: a sequence it was given is the one on the
\* command's receipt, however often the process restarts or the client retries.
AcknowledgedIsDurable ==
  \A id \in Ids : \A r \in replies[id] :
    r.ok => db.receipts[id] = [status |-> "accepted", seq |-> r.seq]

\* A receipt, once written, is never changed: the error path of one dispatch
\* cannot overwrite the receipt another one left.
ReceiptsAreFinal ==
  [][\A id \in Ids : db.receipts[id].status # "none" =>
       db'.receipts[id] = db.receipts[id]]_vars

\* Between two commands the read model the next one is decided from holds every
\* committed event, and equals the one a restart would rebuild from the tables:
\* the two projections of the log, in memory and in SQL, agree.
ReadModelIsCurrent ==
  pc \in {"idle", "receipt"} => readModel = Snapshot(db.tables, db.cursor)
                               /\ readModel.seq = Len(db.log)

\* A read model without the plans the memory may have forgotten.
Recent(m) ==
  [m EXCEPT !.threads = [t \in DOMAIN m.threads |->
                           [m.threads[t] EXCEPT !.plans = Latest(@)]]]

\* Where threads have more plans than the memory keeps, the two agree in all but
\* the older plans, if a plan keeps its time when it is proposed again: the next
\* plan of a thread forgets the same ones in memory, whether the process was
\* started again before it or not.
RecentReadModelIsCurrent ==
  pc \in {"idle", "receipt"} => Recent(readModel) = Recent(Snapshot(db.tables, db.cursor))
                               /\ readModel.seq = Len(db.log)

\* The sequence the projections had reached when this start was ready, which the
\* read model began with.
StartedAt == SnapshotSequence(target)

\* Between two commands live subscribers have been given every event stored since
\* the process was started, in log order, without a gap or a repetition: also
\* those of commits that were reported as failed.
PublishedInOrder ==
  pc = "idle" =>
    published = [i \in 1..(Len(db.log) - StartedAt) |-> StartedAt + i]

\* No event a subscriber was given is given to the subscribers of a later start:
\* a turn that was requested is not requested again by a restart.
PublishedOnce == Values(published) \cap retired = {}

\* Only a start whose catch-up left one projector behind the others, because the
\* log holds more than a page it had not applied, may publish an event again.
RepublishedOnlyIfBehind ==
  Values(published) \cap retired # {} => \E q, r \in installed : target[q] < target[r]

\* Subscribers never see an event out of log order.
PublishedIncreasing ==
  \A i, j \in 1..Len(published) : i < j => published[i] < published[j]

\* An id of a project or thread is created once in the history of the sandbox,
\* also after it was deleted.
CreatedOnce ==
  \A i, j \in 1..Len(db.log) :
    LET e == db.log[i].event
        f == db.log[j].event
    IN  i < j => /\ ~(e.type = "project.created" /\ f.type = e.type /\ f.project = e.project)
                 /\ ~(e.type = "thread.created" /\ f.type = e.type /\ f.thread = e.thread)

\* Two active projects share a workspace root only if an update gave one of them
\* that very root when both were there: creations, retried and raced, never do.
RootsUniqueUnlessMoved ==
  \A p, q \in DOMAIN db.tables.projects :
    LET root == db.tables.projects[p].root IN
    /\ p # q
    /\ db.tables.projects[q].root = root
    /\ ~db.tables.projects[p].deleted /\ ~db.tables.projects[q].deleted
    => \E i \in 1..Len(db.log) :
         /\ \E moved \in {p, q} :
              db.log[i].event = [type |-> "project.meta-updated", project |-> moved, root |-> root]
         /\ \A j \in 1..Len(db.log) :
              j > i /\ db.log[j].event.type = "project.created" =>
                db.log[j].event.project \notin {p, q}

\* Deleting a project leaves no thread of it behind, archived ones included: an
\* active thread of a deleted project was created after the deletion, which the
\* decider accepts.
DeletedProjectsAreEmpty ==
  \A t \in DOMAIN db.tables.threads :
    LET row == db.tables.threads[t] IN
    /\ ~row.deleted
    /\ row.project \in DOMAIN db.tables.projects /\ db.tables.projects[row.project].deleted
    => \E i, j \in 1..Len(db.log) :
         /\ i < j
         /\ db.log[i].event = [type |-> "project.deleted", project |-> row.project]
         /\ db.log[j].event = [type |-> "thread.created", thread |-> t, project |-> row.project]

\* A command that is queued or in process is answered or the process stops.
Busy == queue # <<>> \/ job # NoJob
EveryDispatchEnds == Busy ~> ~Busy

\* The engine implements the abstract journal of commands.
Journal == INSTANCE CommandLog WITH
  journal <- [i \in 1..Len(db.log) |-> db.log[i].id],
  outcome <- db.receipts,
  answers <- replies

ImplementsCommandLog == Journal!Spec

-----------------------------------------------------------------------------
(* The invariant the proofs rest on: how the variables of the step in progress *)
(* relate to the database                                                      *)

CursorsInLog(d) == \A q \in Projectors : d.cursor[q] <= Len(d.log)

\* No cursor runs ahead of its log, and a step finds the variables it reads: the
\* accepted path has events to publish, a replay ends inside the log.
StepsAreFed ==
  /\ CursorsInLog(db) /\ CursorsInLog(synced) /\ CursorsInLog(tx)
  /\ pc \notin {"down", "boot", "idle"} => job.command \in Commands
  /\ pc = "transaction" => job.todo # <<>> \/ job.events # <<>>
  /\ pc \in {"publish", "reply"} => job.events # <<>>
  /\ pc = "replay" => job.events # <<>> /\ LastToReplay <= Len(db.log)
  /\ pc = "boot" => \A q \in Projectors : target[q] <= Len(db.log)

\* A command taken from the queue has appended nothing yet.
TakenIsFresh == pc = "receipt" => job.events = <<>>

\* The open transaction adds entries of its command, and of no other, to the
\* committed log, and holds the committed receipts.
TransactionExtendsLog ==
  pc = "transaction" =>
    /\ db.receipts[job.command.id].status = "none"
    /\ tx.receipts = db.receipts
    /\ Len(tx.log) = Len(db.log) + Len(job.events)
    /\ \A i \in 1..Len(db.log) : tx.log[i] = db.log[i]
    /\ \A i \in Len(db.log) + 1..Len(tx.log) : tx.log[i].id = job.command.id
    /\ job.events # <<>> => LastToReplay = Len(tx.log)

\* A command about to be recorded as refused has no receipt.
RefusedHasNoReceipt ==
  /\ pc \in {"reconcile", "replay", "record"} /\ job.failure = "invariant" =>
       db.receipts[job.command.id].status = "none"
  /\ pc = "record" => job.failure = "invariant"

\* An accepted command is answered with the sequence on its receipt.
AnswerIsReceipt ==
  pc \in {"publish", "reply"} =>
    db.receipts[job.command.id] = [status |-> "accepted", seq |-> LastToReplay]

\* The log and the receipts agree in what is committed, in what the disk holds
\* and, up to the command in progress, in the open transaction.
CommitsAreWhole ==
  /\ Whole(db) /\ Whole(synced)
  /\ TakenIsFresh
  /\ TransactionExtendsLog
  /\ RefusedHasNoReceipt
  /\ AnswerIsReceipt

\* The read model, and the one a step builds to replace it, never claim an event
\* the log does not hold.
ReadModelInLog ==
  /\ readModel.seq <= Len(db.log)
  /\ pc \in {"receipt", "publish", "reconcile", "replay"} => job.next.seq <= Len(db.log)
  /\ pc = "transaction" => job.next.seq <= Len(tx.log)
=============================================================================
