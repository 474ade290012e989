--------------------------- MODULE AgentSessions ---------------------------
(***************************************************************************)
(* The opencode sessions of the threads of one project, and everyone who   *)
(* starts and ends them: the worker of the provider command reactor, the   *)
(* worker of the thread deletion reactor, the crash callbacks of the       *)
(* server pool, the event pumps of the sessions, and the ingestion that    *)
(* writes what sessions report into the threads.                           *)
(*                                                                         *)
(* An action is the code between two awaits. Session s of the pool is the  *)
(* s-th start. A status that is neither none nor stopped is "open": no     *)
(* guard tells starting, ready, running and error apart. Runtime modes are *)
(* left out: whether a session that is found still has its thread's mode   *)
(* is a free choice. No other fiber starts sessions, so the check for the  *)
(* winner of a race after a start never applies, and the warm pool, which  *)
(* only a hit would fill, always misses. Writes of different fibers to the *)
(* read model may be taken in any order.                                   *)
(***************************************************************************)
EXTENDS ServerPool

CONSTANTS
    Threads,
    MaxRequests,       \* bound on the requests of clients
    MayAsk(_, _, _)    \* further bound: of a thread, with as many requests and these turns

ASSUME SessionsAssumption ==
    /\ MaxRequests \in Nat
    /\ Sessions = 1 .. MaxRequests
    /\ NoSession = 0 /\ NoSession \notin Threads

VARIABLES
    thread,      \* the threads of the read model, each with its session's status
    turns,       \* the turns asked for, and how far each has come
    requests,    \* how many requests the clients have made
    raced,       \* history: the threads whose deletion met a start of a session
    commands,    \* the queue of the provider command reactor
    worker,      \* what its worker is doing
    deletions,   \* the queue of the thread deletion reactor
    deleter,     \* the session its worker is stopping, or NoSession
    sessions,    \* the adapter's map from threads to sessions
    ctx,         \* the context of each start
    directory,   \* the threads the session directory knows
    exits,       \* sessions whose unexpected exit is being handled
    quiet,       \* the threads the event pump of whose session has ended without failing
    reports      \* the provider events ingestion has not written into threads

readModel == <<thread, turns>>
clients == <<requests, commands, deletions, raced>>
adapter == <<sessions, ctx, directory, exits>>
vars == <<poolVars, readModel, clients, worker, deleter, adapter, quiet, reports>>

-----------------------------------------------------------------------------
Statuses == {"none", "open", "stopped"}
Starting == {"preparing", "stopping", "acquiring", "creating"}

Idle == [at |-> "idle", turn |-> 0, thread |-> NoSession, session |-> NoSession,
         resume |-> FALSE, outcome |-> "none", status |-> "none"]

Init ==
    /\ PoolInit
    /\ thread = [t \in Threads |-> [deleted |-> FALSE, status |-> "none"]]
    /\ turns = <<>>
    /\ requests = 0 /\ commands = <<>> /\ deletions = <<>> /\ raced = {}
    /\ worker = Idle /\ deleter = NoSession
    /\ sessions = [t \in Threads |-> NoSession]
    /\ ctx = <<>> /\ directory = {} /\ exits = {} /\ quiet = {}
    /\ reports = <<>>

\* thread.session.set: what the engine makes of a write when its turn comes.
SetSession(t, status) == thread' = [thread EXCEPT ![t].status = status]

\* The adapter has a context for the thread that nobody has begun to stop.
IsLive(t) == sessions[t] # NoSession /\ ~ctx[sessions[t]].stopped

-----------------------------------------------------------------------------
(***************************************************************************)
(* Clients. The decider accepts all of it for a deleted thread too.        *)
(***************************************************************************)
Asked(t) ==
    /\ requests < MaxRequests /\ MayAsk(t, requests, turns)
    /\ requests' = requests + 1

Request(kind, t, turn) ==
    /\ Asked(t)
    /\ commands' = Append(commands, [kind |-> kind, thread |-> t, turn |-> turn])
    /\ UNCHANGED <<poolVars, deletions, raced, worker, deleter, adapter, quiet, reports>>

RequestTurn(t) ==
    /\ Request("turn", t, Len(turns) + 1)
    /\ turns' = Append(turns, [thread |-> t, at |-> "queued", status |-> "none"])
    /\ UNCHANGED thread

RequestStop(t) == Request("stop", t, 0) /\ UNCHANGED readModel

SetMode(t) == Request("mode", t, 0) /\ UNCHANGED readModel

Delete(t) ==
    /\ Asked(t)
    /\ thread' = [thread EXCEPT ![t].deleted = TRUE]
    /\ deletions' = Append(deletions, t)
    /\ UNCHANGED <<poolVars, turns, commands, raced, worker, deleter, adapter, quiet, reports>>

-----------------------------------------------------------------------------
(***************************************************************************)
(* The worker of the provider command reactor takes a command, and decides *)
(* on what the read model and the adapter show at that moment.             *)
(***************************************************************************)
Take(kind) ==
    /\ worker.at = "idle" /\ commands # <<>>
    /\ Head(commands).kind = kind
    /\ commands' = Tail(commands)
    /\ UNCHANGED <<poolVars, thread, requests, deletions, deleter, sessions, directory, exits,
                   quiet, reports>>

TurnIs(n, at) == turns' = IF n = 0 THEN turns ELSE [turns EXCEPT ![n].at = at]

\* ensureSessionForThread: a session that is found is kept if it has the mode
\* of its thread; any other is restarted and resumed.
EnsureSession ==
    LET c == Head(commands)
        t == c.thread
        found == thread[t].status = "open" /\ sessions[t] # NoSession
    IN  /\ \/ found /\ TurnIs(c.turn, "sending") /\ UNCHANGED <<worker, raced>>
           \/ /\ worker' = [Idle EXCEPT !.at = "preparing", !.turn = c.turn, !.thread = t,
                                !.resume = found, !.status = "open"]
              /\ TurnIs(c.turn, "starting")
              /\ raced' = IF thread[t].deleted THEN raced \cup {t} ELSE raced
        /\ UNCHANGED ctx

TakeTurn == Take("turn") /\ EnsureSession

TakeMode ==
    /\ Take("mode")
    /\ IF thread[Head(commands).thread].status = "open" THEN EnsureSession
       ELSE UNCHANGED <<worker, turns, raced, ctx>>

\* ProviderService.stopSession finds the thread's session.
CanStop(t) == t \in directory /\ IsLive(t)

\* A stop of an open session that cannot be found fails, and is forgotten.
TakeStop ==
    LET t == Head(commands).thread
        stopped == [Idle EXCEPT !.thread = t, !.status = "stopped"]
    IN  /\ Take("stop")
        /\ UNCHANGED <<turns, raced>>
        /\ \/ /\ thread[t].status # "open"
              /\ worker' = [stopped EXCEPT !.at = "writing"]
              /\ UNCHANGED ctx
           \/ /\ thread[t].status = "open" /\ CanStop(t)
              /\ worker' = [stopped EXCEPT !.at = "ending", !.session = sessions[t]]
              /\ ctx' = [ctx EXCEPT ![sessions[t]].stopped = TRUE]
           \/ /\ thread[t].status = "open" /\ ~CanStop(t)
              /\ UNCHANGED <<worker, ctx>>

-----------------------------------------------------------------------------
(***************************************************************************)
(* The start of a session. While the namespace is set up others may run.   *)
(***************************************************************************)
StartStep == UNCHANGED <<clients, deleter>>

NewStart == /\ ctx' = Append(ctx, [thread |-> worker.thread, gen |-> 0, stopped |-> FALSE])
            /\ worker' = [worker EXCEPT !.at = "acquiring", !.session = Len(ctx) + 1]
            /\ sessions' = [sessions EXCEPT ![worker.thread] = NoSession]
            /\ quiet' = quiet \ {worker.thread}

\* The thread's present session is stopped first, unless someone does it.
EndExisting ==
    LET t == worker.thread
        c == sessions[t]
    IN  /\ worker.at = "preparing" /\ StartStep
        /\ IF IsLive(t)
           THEN /\ ctx' = [ctx EXCEPT ![c].stopped = TRUE]
                /\ worker' = [worker EXCEPT !.at = "stopping", !.session = c]
                /\ UNCHANGED <<sessions, quiet>>
           ELSE NewStart
        /\ UNCHANGED <<poolVars, readModel, directory, exits, reports>>

ExistingEnded ==
    /\ worker.at = "stopping" /\ StartStep
    /\ Release(worker.session)
    /\ NewStart
    /\ UNCHANGED <<readModel, directory, exits, reports>>

\* A turn that cannot start is reported on its thread's session, if it has one.
Failed ==
    LET th == thread[worker.thread]
    IN  IF worker.turn = 0 \/ th.status = "none"
        THEN worker' = Idle /\ TurnIs(worker.turn, "ended")
        ELSE /\ worker' = [worker EXCEPT !.at = "writing", !.outcome = "ended",
                                !.status = th.status]
             /\ UNCHANGED turns

PrepareFails ==
    /\ worker.at = "preparing" /\ StartStep
    /\ Failed
    /\ UNCHANGED <<poolVars, thread, adapter, quiet, reports>>

Acquired(g) == /\ worker' = [worker EXCEPT !.at = "creating"]
               /\ ctx' = [ctx EXCEPT ![worker.session].gen = g]
               /\ UNCHANGED <<readModel, sessions, directory, exits, quiet, reports>>

AcquireServer ==
    /\ worker.at = "acquiring" /\ StartStep
    /\ Reuse(worker.session)
    /\ Acquired(entry)

SpawnServer ==
    /\ worker.at = "acquiring" /\ StartStep
    /\ Spawn(worker.session)
    /\ UNCHANGED <<readModel, worker, adapter, quiet, reports>>

ServerSpawned ==
    /\ worker.at = "acquiring" /\ StartStep
    /\ SpawnSucceeds(worker.session)
    /\ Acquired(mutex.gen)

\* A start that was to resume the thread's session tries once without.
ServerNotSpawned ==
    /\ worker.at = "acquiring" /\ StartStep
    /\ SpawnFails(worker.session)
    /\ IF worker.resume THEN worker' = [worker EXCEPT !.resume = FALSE] /\ UNCHANGED turns
       ELSE Failed
    /\ UNCHANGED <<thread, adapter, quiet, reports>>

ResumeMisses ==
    /\ worker.at = "creating" /\ worker.resume /\ StartStep
    /\ Release(worker.session)
    /\ worker' = [worker EXCEPT !.at = "acquiring", !.resume = FALSE]
    /\ UNCHANGED <<readModel, adapter, quiet, reports>>

\* Mutant: the rollback forgets the lease.
CreateFails_KeepsLease ==
    /\ worker.at = "creating" /\ ~worker.resume /\ StartStep
    /\ Failed
    /\ UNCHANGED <<poolVars, thread, adapter, quiet, reports>>

CreateFails ==
    /\ worker.at = "creating" /\ ~worker.resume /\ StartStep
    /\ Release(worker.session)
    /\ Failed
    /\ UNCHANGED <<thread, adapter, quiet, reports>>

Opened(t) == [thread |-> t, status |-> "open"]
Exited(t) == [thread |-> t, status |-> "stopped"]

\* Mutant: the directory does not hear of the session.
SessionStarts_Unlisted ==
    /\ worker.at = "creating" /\ StartStep
    /\ sessions' = [sessions EXCEPT ![worker.thread] = worker.session]
    /\ reports' = Append(reports, Opened(worker.thread))
    /\ worker' = [worker EXCEPT !.at = "writing", !.outcome = "sending"]
    /\ UNCHANGED <<poolVars, readModel, ctx, exits, directory, quiet>>

\* The session is there, whatever has happened to its server meanwhile.
SessionStarts ==
    /\ worker.at = "creating" /\ StartStep
    /\ sessions' = [sessions EXCEPT ![worker.thread] = worker.session]
    /\ directory' = directory \cup {worker.thread}
    /\ reports' = Append(reports, Opened(worker.thread))
    /\ worker' = [worker EXCEPT !.at = "writing", !.outcome = "sending"]
    /\ UNCHANGED <<poolVars, readModel, ctx, exits, quiet>>

\* The engine takes what the worker has to say of the session, and it goes on.
SessionWritten ==
    /\ worker.at = "writing" /\ StartStep
    /\ SetSession(worker.thread, worker.status)
    /\ TurnIs(worker.turn, worker.outcome)
    /\ worker' = Idle
    /\ UNCHANGED <<poolVars, adapter, quiet, reports>>

-----------------------------------------------------------------------------
(***************************************************************************)
(* A turn is sent by a fiber of its own.                                   *)
(***************************************************************************)
SendStep == UNCHANGED <<poolVars, clients, worker, deleter, adapter, quiet, reports>>

TurnSent(n) ==
    /\ turns[n].at = "sending" /\ CanStop(turns[n].thread)
    /\ TurnIs(n, "ended")
    /\ SendStep /\ UNCHANGED thread

\* The session is gone, or the provider refuses.
SendFails(n) ==
    LET th == thread[turns[n].thread]
    IN  /\ turns[n].at = "sending"
        /\ turns' = [turns EXCEPT ![n] =
              [@ EXCEPT !.at = IF th.status = "none" THEN "ended" ELSE "failing",
                        !.status = th.status]]
        /\ SendStep /\ UNCHANGED thread

SendFailureWritten(n) ==
    /\ turns[n].at = "failing"
    /\ SetSession(turns[n].thread, turns[n].status)
    /\ turns' = [turns EXCEPT ![n] = [@ EXCEPT !.at = "ended", !.status = "none"]]
    /\ SendStep

-----------------------------------------------------------------------------
(***************************************************************************)
(* The end of a session that was stopped: its server is released, and the  *)
(* thread has no session, whichever it was that was stopped.               *)
(***************************************************************************)
Ended(c) ==
    LET t == ctx[c].thread
    IN  /\ Release(c)
        /\ sessions' = [sessions EXCEPT ![t] = NoSession]
        /\ directory' = directory \ {t}
        /\ reports' = Append(reports, Exited(t))
        /\ quiet' = quiet \ {t}
        /\ UNCHANGED <<readModel, clients, ctx, exits>>

StopEnds ==
    /\ worker.at = "ending"
    /\ Ended(worker.session)
    /\ worker' = [worker EXCEPT !.at = "writing", !.session = NoSession]
    /\ UNCHANGED deleter

\* The worker of the thread deletion reactor; a thread it cannot find a
\* session of is passed over.
TakeDeletion ==
    LET t == Head(deletions)
    IN  /\ deleter = NoSession /\ deletions # <<>>
        /\ deletions' = Tail(deletions)
        /\ raced' = IF worker.thread = t /\ worker.at \in Starting THEN raced \cup {t} ELSE raced
        /\ IF CanStop(t)
           THEN /\ deleter' = sessions[t]
                /\ ctx' = [ctx EXCEPT ![sessions[t]].stopped = TRUE]
           ELSE UNCHANGED <<deleter, ctx>>
        /\ UNCHANGED <<poolVars, readModel, requests, commands, worker, sessions, directory,
                       exits, quiet, reports>>

DeletionEnds ==
    /\ deleter # NoSession
    /\ Ended(deleter)
    /\ deleter' = NoSession
    /\ UNCHANGED worker

-----------------------------------------------------------------------------
(***************************************************************************)
(* emitUnexpectedExit, called by the pool when the server crashed, or by   *)
(* the session's event pump when its stream breaks. A stream that ends     *)
(* without a failure leaves the session to itself.                         *)
(***************************************************************************)
\* Mutant: the thread keeps the session.
ExitBegins_KeepsSession(c, callback) ==
    LET t == ctx[c].thread
    IN  /\ ctx' = [ctx EXCEPT ![c].stopped = TRUE]
        /\ reports' = reports \o <<Opened(t), Exited(t)>>
        /\ exits' = exits \cup {[session |-> c, callback |-> callback]}
        /\ UNCHANGED <<poolVars, readModel, clients, worker, deleter, directory, quiet, sessions>>

ExitBegins(c, callback) ==
    LET t == ctx[c].thread
    IN  /\ ctx' = [ctx EXCEPT ![c].stopped = TRUE]
        /\ sessions' = [sessions EXCEPT ![t] = NoSession]
        /\ reports' = reports \o <<Opened(t), Exited(t)>>
        /\ exits' = exits \cup {[session |-> c, callback |-> callback]}
        /\ quiet' = quiet \ {t}
        /\ UNCHANGED <<poolVars, readModel, clients, worker, deleter, directory>>

\* The callback of a start looks for the session its thread has now.
CrashCallback(s) ==
    LET t == ctx[s].thread
    IN  /\ s \in mutex.firing /\ \A x \in exits : x.callback # s
        /\ IF IsLive(t) THEN ExitBegins(sessions[t], s)
           ELSE /\ CallbackEnds(s)
                /\ UNCHANGED <<entry, server, sweep>>
                /\ UNCHANGED <<readModel, clients, worker, deleter, adapter, quiet, reports>>

\* The event pump of a session ends it only if its stream fails; a stream that
\* ends by itself leaves the session without a pump.
PumpFails(t) == IsLive(t) /\ t \notin quiet /\ ExitBegins(sessions[t], NoSession)

PumpEnds(t) ==
    /\ IsLive(t) /\ t \notin quiet
    /\ quiet' = quiet \cup {t}
    /\ UNCHANGED <<poolVars, readModel, clients, worker, deleter, adapter, reports>>

ExitHandled(x) ==
    /\ exits' = exits \ {x}
    /\ Released(x.session)
    /\ IF x.callback = NoSession THEN UNCHANGED mutex ELSE CallbackEnds(x.callback)
    /\ UNCHANGED <<entry, sweep>>
    /\ UNCHANGED <<readModel, clients, worker, deleter, sessions, ctx, directory, quiet, reports>>

-----------------------------------------------------------------------------
\* Ingestion writes what sessions report, in order.
Ingest ==
    LET r == Head(reports)
    IN  /\ reports # <<>>
        /\ reports' = Tail(reports)
        /\ SetSession(r.thread, r.status)
        /\ UNCHANGED <<poolVars, turns, clients, worker, deleter, adapter, quiet>>

-----------------------------------------------------------------------------
PoolStep ==
    /\ \/ TornDown
       \/ \E g \in Generations : ServerExits(g) \/ CrashNoticed(g)
       \/ \E w \in Sweepers : Sweep(w)
    /\ UNCHANGED <<readModel, clients, worker, deleter, adapter, quiet, reports>>

TakeCommand == TakeTurn \/ TakeMode \/ TakeStop

StartSession ==
    \/ EndExisting \/ ExistingEnded \/ PrepareFails
    \/ AcquireServer \/ SpawnServer \/ ServerSpawned \/ ServerNotSpawned
    \/ ResumeMisses \/ CreateFails \/ SessionStarts

WorkerStep == TakeCommand \/ StartSession \/ StopEnds \/ SessionWritten
DeleterStep == TakeDeletion \/ DeletionEnds
SendTurn(n) == TurnSent(n) \/ SendFails(n) \/ SendFailureWritten(n)

Client(t) ==
    RequestTurn(t) \/ RequestStop(t) \/ SetMode(t) \/ Delete(t)

Next ==
    \/ PoolStep
    \/ WorkerStep \/ DeleterStep \/ Ingest
    \/ \E t \in Threads : Client(t) \/ PumpFails(t) \/ PumpEnds(t)
    \/ \E n \in DOMAIN turns : SendTurn(n)
    \/ \E s \in Sessions : CrashCallback(s)
    \/ \E x \in exits : ExitHandled(x)

Spec == Init /\ [][Next]_vars

(***************************************************************************)
(* Some fiber that can run does, the calls they wait for answer and an     *)
(* exit code is heard. Nobody has to ask, sweep or crash, and no stream    *)
(* has to break: that of a dead server may end without a failure. Only     *)
(* finitely much is asked, so that this is less than fairness to each      *)
(* fiber.                                                                  *)
(***************************************************************************)
Unasked == UNCHANGED <<readModel, clients, worker, deleter, adapter, quiet, reports>>

Progress ==
    \/ WorkerStep \/ DeleterStep \/ Ingest
    \/ \E n \in DOMAIN turns : SendTurn(n)
    \/ Unasked /\ (TornDown \/ \E g \in Generations : CrashNoticed(g))
    \/ \E s \in Sessions : CrashCallback(s)
    \/ \E x \in exits : ExitHandled(x)

Fairness ==
    /\ WF_vars(Progress)
    /\ WF_vars(Unasked /\ \E w \in Sweepers : SweepEvicts(w) \/ SweepRetains(w))

FairSpec == Spec /\ Fairness

-----------------------------------------------------------------------------
\* The variables have their types.
TypeOK ==
    /\ PoolTypeOK
    /\ thread \in [Threads -> [deleted : BOOLEAN, status : Statuses]]
    /\ turns \in Seq([thread : Threads, status : Statuses,
                      at : {"queued", "starting", "sending", "failing", "ended"}])
    /\ requests \in 0 .. MaxRequests
    /\ commands \in Seq([kind : {"turn", "stop", "mode"}, thread : Threads, turn : Nat])
    /\ deletions \in Seq(Threads)
    /\ raced \subseteq {t \in Threads : thread[t].deleted}
    /\ worker \in [at : {"idle", "ending", "writing"} \cup Starting, turn : 0 .. Len(turns),
                   thread : Threads \cup {NoSession}, session : 0 .. Len(ctx),
                   resume : BOOLEAN, outcome : {"none", "sending", "ended"}, status : Statuses]
    /\ worker.at = "idle" => worker = Idle
    /\ deleter \in 0 .. Len(ctx)
    /\ sessions \in [Threads -> 0 .. Len(ctx)]
    /\ ctx \in Seq([thread : Threads, gen : 0 .. Len(server), stopped : BOOLEAN])
    /\ directory \subseteq Threads
    /\ exits \subseteq [session : Sessions, callback : Sessions \cup {NoSession}]
    /\ quiet \subseteq Threads
    /\ reports \in Seq([thread : Threads, status : Statuses])

(***************************************************************************)
(* No session loses its server while both live: neither a sweep, nor the   *)
(* crash or the release of another session, nor a spawn takes it.          *)
(***************************************************************************)
SessionsKeepTheirServer ==
    \A t \in Threads :
        IsLive(t) /\ server[ctx[sessions[t]].gen].alive
            => /\ entry = ctx[sessions[t]].gen
               /\ sessions[t] \in server[entry].holders

(***************************************************************************)
(* No lease leaks: someone will return every lease on the pooled server,   *)
(* whichever of the starts, stops, crashes and rollbacks came before. The  *)
(* exception are threads deleted while a session of theirs was starting    *)
(* or before it was: the end of an old session may forget a new one.       *)
(***************************************************************************)
LeasesAreUsed ==
    entry # 0 =>
        \A s \in server[entry].holders :
            \/ s \in {worker.session, deleter, sessions[ctx[s].thread]}
            \/ \E x \in exits : x.session = s
            \/ ctx[s].thread \in raced

(***************************************************************************)
(* Once the deletion of a thread has been handled nothing runs for it, if  *)
(* no start was under way then or came later.                              *)
(***************************************************************************)
DeletedThreadsEnd ==
    \A t \in Threads \ raced :
        thread[t].deleted /\ (\A i \in DOMAIN deletions : deletions[i] # t)
            => ~IsLive(t)

(***************************************************************************)
(* Every turn is sent or reported as failed, whatever crashes, sweeps and  *)
(* deletions come between: nobody waits for a mutex whose holder waits.    *)
(***************************************************************************)
EveryTurnEnds == []<>(\A n \in DOMAIN turns : turns[n].at = "ended")

\* The session its thread has now.
Installed(s) == s \in DOMAIN ctx /\ sessions[ctx[s].thread] = s

\* One of the workers is stopping the session.
StopBegun(s) == s = deleter \/ (s = worker.session /\ worker.at \in {"stopping", "ending"})

(***************************************************************************)
(* The death of a server is noticed, and ends the sessions that lease it   *)
(* by then, event pumps or not: when the callback of a session has run the *)
(* session is no longer that of its thread, unless a stop of it has begun, *)
(* whichever stops, restarts and exits of others came between. A session   *)
(* installed after its callback has only its pump to end it.               *)
(***************************************************************************)
CrashEndsSessions ==
    /\ [][\A s \in mutex.firing \ mutex'.firing :
             Installed(s)' => StopBegun(s)']_vars
    /\ []<>(mutex.firing = {} /\ (entry # 0 => server[entry].alive))

=============================================================================
