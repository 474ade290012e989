------------------------- MODULE AgentSessionsProofs -------------------------
(***************************************************************************)
(* What holds of the sessions of a project however many threads, requests  *)
(* and sweepers there are: the workers, the crash callbacks and the event  *)
(* pumps use the server pool as its callers may, so that what is proved of *)
(* the pool holds of the composition; a live session keeps its server; a   *)
(* lease is returned; and a deleted thread ends.                           *)
(*                                                                         *)
(* The inductive invariant says what each actor knows of the session it    *)
(* works on while others run: that a session somebody stops is marked, that*)
(* the session the worker starts is not yet in the adapter's map, and that *)
(* a stop that was found for a deletion meets a newer session of its thread*)
(* only if a start and the deletion overlapped.                            *)
(***************************************************************************)
EXTENDS AgentSessions, ServerPoolProofs

\* The starts made, the commands that may cause one and the one about to be made
\* are no more than the requests.
Pending == IF worker.at \in {"preparing", "stopping"} THEN 1 ELSE 0

StartsAreAsked == Len(ctx) + Len(commands) + Pending <= requests

\* A command, and the worker when it is done, name a turn that was asked for and
\* what becomes of it.
TurnsAreAsked ==
    /\ \A i \in DOMAIN commands : commands[i].turn \in 0 .. Len(turns)
    /\ worker.at = "ending" => worker.turn = 0
    /\ worker.at = "writing" => worker.turn = 0 \/ worker.outcome # "none"

\* Leases exist on the pooled server only, of sessions that were started.
LeasesAreOfStarts ==
    /\ \A g \in Generations :
         /\ g # entry => server[g].holders = {}
         /\ server[g].holders \subseteq DOMAIN ctx
    /\ mutex.firing \subseteq DOMAIN ctx
    /\ mutex.by = "spawn" => \A s \in DOMAIN ctx : ctx[s].gen # mutex.gen

\* The adapter's map leads to sessions of the thread that had a server, and the
\* directory lists the live ones.
SessionsAreTheirThreads ==
    \A t \in Threads :
        /\ sessions[t] # NoSession => ctx[sessions[t]].thread = t /\ ctx[sessions[t]].gen # 0
        /\ IsLive(t) => t \in directory

\* The session the worker stops or starts.
WorkerKnowsItsSession ==
    /\ worker.at # "idle" => worker.thread \in Threads
    /\ worker.at \in {"stopping", "ending"} =>
         /\ worker.session # NoSession
         /\ ctx[worker.session].thread = worker.thread
         /\ ctx[worker.session].stopped
         /\ sessions[worker.thread] \in {NoSession, worker.session}
    /\ worker.at \in {"acquiring", "creating"} =>
         /\ worker.session # NoSession
         /\ ctx[worker.session].thread = worker.thread
         /\ ~ctx[worker.session].stopped
         /\ sessions[worker.thread] = NoSession
    /\ worker.at = "acquiring" =>
         \A g \in Generations : worker.session \notin server[g].holders
    /\ worker.at = "creating" => ctx[worker.session].gen # 0

\* A session somebody else stops is marked; the one a deletion stops is the last
\* of its thread, unless the deletion met a start.
StopsAreMarked ==
    /\ \A x \in exits : x.session \in DOMAIN ctx /\ ctx[x.session].stopped
    /\ deleter # NoSession =>
         LET t == ctx[deleter].thread
         IN  /\ ctx[deleter].stopped
             /\ thread[t].deleted
             /\ \/ t \in raced
                \/ /\ sessions[t] \in {NoSession, deleter}
                   /\ ~(worker.thread = t /\ worker.at \in Starting)

\* A session that nobody stops and that is, or is about to be, its thread's.
InUse(s) ==
    /\ ~ctx[s].stopped
    /\ sessions[ctx[s].thread] = s \/ (worker.at = "creating" /\ worker.session = s)

UsedServersStay ==
    \A s \in DOMAIN ctx :
        InUse(s) /\ server[ctx[s].gen].alive =>
            entry = ctx[s].gen /\ s \in server[entry].holders

\* Who will return the lease of session s.
Returns(s) ==
    IF ctx[s].stopped
    THEN \/ worker.at \in {"stopping", "ending"} /\ worker.session = s
         \/ deleter = s
         \/ \E x \in exits : x.session = s
    ELSE \/ worker.at = "creating" /\ worker.session = s
         \/ sessions[ctx[s].thread] = s
         \/ ctx[s].thread \in raced

LeasesAreReturned ==
    entry # 0 => \A s \in server[entry].holders : Returns(s)

\* A start in a thread whose deletion was handled met that deletion.
StartsMeetDeletions ==
    /\ DeletedThreadsEnd
    /\ \A i \in DOMAIN deletions : thread[deletions[i]].deleted
    /\ worker.at \in Starting =>
         LET t == worker.thread
         IN  \/ ~thread[t].deleted \/ t \in raced
             \/ \E i \in DOMAIN deletions : deletions[i] = t

SessionsInv ==
    /\ TypeOK
    /\ StartsAreAsked /\ TurnsAreAsked
    /\ LeasesAreOfStarts /\ SessionsAreTheirThreads
    /\ WorkerKnowsItsSession /\ StopsAreMarked
    /\ UsedServersStay /\ LeasesAreReturned /\ StartsMeetDeletions

-----------------------------------------------------------------------------
(* What the steps of the pool do to leases and processes *)

\* The other records of servers stay when one is replaced.
LEMMA RecordReplaced ==
    ASSUME PoolTypeOK, NEW g \in Generations, NEW r \in Server, server' = [server EXCEPT ![g] = r]
    PROVE  /\ Generations' = Generations
           /\ server'[g] = r
           /\ \A h \in Generations : h # g => server'[h] = server[h]
<1>1. server \in Seq(Server)
  BY DEF PoolTypeOK
<1> QED
  BY <1>1, ServerUpdate DEF Generations

LEMMA Reuses ==
    ASSUME PoolInv, NEW s \in Sessions, Reuse(s)
    PROVE  /\ entry \in Generations /\ Generations' = Generations
           /\ entry' = entry /\ mutex' = mutex /\ mutex.by = "free"
           /\ \A g \in Generations : server'[g].alive = server[g].alive
           /\ \A g \in Generations : g # entry => server'[g].holders = server[g].holders
           /\ server'[entry].holders = server[entry].holders \cup {s}
<1> DEFINE n == server[entry].refCount + 1
           H == server[entry].holders \cup {s}
           new == UsedBy(entry, n, H, FALSE)
<1>1. entry \in Generations /\ server[entry] \in Server /\ PoolTypeOK
  BY EntryType DEF PoolInv, Reuse
<1>2. n \in Nat /\ H \in SUBSET Sessions
  BY <1>1 DEF Server
<1>3. server' = [server EXCEPT ![entry] = new]
  BY DEF Reuse
<1> HIDE DEF n, H
<1>4. new \in Server /\ new.alive = server[entry].alive /\ new.holders = H
  BY <1>1, <1>2, UsersUpdate
<1> HIDE DEF new
<1>5. /\ Generations' = Generations /\ server'[entry] = new
      /\ \A h \in Generations : h # entry => server'[h] = server[h]
  BY <1>1, <1>3, <1>4, RecordReplaced
<1> QED
  BY <1>1, <1>4, <1>5, RecordTypes DEF Reuse, H

LEMMA Spawns ==
    ASSUME PoolInv, NEW s \in Sessions, Spawn(s)
    PROVE  /\ Len(server') = Len(server) + 1 /\ Len(server) \in Nat
           /\ \A g \in Generations : server'[g] = server[g]
           /\ ~server'[Len(server')].alive /\ server'[Len(server')].holders = {}
           /\ entry = 0 /\ entry' = 0
           /\ mutex'.by = "spawn" /\ mutex'.gen = Len(server') /\ mutex'.firing = {}
<1>1. server \in Seq(Server) /\ Spawning \in Server /\ server' = Append(server, Spawning)
  BY RecordTypes DEF PoolInv, PoolTypeOK, Spawn
<1>2. Len(server') = Len(server) + 1 /\ Len(server) \in Nat
      /\ (\A g \in Generations : server'[g] = server[g]) /\ server'[Len(server')] = Spawning
  BY <1>1 DEF Generations
<1>3. mutex' = [by |-> "spawn", session |-> s, gen |-> Len(server'), firing |-> {}]
  BY DEF Spawn, Free
<1>4. ~Spawning.alive /\ Spawning.holders = {}
  BY DEF Spawning
<1>5. ~server'[Len(server')].alive /\ server'[Len(server')].holders = {}
  BY <1>2, <1>4
<1>6. mutex'.by = "spawn" /\ mutex'.gen = Len(server') /\ mutex'.firing = {}
  BY <1>3
<1>7. entry = 0 /\ entry' = 0
  BY DEF Spawn
<1> QED
  BY <1>2, <1>5, <1>6, <1>7

LEMMA SpawnEnds ==
    ASSUME PoolInv, NEW s \in Sessions, SpawnSucceeds(s) \/ SpawnFails(s)
    PROVE  /\ mutex.gen \in Generations /\ Generations' = Generations
           /\ mutex.by = "spawn" /\ mutex' = Free /\ entry = 0
           /\ \A g \in Generations : ~server[g].alive
           /\ \A g \in Generations : g # mutex.gen => server'[g] = server[g]
           /\ SpawnSucceeds(s) => entry' = mutex.gen /\ server'[mutex.gen].holders = {s}
           /\ SpawnFails(s) => /\ entry' = 0 /\ server'[mutex.gen].holders = {}
                               /\ ~server'[mutex.gen].alive
<1>1. /\ mutex.gen \in Generations /\ PoolTypeOK /\ entry = 0 /\ mutex.by = "spawn"
      /\ mutex' = Free
  BY EntryType DEF PoolInv, SpawnSucceeds, SpawnFails, WhoIsAlive
<1>2. \A g \in Generations : ~server[g].alive
  BY <1>1, NobodyLives
<1>3. CASE SpawnSucceeds(s)
  <2> DEFINE new == [Spawning EXCEPT !.alive = TRUE, !.refCount = 1, !.holders = {s}]
  <2>1. new \in Server /\ new.holders = {s}
    BY DEF Spawning, Server
  <2>2. server' = [server EXCEPT ![mutex.gen] = new] /\ entry' = mutex.gen
    BY <1>3 DEF SpawnSucceeds
  <2>3. mutex.gen # 0
    BY <1>1 DEF Generations
  <2> HIDE DEF new
  <2>4. /\ Generations' = Generations /\ server'[mutex.gen] = new
        /\ \A h \in Generations : h # mutex.gen => server'[h] = server[h]
    BY <1>1, <2>1, <2>2, RecordReplaced
  <2>5. ~SpawnFails(s)
    BY <1>1, <2>2, <2>3 DEF SpawnFails
  <2> QED
    BY <1>1, <1>2, <2>1, <2>2, <2>4, <2>5
<1>4. CASE SpawnFails(s)
  <2>1. server' = [server EXCEPT ![mutex.gen] = Closed] /\ entry' = entry
    BY <1>4 DEF SpawnFails
  <2>2. Closed \in Server /\ Closed.holders = {} /\ ~Closed.alive
    BY RecordTypes DEF Closed
  <2>3. mutex.gen # 0
    BY <1>1 DEF Generations
  <2>4. /\ Generations' = Generations /\ server'[mutex.gen] = Closed
        /\ \A h \in Generations : h # mutex.gen => server'[h] = server[h]
    BY <1>1, <2>1, <2>2, RecordReplaced
  <2>5. ~SpawnSucceeds(s)
    BY <1>1, <2>1, <2>3 DEF SpawnSucceeds
  <2> QED
    BY <1>1, <1>2, <2>1, <2>2, <2>4, <2>5
<1> QED
  BY <1>3, <1>4

LEMMA Releases ==
    ASSUME PoolInv, NEW s \in Sessions, Released(s), entry' = entry
    PROVE  /\ Generations' = Generations
           /\ \A g \in Generations : server'[g].alive = server[g].alive
           /\ \A g \in Generations : g # entry => server'[g].holders = server[g].holders
           /\ entry # 0 => server'[entry].holders = server[entry].holders \ {s}
           /\ entry = 0 => server' = server
<1>1. CASE entry = 0
  BY <1>1 DEF Released, Generations
<1>2. CASE entry # 0
  <2> DEFINE n == server[entry].refCount
                    - (IF s \in server[entry].holders /\ server[entry].refCount > 0 THEN 1 ELSE 0)
             H == server[entry].holders \ {s}
             i == server[entry].idle \/ n = 0
             new == UsedBy(entry, n, H, i)
  <2>1. entry \in Generations /\ server[entry] \in Server /\ PoolTypeOK
    BY <1>2, EntryType DEF PoolInv
  <2>2. n \in Nat /\ H \in SUBSET Sessions
    BY <2>1 DEF Server
  <2>3. i \in BOOLEAN
    BY Zenon
  <2>4. server' = [server EXCEPT ![entry] = new]
    BY <1>2 DEF Released
  <2> HIDE DEF n, H, i
  <2>5. new \in Server /\ new.alive = server[entry].alive /\ new.holders = H
    BY <2>1, <2>2, <2>3, UsersUpdate
  <2> HIDE DEF new
  <2>6. /\ Generations' = Generations /\ server'[entry] = new
        /\ \A h \in Generations : h # entry => server'[h] = server[h]
    BY <2>1, <2>4, <2>5, RecordReplaced
  <2> QED
    BY <1>2, <2>5, <2>6 DEF H
<1> QED
  BY <1>1, <1>2

\* A server is torn down that is dead, or that nobody uses.
LEMMA TearsDown ==
    ASSUME PoolInv, NEW g \in Generations, entry = g, TearDown(g)
    PROVE  /\ Generations' = Generations /\ entry' = 0
           /\ mutex'.by = "teardown" /\ mutex'.firing = server[g].holders
           /\ server'[g].holders = {} /\ server'[g].alive = server[g].alive
           /\ \A h \in Generations : h # g => server'[h] = server[h]
<1> DEFINE closed == [Closed EXCEPT !.alive = server[g].alive]
<1>1. server[g] \in Server /\ PoolTypeOK
  BY EntryType DEF PoolInv
<1>2. closed \in Server /\ closed.holders = {} /\ closed.alive = server[g].alive
  BY <1>1, RecordTypes DEF Closed, Server
<1>3. server' = [server EXCEPT ![g] = closed] /\ entry' = 0
  BY DEF TearDown
<1> HIDE DEF closed
<1>4. /\ Generations' = Generations /\ server'[g] = closed
      /\ \A h \in Generations : h # g => server'[h] = server[h]
  BY <1>1, <1>2, <1>3, RecordReplaced
<1> QED
  BY <1>2, <1>3, <1>4 DEF TearDown, Free

\* A process ends, by itself or because its scope is closed.
LEMMA ProcessEnds ==
    ASSUME PoolInv, TornDown \/ \E g \in Generations : ServerExits(g)
    PROVE  /\ Generations' = Generations /\ entry' = entry
           /\ mutex' = mutex \/ mutex' = Free
           /\ \A g \in Generations : /\ server'[g].holders = server[g].holders
                                     /\ server'[g].alive => server[g].alive
<1>1. PICK g \in Generations : server' = [server EXCEPT ![g].alive = FALSE]
  BY EntryType DEF PoolInv, TornDown, ServerExits
<1>2. /\ Len(server') = Len(server) /\ ~server'[g].alive
      /\ server'[g].holders = server[g].holders
      /\ \A h \in Generations \ {g} : server'[h] = server[h]
  BY <1>1, Dies DEF PoolInv
<1> QED
  BY <1>2 DEF TornDown, ServerExits, Generations

-----------------------------------------------------------------------------
(* What the steps do to the contexts of starts *)

Context == [thread : Threads, gen : 0 .. Len(server), stopped : BOOLEAN]
Command == [kind : {"turn", "stop", "mode"}, thread : Threads, turn : Nat]
Turn == [thread : Threads, status : Statuses,
         at : {"queued", "starting", "sending", "failing", "ended"}]
Report == [thread : Threads, status : Statuses]
Doing(n, s) ==
    [at : {"idle", "ending", "writing"} \cup Starting, turn : 0 .. n, thread : Threads \cup {NoSession},
     session : 0 .. s, resume : BOOLEAN, outcome : {"none", "sending", "ended"}, status : Statuses]

LEMMA Shapes ==
    ASSUME TypeOK, StartsAreAsked
    PROVE  /\ ctx \in Seq(Context) /\ Len(ctx) \in Nat /\ DOMAIN ctx = 1 .. Len(ctx)
           /\ DOMAIN ctx \subseteq Sessions /\ NoSession = 0
           /\ \A s \in DOMAIN ctx : ctx[s] \in Context
           /\ \A t \in Threads : sessions[t] # NoSession => sessions[t] \in DOMAIN ctx
           /\ worker.session # NoSession => worker.session \in DOMAIN ctx
           /\ deleter # NoSession => deleter \in DOMAIN ctx
           /\ worker.at \in {"preparing", "stopping"} => Len(ctx) + 1 \in Sessions
<1>1. ctx \in Seq(Context) /\ Len(ctx) \in Nat /\ DOMAIN ctx = 1 .. Len(ctx) /\ NoSession = 0
  BY SessionsAssumption DEF TypeOK, Context
<1>2. requests \in Nat /\ requests <= MaxRequests /\ MaxRequests \in Nat /\ Len(commands) \in Nat
  BY SessionsAssumption DEF TypeOK
<1>3. Len(ctx) <= MaxRequests
      /\ (worker.at \in {"preparing", "stopping"} => Len(ctx) + 1 <= MaxRequests)
  <2>1. Pending \in {0, 1} /\ (worker.at \in {"preparing", "stopping"} => Pending = 1)
    BY DEF Pending
  <2> QED
    BY <1>1, <1>2, <2>1 DEF StartsAreAsked
<1>4. Sessions = 1 .. MaxRequests
  BY SessionsAssumption
<1>5. \A s \in DOMAIN ctx : ctx[s] \in Context
  BY <1>1
<1>6. \A t \in Threads : sessions[t] \in 0 .. Len(ctx)
  BY DEF TypeOK
<1>7. worker.session \in 0 .. Len(ctx) /\ deleter \in 0 .. Len(ctx)
  BY DEF TypeOK
<1> QED
  BY <1>1, <1>2, <1>3, <1>4, <1>5, <1>6, <1>7

\* The context of a start is replaced.
LEMMA ContextReplaced ==
    ASSUME ctx \in Seq(Context), NEW c \in DOMAIN ctx, NEW r \in Context, ctx' = [ctx EXCEPT ![c] = r]
    PROVE  /\ ctx' \in Seq(Context) /\ Len(ctx') = Len(ctx) /\ DOMAIN ctx' = DOMAIN ctx
           /\ ctx'[c] = r
           /\ \A s \in DOMAIN ctx : s # c => ctx'[s] = ctx[s]
OBVIOUS

\* A session is marked as one that is being stopped.
LEMMA Marks ==
    ASSUME TypeOK, StartsAreAsked, NEW c \in DOMAIN ctx, ctx' = [ctx EXCEPT ![c].stopped = TRUE]
    PROVE  /\ DOMAIN ctx' = DOMAIN ctx /\ ctx' \in Seq(Context)
           /\ Len(ctx') = Len(ctx)
           /\ ctx'[c].stopped
           /\ \A s \in DOMAIN ctx : /\ ctx'[s].thread = ctx[s].thread /\ ctx'[s].gen = ctx[s].gen
                                    /\ s # c => ctx'[s] = ctx[s]
<1>1. ctx \in Seq(Context) /\ ctx[c] \in Context
  BY Shapes
<1> DEFINE r == [ctx[c] EXCEPT !.stopped = TRUE]
<1>2. r \in Context /\ r.thread = ctx[c].thread /\ r.gen = ctx[c].gen /\ r.stopped
  BY <1>1 DEF Context
<1>3. ctx' = [ctx EXCEPT ![c] = r]
  OBVIOUS
<1> HIDE DEF r
<1> QED
  BY <1>1, <1>2, <1>3, ContextReplaced

\* A start has got a server.
LEMMA Gets ==
    ASSUME TypeOK, StartsAreAsked, NEW c \in DOMAIN ctx, NEW g \in 0 .. Len(server),
           ctx' = [ctx EXCEPT ![c].gen = g]
    PROVE  /\ DOMAIN ctx' = DOMAIN ctx /\ ctx' \in Seq(Context) /\ Len(ctx') = Len(ctx)
           /\ ctx'[c].gen = g
           /\ \A s \in DOMAIN ctx :
                /\ ctx'[s].thread = ctx[s].thread /\ ctx'[s].stopped = ctx[s].stopped
                /\ s # c => ctx'[s] = ctx[s]
<1>1. ctx \in Seq(Context) /\ ctx[c] \in Context
  BY Shapes
<1> DEFINE r == [ctx[c] EXCEPT !.gen = g]
<1>2. r \in Context /\ r.thread = ctx[c].thread /\ r.stopped = ctx[c].stopped /\ r.gen = g
  BY <1>1 DEF Context
<1>3. ctx' = [ctx EXCEPT ![c] = r]
  OBVIOUS
<1> HIDE DEF r
<1> QED
  BY <1>1, <1>2, <1>3, ContextReplaced

\* A start begins.
LEMMA Begins ==
    ASSUME TypeOK, StartsAreAsked, worker.thread \in Threads, NewStart
    PROVE  /\ DOMAIN ctx' = DOMAIN ctx \cup {Len(ctx) + 1} /\ Len(ctx) + 1 \notin DOMAIN ctx
           /\ ctx' \in Seq(Context) /\ Len(ctx') = Len(ctx) + 1
           /\ \A s \in DOMAIN ctx : ctx'[s] = ctx[s]
           /\ ctx'[Len(ctx) + 1].thread = worker.thread
           /\ ctx'[Len(ctx) + 1].gen = 0
           /\ ~ctx'[Len(ctx) + 1].stopped
           /\ worker'.at = "acquiring" /\ worker'.session = Len(ctx) + 1
           /\ worker'.thread = worker.thread /\ worker'.turn = worker.turn
           /\ sessions'[worker.thread] = NoSession
           /\ \A t \in Threads : t # worker.thread => sessions'[t] = sessions[t]
<1> DEFINE r == [thread |-> worker.thread, gen |-> 0, stopped |-> FALSE]
<1>1. ctx \in Seq(Context) /\ Len(server) \in Nat /\ Len(ctx) \in Nat
  <2>1. Len(server) \in Nat
    BY EntryType DEF TypeOK
  <2> QED
    BY <2>1, Shapes
<1>2. r \in Context /\ r.thread = worker.thread /\ r.gen = 0 /\ ~r.stopped
  BY <1>1 DEF Context
<1>3. ctx' = Append(ctx, r)
  BY DEF NewStart
<1> HIDE DEF r
<1>4. /\ ctx' \in Seq(Context) /\ Len(ctx') = Len(ctx) + 1 /\ ctx'[Len(ctx) + 1] = r
      /\ \A s \in 1 .. Len(ctx) : ctx'[s] = ctx[s]
  BY <1>1, <1>2, <1>3
<1>5. DOMAIN ctx = 1 .. Len(ctx) /\ DOMAIN ctx' = 1 .. Len(ctx) + 1
  BY <1>1, <1>4
<1>6. /\ worker'.at = "acquiring" /\ worker'.session = Len(ctx) + 1
      /\ worker'.thread = worker.thread /\ worker'.turn = worker.turn
  <2>1. worker' = [worker EXCEPT !.at = "acquiring", !.session = Len(ctx) + 1]
    BY DEF NewStart
  <2> QED
    BY <2>1 DEF TypeOK
<1>7. /\ sessions'[worker.thread] = NoSession
      /\ \A t \in Threads : t # worker.thread => sessions'[t] = sessions[t]
  <2>1. sessions' = [sessions EXCEPT ![worker.thread] = NoSession]
    BY DEF NewStart
  <2> QED
    BY <2>1 DEF TypeOK
<1> QED
  BY <1>1, <1>2, <1>4, <1>5, <1>6, <1>7

-----------------------------------------------------------------------------
(* The composition uses the pool as its callers may *)

Inv == PoolInv /\ SessionsInv

\* Who releases, acquires or ends a callback has a session of the pool.
LEMMA ActorsHaveSessions ==
    ASSUME Inv
    PROVE  /\ worker.at \in {"stopping", "ending", "acquiring", "creating"} => worker.session \in Sessions
           /\ worker.at = "acquiring" => \A g \in Generations : worker.session \notin server[g].holders
           /\ deleter # NoSession => deleter \in Sessions
           /\ \A x \in exits : x.session \in Sessions /\ x.session \in DOMAIN ctx
BY Shapes DEF Inv, SessionsInv, WorkerKnowsItsSession, StopsAreMarked

\* Nothing is pooled while callbacks run, so that what they release is gone.
LEMMA CallbacksReleaseNothing ==
    ASSUME PoolInv, NEW s, NEW c, CallbackEnds(c), Released(s)
    PROVE  server' = server
<1>1. mutex.by = "teardown"
  BY DEF CallbackEnds
<1>2. entry = 0
  BY <1>1 DEF PoolInv, WhoIsAlive
<1> QED
  BY <1>2 DEF Released

LEMMA CallersUsePool ==
    ASSUME Inv, [Next]_vars
    PROVE  [PoolNext]_poolVars
<1>1. ASSUME PoolStep PROVE PoolNext
  BY <1>1 DEF PoolStep, PoolNext
<1>2. ASSUME NEW s \in Sessions, Release(s) PROVE PoolNext
  BY <1>2 DEF PoolNext
<1>3. ASSUME worker.at = "acquiring", Acquire(worker.session) PROVE PoolNext
  <2>1. worker.session \in Sessions /\ \A g \in Generations : worker.session \notin server[g].holders
    BY <1>3, ActorsHaveSessions
  <2> QED
    BY <1>3, <2>1 DEF PoolNext
<1>4. ASSUME WorkerStep PROVE [PoolNext]_poolVars
  <2>1. ASSUME TakeCommand \/ SessionWritten PROVE UNCHANGED poolVars
    BY <2>1 DEF TakeCommand, TakeTurn, TakeMode, TakeStop, Take, SessionWritten
  <2>2. ASSUME EndExisting \/ PrepareFails \/ SessionStarts PROVE UNCHANGED poolVars
    BY <2>2 DEF EndExisting, PrepareFails, SessionStarts
  <2>3. ASSUME AcquireServer \/ SpawnServer \/ ServerSpawned \/ ServerNotSpawned PROVE PoolNext
    BY <2>3, <1>3 DEF AcquireServer, SpawnServer, ServerSpawned, ServerNotSpawned, Acquire
  <2>4. ASSUME ExistingEnded \/ ResumeMisses \/ CreateFails \/ StopEnds PROVE PoolNext
    BY <2>4, <1>2, ActorsHaveSessions DEF ExistingEnded, ResumeMisses, CreateFails, StopEnds, Ended
  <2> QED
    BY <1>4, <2>1, <2>2, <2>3, <2>4 DEF WorkerStep, StartSession
<1>5. ASSUME DeleterStep PROVE [PoolNext]_poolVars
  BY <1>5, <1>2, ActorsHaveSessions DEF DeleterStep, TakeDeletion, DeletionEnds, Ended
<1>6. ASSUME Ingest \/ \E n \in DOMAIN turns : SendTurn(n) PROVE UNCHANGED poolVars
  BY <1>6 DEF Ingest, SendTurn, TurnSent, SendFails, SendFailureWritten, SendStep
<1>7. ASSUME NEW t \in Threads, Client(t) \/ PumpFails(t) \/ PumpEnds(t) PROVE UNCHANGED poolVars
  BY <1>7 DEF Client, RequestTurn, RequestStop, SetMode, Delete, Request, PumpFails, PumpEnds, ExitBegins
<1>8. ASSUME NEW s \in Sessions, CrashCallback(s) PROVE [PoolNext]_poolVars
  BY <1>8 DEF CrashCallback, ExitBegins, PoolNext
<1>9. ASSUME NEW x \in exits, ExitHandled(x) PROVE PoolNext
  <2>1. x.session \in Sessions
    BY ActorsHaveSessions
  <2>2. CASE x.callback = NoSession
    BY <1>2, <1>9, <2>1, <2>2 DEF ExitHandled, Release
  <2>3. CASE x.callback # NoSession
    <3>1. CallbackEnds(x.callback) /\ UNCHANGED <<entry, sweep>> /\ Released(x.session)
      BY <1>9, <2>3 DEF ExitHandled
    <3>2. x.callback \in Sessions
      BY <2>3 DEF Inv, SessionsInv, TypeOK
    <3>3. server' = server
      BY <3>1, CallbacksReleaseNothing DEF Inv
    <3> QED
      BY <3>1, <3>2, <3>3 DEF PoolNext
  <2> QED
    BY <2>2, <2>3
<1>10. ASSUME UNCHANGED vars PROVE UNCHANGED poolVars
  BY <1>10 DEF vars
<1> QED
  BY <1>1, <1>4, <1>5, <1>6, <1>7, <1>8, <1>9, <1>10 DEF Next

-----------------------------------------------------------------------------
(* How contexts and servers change *)

\* No server's record is lost.
LEMMA ServersStay ==
    ASSUME PoolInv, [PoolNext]_poolVars
    PROVE  Len(server) \in Nat /\ Len(server') \in Nat /\ Len(server) <= Len(server')
<1>1. PoolInv'
  BY PoolInvNext
<1>2. Len(server) \in Nat /\ Len(server') \in Nat
  BY <1>1 DEF PoolInv, PoolTypeOK
<1>3. server' = server \/ Len(server') = Len(server) + 1 \/ DOMAIN server' = DOMAIN server
  <2>1. ASSUME NEW s, Acquire(s)
        PROVE  Len(server') = Len(server) + 1 \/ DOMAIN server' = DOMAIN server
    <3>1. CASE Spawn(s)
      BY <3>1 DEF Spawn, PoolInv, PoolTypeOK
    <3>2. CASE Reuse(s) \/ SpawnSucceeds(s) \/ SpawnFails(s)
      BY <3>2 DEF Reuse, SpawnSucceeds, SpawnFails
    <3> QED
      BY <2>1, <3>1, <3>2 DEF Acquire
  <2>2. ASSUME NEW s, Release(s)
        PROVE  server' = server \/ DOMAIN server' = DOMAIN server
    BY <2>2 DEF Release, Released
  <2>3. ASSUME NEW g, TearDown(g) PROVE DOMAIN server' = DOMAIN server
    BY <2>3 DEF TearDown
  <2>4. ASSUME TornDown \/ \E g \in Generations : ServerExits(g)
        PROVE  DOMAIN server' = DOMAIN server
    BY <2>4 DEF TornDown, ServerExits
  <2> QED
    BY <2>1, <2>2, <2>3, <2>4
       DEF PoolNext, poolVars, CrashNoticed, Sweep, SweepBegins, SweepEvicts, SweepRetains
<1>4. server \in Seq(Server) /\ server' \in Seq(Server)
  BY <1>1 DEF PoolInv, PoolTypeOK
<1> QED
  BY <1>2, <1>3, <1>4

\* What is taken from a queue has the queue's type.
LEMMA QueueHeads ==
    ASSUME TypeOK
    PROVE  /\ commands # <<>> => /\ Head(commands).thread \in Threads /\ Head(commands).turn \in Nat
                                /\ Tail(commands) \in Seq(Command)
                                /\ Len(Tail(commands)) = Len(commands) - 1
           /\ deletions # <<>> => Head(deletions) \in Threads /\ Tail(deletions) \in Seq(Threads)
           /\ reports # <<>> => Head(reports) \in Report /\ Tail(reports) \in Seq(Report)
<1>1. commands \in Seq(Command) /\ deletions \in Seq(Threads) /\ reports \in Seq(Report)
  BY DEF TypeOK, Command, Report
<1>2. commands # <<>> => Head(commands) \in Command /\ Tail(commands) \in Seq(Command)
                         /\ Len(Tail(commands)) = Len(commands) - 1
  BY <1>1
<1>3. deletions # <<>> => Head(deletions) \in Threads /\ Tail(deletions) \in Seq(Threads)
  BY <1>1
<1>4. reports # <<>> => Head(reports) \in Report /\ Tail(reports) \in Seq(Report)
  BY <1>1
<1>5. \A c \in Command : c.thread \in Threads /\ c.turn \in Nat
  BY DEF Command
<1> QED
  BY <1>2, <1>3, <1>4, <1>5

\* A step marks a session, gives it its server, begins a start or leaves the
\* contexts as they are.
GetsServer ==
    /\ worker.at = "acquiring" /\ StartStep
    /\ \/ Reuse(worker.session) /\ Acquired(entry)
       \/ SpawnSucceeds(worker.session) /\ Acquired(mutex.gen)

BeginsStart ==
    /\ worker.at \in {"preparing", "stopping"}
    /\ worker.at = "preparing" => ~IsLive(worker.thread)
    /\ NewStart
    /\ UNCHANGED <<readModel, clients, deleter, directory, exits, reports>>

MarksSession(c) ==
    /\ ctx' = [ctx EXCEPT ![c].stopped = TRUE]
    /\ UNCHANGED poolVars

LEMMA ContextsChange ==
    ASSUME Inv, [Next]_vars
    PROVE  \/ ctx' = ctx \/ GetsServer \/ BeginsStart
           \/ \E c \in DOMAIN ctx : MarksSession(c)
<1>0. \A t \in Threads : IsLive(t) \/ CanStop(t) => sessions[t] \in DOMAIN ctx
  BY Shapes DEF Inv, SessionsInv, IsLive, CanStop
<1>1. CASE WorkerStep
  <2>1. CASE TakeTurn \/ TakeMode
    BY <2>1 DEF TakeTurn, TakeMode, EnsureSession
  <2>2. CASE TakeStop
    <3>1. Head(commands).thread \in Threads
      BY <2>2, QueueHeads DEF TakeStop, Take, Inv, SessionsInv
    <3> QED
      BY <2>2, <3>1, <1>0 DEF TakeStop, Take, MarksSession
  <2>3. CASE EndExisting
    <3>1. worker.thread \in Threads
      BY <2>3 DEF EndExisting, Inv, SessionsInv, WorkerKnowsItsSession
    <3> QED
      BY <2>3, <3>1, <1>0 DEF EndExisting, MarksSession, BeginsStart, StartStep
  <2>4. CASE ExistingEnded
    BY <2>4 DEF ExistingEnded, BeginsStart, StartStep
  <2>5. CASE AcquireServer \/ ServerSpawned
    BY <2>5 DEF AcquireServer, ServerSpawned, GetsServer
  <2>6. CASE PrepareFails \/ SpawnServer \/ ServerNotSpawned \/ ResumeMisses \/ CreateFails
             \/ SessionStarts \/ StopEnds \/ SessionWritten
    BY <2>6 DEF PrepareFails, SpawnServer, ServerNotSpawned, ResumeMisses, CreateFails,
       SessionStarts, StopEnds, Ended, SessionWritten, adapter
  <2> QED
    BY <1>1, <2>1, <2>2, <2>3, <2>4, <2>5, <2>6 DEF WorkerStep, TakeCommand, StartSession
<1>2. CASE TakeDeletion
  <2>1. Head(deletions) \in Threads
    BY <1>2, QueueHeads DEF TakeDeletion, Inv, SessionsInv
  <2> QED
    BY <1>2, <2>1, <1>0 DEF TakeDeletion, MarksSession
<1>3. ASSUME NEW t \in Threads, PumpFails(t) \/ PumpEnds(t)
      PROVE  ctx' = ctx \/ \E c \in DOMAIN ctx : MarksSession(c)
  BY <1>3, <1>0 DEF PumpFails, PumpEnds, ExitBegins, MarksSession, adapter
<1>4. ASSUME NEW s \in Sessions, CrashCallback(s)
      PROVE  ctx' = ctx \/ \E c \in DOMAIN ctx : MarksSession(c)
  <2>1. s \in DOMAIN ctx /\ ctx[s].thread \in Threads
    BY <1>4, Shapes DEF CrashCallback, Inv, SessionsInv, LeasesAreOfStarts, Context
  <2> QED
    BY <1>4, <2>1, <1>0 DEF CrashCallback, ExitBegins, MarksSession, adapter
<1>5. CASE PoolStep \/ DeletionEnds \/ Ingest \/ (\E n \in DOMAIN turns : SendTurn(n))
           \/ (\E t \in Threads : Client(t)) \/ (\E x \in exits : ExitHandled(x)) \/ UNCHANGED vars
  BY <1>5 DEF PoolStep, DeletionEnds, Ended, Ingest, SendTurn, TurnSent, SendFails,
     SendFailureWritten, SendStep, Client, RequestTurn, RequestStop, SetMode, Delete, Request, ExitHandled,
     vars, adapter
<1> QED
  BY <1>1, <1>2, <1>3, <1>4, <1>5 DEF Next, DeleterStep

\* A start keeps its thread, its mark and, but for the one that acquires, its server.
LEMMA ContextsStay ==
    ASSUME Inv, [Next]_vars
    PROVE  /\ ctx' \in Seq(Context')
           /\ Len(ctx) \in Nat /\ Len(ctx') \in Nat /\ Len(ctx) <= Len(ctx')
           /\ Len(ctx') = Len(ctx) \/ BeginsStart
           /\ DOMAIN ctx \subseteq DOMAIN ctx'
           /\ \A s \in DOMAIN ctx :
                /\ ctx'[s].thread = ctx[s].thread
                /\ ctx[s].stopped => ctx'[s].stopped
                /\ ctx[s].gen # 0 => ctx'[s].gen # 0
                /\ ctx'[s].gen = ctx[s].gen \/ (GetsServer /\ s = worker.session)
<1>0. TypeOK /\ StartsAreAsked /\ PoolInv
  BY DEF Inv, SessionsInv
<1>1. Len(server) \in Nat /\ Len(server') \in Nat /\ Len(server) <= Len(server')
  BY <1>0, CallersUsePool, ServersStay
<1>2. Context \subseteq Context'
  BY <1>1 DEF Context
<1>3. ctx \in Seq(Context) /\ Len(ctx) \in Nat /\ DOMAIN ctx = 1 .. Len(ctx)
      /\ \A s \in DOMAIN ctx : ctx[s] \in Context
  BY <1>0, Shapes
<1>4. ASSUME NEW q \in Seq(Context) PROVE q \in Seq(Context')
  BY <1>2
<1>5. CASE ctx' = ctx
  BY <1>3, <1>4, <1>5
<1>6. CASE \E c \in DOMAIN ctx : MarksSession(c)
  <2>1. PICK c \in DOMAIN ctx : ctx' = [ctx EXCEPT ![c].stopped = TRUE]
    BY <1>6 DEF MarksSession
  <2>2. /\ DOMAIN ctx' = DOMAIN ctx /\ ctx' \in Seq(Context)
        /\ Len(ctx') = Len(ctx)
        /\ ctx'[c].stopped
        /\ \A s \in DOMAIN ctx : /\ ctx'[s].thread = ctx[s].thread /\ ctx'[s].gen = ctx[s].gen
                                 /\ s # c => ctx'[s] = ctx[s]
    BY <1>0, <2>1, Marks
  <2> QED
    BY <2>2, <1>3, <1>4
<1>7. CASE BeginsStart
  <2>1. worker.thread \in Threads
    BY <1>7 DEF BeginsStart, Inv, SessionsInv, WorkerKnowsItsSession
  <2>2. /\ DOMAIN ctx' = DOMAIN ctx \cup {Len(ctx) + 1}
        /\ ctx' \in Seq(Context) /\ Len(ctx') = Len(ctx) + 1
        /\ \A s \in DOMAIN ctx : ctx'[s] = ctx[s]
    BY <1>0, <1>7, <2>1, Begins DEF BeginsStart
  <2> QED
    BY <2>2, <1>3, <1>4, <1>7
<1>8. CASE GetsServer
  <2>1. PICK g \in Generations : Acquired(g)
    <3>1. CASE Reuse(worker.session) /\ Acquired(entry)
      BY <1>0, <3>1, EntryType DEF Reuse, PoolInv
    <3>2. CASE SpawnSucceeds(worker.session) /\ Acquired(mutex.gen)
      BY <1>0, <3>2, EntryType DEF SpawnSucceeds, PoolInv
    <3> QED
      BY <1>8, <3>1, <3>2 DEF GetsServer
  <2> DEFINE c == worker.session
  <2>2. c \in DOMAIN ctx
    BY <1>8, <1>0, Shapes DEF GetsServer, Inv, SessionsInv, WorkerKnowsItsSession
  <2>3. g \in 0 .. Len(server) /\ ctx' = [ctx EXCEPT ![c].gen = g]
    BY <2>1, <1>1 DEF Acquired, Generations
  <2> HIDE DEF c
  <2>4. /\ DOMAIN ctx' = DOMAIN ctx /\ ctx' \in Seq(Context) /\ Len(ctx') = Len(ctx)
        /\ ctx'[c].gen = g
        /\ \A s \in DOMAIN ctx :
                /\ ctx'[s].thread = ctx[s].thread /\ ctx'[s].stopped = ctx[s].stopped
                /\ s # c => ctx'[s] = ctx[s]
    BY <1>0, <2>2, <2>3, Gets
  <2>5. g # 0
    BY DEF Generations
  <2> QED
    BY <2>4, <2>5, <1>3, <1>4, <1>8 DEF c
<1> QED
  BY <1>5, <1>6, <1>7, <1>8, ContextsChange


-----------------------------------------------------------------------------
(* The variables keep their types *)

\* A thread's record is replaced.
LEMMA ThreadReplaced ==
    ASSUME TypeOK, NEW t \in Threads,
           \/ thread' = [thread EXCEPT ![t].deleted = TRUE]
           \/ \E st \in Statuses : thread' = [thread EXCEPT ![t].status = st]
    PROVE  /\ thread' \in [Threads -> [deleted : BOOLEAN, status : Statuses]]
           /\ \A u \in Threads : thread[u].deleted => thread'[u].deleted
<1>1. thread \in [Threads -> [deleted : BOOLEAN, status : Statuses]]
  BY DEF TypeOK
<1>2. CASE thread' = [thread EXCEPT ![t].deleted = TRUE]
  BY <1>1, <1>2
<1>3. ASSUME NEW st \in Statuses, thread' = [thread EXCEPT ![t].status = st]
      PROVE  /\ thread' \in [Threads -> [deleted : BOOLEAN, status : Statuses]]
             /\ \A u \in Threads : thread'[u].deleted = thread[u].deleted
  BY <1>1, <1>3
<1> QED
  BY <1>2, <1>3

LEMMA TurnTypes ==
    ASSUME TypeOK
    PROVE  /\ turns \in Seq(Turn) /\ Len(turns) \in Nat
           /\ \A n \in DOMAIN turns : turns[n].thread \in Threads /\ turns[n].status \in Statuses
<1>1. turns \in Seq(Turn)
  BY DEF TypeOK, Turn
<1>2. \A n \in DOMAIN turns : turns[n] \in Turn
  BY <1>1
<1> QED
  BY <1>1, <1>2 DEF Turn

\* What a step does to the threads and to the set of the raced.
LEMMA ThreadsChange ==
    ASSUME Inv, [Next]_vars
    PROVE  \/ thread' = thread
           \/ \E t \in Threads :
                 \/ Delete(t) /\ thread' = [thread EXCEPT ![t].deleted = TRUE]
                 \/ \E st \in Statuses : thread' = [thread EXCEPT ![t].status = st]
<1>0. TypeOK /\ WorkerKnowsItsSession
  BY DEF Inv, SessionsInv
<1>1. CASE PoolStep
  BY <1>1 DEF PoolStep, readModel
<1>2. CASE SessionWritten
  <2>1. worker.thread \in Threads
    BY <1>0, <1>2 DEF SessionWritten, WorkerKnowsItsSession
  <2>2. worker.status \in Statuses
    BY <1>0 DEF TypeOK
  <2> QED
    BY <1>2, <2>1, <2>2 DEF SessionWritten, SetSession
<1>3. CASE TakeCommand \/ StartSession \/ StopEnds
  BY <1>3 DEF TakeCommand, StartSession, StopEnds, TakeTurn, TakeMode, TakeStop, Take, EndExisting, ExistingEnded,
     PrepareFails, AcquireServer, SpawnServer, ServerSpawned, ServerNotSpawned, ResumeMisses,
     CreateFails, SessionStarts, Acquired, Ended, readModel
<1>4. CASE DeleterStep
  BY <1>4 DEF DeleterStep, TakeDeletion, DeletionEnds, Ended, readModel
<1>5. CASE Ingest
  <2>1. Head(reports) \in Report
    BY <1>0, <1>5, QueueHeads DEF Ingest
  <2> QED
    BY <1>5, <2>1 DEF Ingest, SetSession, Report
<1>6. ASSUME NEW t \in Threads, Client(t) \/ PumpFails(t) \/ PumpEnds(t)
      PROVE  thread' = thread \/ (Delete(t) /\ thread' = [thread EXCEPT ![t].deleted = TRUE])
  BY <1>6 DEF Client, RequestTurn, RequestStop, SetMode, Delete, PumpFails, PumpEnds, ExitBegins, readModel
<1>7. ASSUME NEW n \in DOMAIN turns, SendTurn(n)
      PROVE  \/ thread' = thread
             \/ \E t \in Threads, st \in Statuses : thread' = [thread EXCEPT ![t].status = st]
  <2>1. turns[n].thread \in Threads /\ turns[n].status \in Statuses
    BY <1>0, TurnTypes
  <2> QED
    BY <1>7, <2>1 DEF SendTurn, TurnSent, SendFails, SendFailureWritten, SetSession
<1>8. CASE (\E s \in Sessions : CrashCallback(s)) \/ (\E x \in exits : ExitHandled(x)) \/ UNCHANGED vars
  BY <1>8 DEF CrashCallback, ExitBegins, ExitHandled, vars, readModel
<1> QED
  BY <1>1, <1>2, <1>3, <1>4, <1>5, <1>6, <1>7, <1>8 DEF Next, WorkerStep

LEMMA ThreadsStay ==
    ASSUME Inv, [Next]_vars
    PROVE  /\ thread' \in [Threads -> [deleted : BOOLEAN, status : Statuses]]
           /\ \A t \in Threads : thread[t].deleted => thread'[t].deleted
<1>0. TypeOK
  BY DEF Inv, SessionsInv
<1>1. CASE thread' = thread
  BY <1>0, <1>1 DEF TypeOK
<1> QED
  BY <1>0, <1>1, ThreadsChange, ThreadReplaced

\* The threads whose deletion met a start have been deleted; none is forgotten.
LEMMA RacedType ==
    ASSUME Inv, [Next]_vars
    PROVE  /\ raced \subseteq raced'
           /\ raced' \subseteq {t \in Threads : thread'[t].deleted}
<1>0. TypeOK /\ raced \subseteq {t \in Threads : thread'[t].deleted}
  BY ThreadsStay DEF Inv, SessionsInv, TypeOK
<1>1. CASE TakeTurn \/ TakeMode
  <2>1. Head(commands).thread \in Threads /\ thread' = thread
    BY <1>0, <1>1, QueueHeads DEF TakeTurn, TakeMode, Take
  <2> QED
    BY <1>0, <1>1, <2>1 DEF TakeTurn, TakeMode, EnsureSession
<1>2. CASE TakeDeletion
  <2>1. Head(deletions) \in Threads /\ thread' = thread
    BY <1>0, <1>2, QueueHeads DEF TakeDeletion, readModel
  <2>2. thread[Head(deletions)].deleted
    <3>1. Head(deletions) = deletions[1] /\ 1 \in DOMAIN deletions
      BY <1>0, <1>2 DEF TakeDeletion, TypeOK
    <3> QED
      BY <3>1 DEF Inv, SessionsInv, StartsMeetDeletions
  <2> QED
    BY <1>0, <1>2, <2>1, <2>2 DEF TakeDeletion
<1>3. CASE raced' = raced
  BY <1>0, <1>3
<1>4. ASSUME WorkerStep, ~TakeTurn, ~TakeMode PROVE raced' = raced
  BY <1>4 DEF WorkerStep, TakeCommand, StartSession, StopEnds, TakeStop, EndExisting, ExistingEnded,
     PrepareFails, AcquireServer, SpawnServer, ServerSpawned, ServerNotSpawned, ResumeMisses,
     CreateFails, SessionStarts, SessionWritten, Ended, clients, StartStep
<1>5. ASSUME Ingest \/ DeletionEnds \/ PoolStep PROVE raced' = raced
  BY <1>5 DEF Ingest, DeletionEnds, PoolStep, Ended, clients
<1>6. ASSUME NEW t \in Threads, Client(t) \/ PumpFails(t) \/ PumpEnds(t) PROVE raced' = raced
  BY <1>6 DEF Client, RequestTurn, RequestStop, SetMode, Delete, Request, PumpFails, PumpEnds, ExitBegins, clients
<1>7. ASSUME NEW n \in DOMAIN turns, SendTurn(n) PROVE raced' = raced
  BY <1>7 DEF SendTurn, TurnSent, SendFails, SendFailureWritten, SendStep, clients
<1>8. ASSUME (\E s \in Sessions : CrashCallback(s)) \/ (\E x \in exits : ExitHandled(x)) \/ UNCHANGED vars
      PROVE  raced' = raced
  BY <1>8 DEF CrashCallback, ExitBegins, ExitHandled, vars, clients
<1> QED
  BY <1>1, <1>2, <1>3, <1>4, <1>5, <1>6, <1>7, <1>8 DEF Next, DeleterStep

TurnsAt == {"queued", "starting", "sending", "failing", "ended"}

LEMMA TurnIsType ==
    ASSUME TypeOK, NEW n \in 0 .. Len(turns), NEW at \in TurnsAt, TurnIs(n, at)
    PROVE  turns' \in Seq(Turn) /\ Len(turns') = Len(turns)
<1>1. turns \in Seq(Turn) /\ Len(turns) \in Nat
  BY TurnTypes
<1>2. CASE n = 0
  BY <1>1, <1>2 DEF TurnIs
<1>3. CASE n # 0
  <2> DEFINE r == [turns[n] EXCEPT !.at = at]
  <2>1. n \in 1 .. Len(turns) /\ turns[n] \in Turn
    BY <1>1, <1>3
  <2>2. r \in Turn
    BY <2>1 DEF Turn, TurnsAt
  <2>3. turns' = [turns EXCEPT ![n] = r]
    BY <1>3 DEF TurnIs
  <2> HIDE DEF r
  <2> QED
    BY <1>1, <2>1, <2>2, <2>3
<1> QED
  BY <1>2, <1>3

\* What the worker knows is of its type.
LEMMA WorkerTypes ==
    ASSUME TypeOK, StartsAreAsked
    PROVE  /\ worker.turn \in 0 .. Len(turns) /\ worker.session \in 0 .. Len(ctx)
           /\ worker.thread \in Threads \cup {NoSession}
           /\ worker.resume \in BOOLEAN /\ worker.outcome \in {"none", "sending", "ended"}
           /\ worker.status \in Statuses
           /\ worker.at \in {"idle", "ending", "writing"} \cup Starting
BY DEF TypeOK

\* The turn of the next command was asked for.
LEMMA NextTurnType ==
    ASSUME TypeOK, TurnsAreAsked, commands # <<>>
    PROVE  Head(commands).turn \in 0 .. Len(turns)
<1>1. Head(commands) = commands[1] /\ 1 \in DOMAIN commands
  BY DEF TypeOK
<1> QED
  BY <1>1 DEF TurnsAreAsked

LEMMA TurnsStay ==
    ASSUME Inv, [Next]_vars
    PROVE  turns' \in Seq(Turn) /\ Len(turns) \in Nat /\ Len(turns) <= Len(turns')
<1>0. TypeOK /\ TurnsAreAsked /\ StartsAreAsked /\ turns \in Seq(Turn) /\ Len(turns) \in Nat
      /\ 0 \in 0 .. Len(turns)
  BY TurnTypes DEF Inv, SessionsInv
<1>1. ASSUME Len(turns') = Len(turns) PROVE Len(turns) <= Len(turns')
  BY <1>0, <1>1
<1>2. CASE TakeTurn \/ TakeMode
  <2>1. Head(commands).turn \in 0 .. Len(turns)
    BY <1>0, <1>2, NextTurnType DEF TakeTurn, TakeMode, Take
  <2>2. turns' = turns \/ TurnIs(Head(commands).turn, "sending") \/ TurnIs(Head(commands).turn, "starting")
    BY <1>2 DEF TakeTurn, TakeMode, EnsureSession
  <2> QED
    BY <1>0, <1>1, <2>1, <2>2, TurnIsType DEF TurnsAt
<1>3. CASE PrepareFails \/ ServerNotSpawned \/ CreateFails
  <2>1. turns' = turns \/ TurnIs(worker.turn, "ended")
    BY <1>3 DEF PrepareFails, ServerNotSpawned, CreateFails, Failed
  <2> QED
    BY <1>0, <1>1, <2>1, TurnIsType, WorkerTypes DEF TurnsAt
<1>4. CASE SessionWritten
  <2>1. worker.turn = 0 \/ worker.outcome \in {"sending", "ended"}
    BY <1>0, <1>4, WorkerTypes DEF SessionWritten, TurnsAreAsked
  <2>2. TurnIs(worker.turn, worker.outcome)
    BY <1>4 DEF SessionWritten
  <2>3. CASE worker.turn = 0
    BY <1>0, <1>1, <2>2, <2>3 DEF TurnIs
  <2>4. CASE worker.outcome \in {"sending", "ended"}
    BY <1>0, <1>1, <2>2, <2>4, TurnIsType, WorkerTypes DEF TurnsAt
  <2> QED
    BY <2>1, <2>3, <2>4
<1>5. CASE TakeStop \/ EndExisting \/ ExistingEnded \/ AcquireServer \/ SpawnServer \/ ServerSpawned
           \/ ResumeMisses \/ SessionStarts \/ StopEnds
  <2>1. turns' = turns
    BY <1>5 DEF TakeStop, EndExisting, ExistingEnded, AcquireServer, SpawnServer, ServerSpawned,
       ResumeMisses, SessionStarts, StopEnds, Ended, Acquired, readModel
  <2> QED
    BY <1>0, <2>1
<1>6. CASE DeleterStep \/ PoolStep \/ Ingest \/ UNCHANGED vars
  <2>1. turns' = turns
    BY <1>6 DEF DeleterStep, PoolStep, Ingest, TakeDeletion, DeletionEnds, Ended, vars, readModel
  <2> QED
    BY <1>0, <2>1
<1>7. ASSUME NEW t \in Threads, Client(t) \/ PumpFails(t) \/ PumpEnds(t)
      PROVE  turns' \in Seq(Turn) /\ Len(turns) <= Len(turns')
  <2>1. CASE RequestTurn(t)
    <3> DEFINE r == [thread |-> t, at |-> "queued", status |-> "none"]
    <3>1. r \in Turn /\ turns' = Append(turns, r)
      BY <2>1 DEF RequestTurn, Turn, Statuses
    <3> HIDE DEF r
    <3> QED
      BY <1>0, <3>1
  <2>2. CASE RequestStop(t) \/ SetMode(t) \/ Delete(t) \/ PumpFails(t) \/ PumpEnds(t)
    <3>1. turns' = turns
      BY <2>2 DEF RequestStop, SetMode, Delete, PumpFails, PumpEnds, ExitBegins, readModel
    <3> QED
      BY <1>0, <3>1
  <2> QED
    BY <1>7, <2>1, <2>2 DEF Client
<1>8. ASSUME NEW n \in DOMAIN turns, SendTurn(n)
      PROVE  turns' \in Seq(Turn) /\ Len(turns) <= Len(turns')
  <2>0. n \in 1 .. Len(turns) /\ turns[n] \in Turn
    BY <1>0
  <2>1. \A m \in DOMAIN turns : thread[turns[m].thread].status \in Statuses
    BY <1>0, TurnTypes DEF TypeOK
  <2>2. \E r \in Turn : turns' = [turns EXCEPT ![n] = r]
    <3>1. CASE TurnSent(n)
      <4>1. TurnIs(n, "ended") /\ n # 0
        BY <3>1, <2>0 DEF TurnSent
      <4>2. turns' = [turns EXCEPT ![n] = [turns[n] EXCEPT !.at = "ended"]]
        BY <4>1 DEF TurnIs
      <4>3. [turns[n] EXCEPT !.at = "ended"] \in Turn
        BY <2>0 DEF Turn
      <4> QED
        BY <4>2, <4>3
    <3>2. CASE SendFails(n)
      <4> DEFINE st == thread[turns[n].thread].status
                 at == IF st = "none" THEN "ended" ELSE "failing"
      <4>1. turns' = [turns EXCEPT ![n] = [turns[n] EXCEPT !.at = at, !.status = st]]
        BY <3>2 DEF SendFails
      <4>2. st \in Statuses /\ at \in TurnsAt
        BY <2>1 DEF TurnsAt
      <4> HIDE DEF st, at
      <4>3. [turns[n] EXCEPT !.at = at, !.status = st] \in Turn
        BY <2>0, <4>2 DEF Turn, TurnsAt
      <4> QED
        BY <4>1, <4>3
    <3>3. CASE SendFailureWritten(n)
      <4>1. turns' = [turns EXCEPT ![n] = [turns[n] EXCEPT !.at = "ended", !.status = "none"]]
        BY <3>3 DEF SendFailureWritten
      <4>2. [turns[n] EXCEPT !.at = "ended", !.status = "none"] \in Turn
        BY <2>0 DEF Turn, Statuses
      <4> QED
        BY <4>1, <4>2
    <3> QED
      BY <1>8, <3>1, <3>2, <3>3 DEF SendTurn
  <2>3. PICK r \in Turn : turns' = [turns EXCEPT ![n] = r]
    BY <2>2
  <2>4. turns' \in Seq(Turn) /\ Len(turns') = Len(turns)
    BY <1>0, <2>0, <2>3
  <2> QED
    BY <1>1, <2>4
<1>9. CASE (\E s \in Sessions : CrashCallback(s)) \/ (\E x \in exits : ExitHandled(x))
  <2>1. turns' = turns
    BY <1>9 DEF CrashCallback, ExitBegins, ExitHandled, readModel
  <2> QED
    BY <1>0, <2>1
<1> QED
  BY <1>0, <1>2, <1>3, <1>4, <1>5, <1>6, <1>7, <1>8, <1>9 DEF Next, WorkerStep, TakeCommand, StartSession

-----------------------------------------------------------------------------
(* Who moves what *)

\* What clients and queues do in a step.
LEMMA RequestsChange ==
    ASSUME Inv, [Next]_vars
    PROVE  \/ UNCHANGED <<requests, commands>>
           \/ \E t \in Threads, kind \in {"turn", "stop", "mode"}, n \in {0, Len(turns) + 1} :
                Request(kind, t, n) /\ Len(turns') >= n
           \/ \E t \in Threads : Delete(t)
           \/ \E kind \in {"turn", "stop", "mode"} : Take(kind) /\ TakeCommand
<1>1. CASE WorkerStep
  <2>1. CASE TakeCommand
    BY <2>1 DEF TakeCommand, TakeTurn, TakeMode, TakeStop
  <2>2. CASE StartSession
    BY <2>2 DEF StartSession, EndExisting, ExistingEnded, PrepareFails, AcquireServer, SpawnServer,
       ServerSpawned, ServerNotSpawned, ResumeMisses, CreateFails, SessionStarts, StartStep, clients
  <2>3. CASE StopEnds \/ SessionWritten
    BY <2>3 DEF StopEnds, SessionWritten, Ended, StartStep, clients
  <2> QED
    BY <1>1, <2>1, <2>2, <2>3 DEF WorkerStep
<1>2. CASE DeleterStep \/ PoolStep \/ Ingest \/ UNCHANGED vars
  BY <1>2 DEF DeleterStep, PoolStep, Ingest, TakeDeletion, DeletionEnds, Ended, vars, clients
<1>3. ASSUME NEW t \in Threads, RequestTurn(t)
      PROVE  Request("turn", t, Len(turns) + 1) /\ Len(turns') >= Len(turns) + 1
  <2>1. Len(turns') = Len(turns) + 1 /\ Len(turns) \in Nat
    BY <1>3, TurnTypes DEF RequestTurn, Inv, SessionsInv
  <2> QED
    BY <1>3, <2>1 DEF RequestTurn
<1>4. ASSUME NEW t \in Threads, RequestStop(t) \/ SetMode(t)
      PROVE  \E kind \in {"turn", "stop", "mode"} : Request(kind, t, 0) /\ Len(turns') >= 0
  <2>1. turns' = turns /\ Len(turns) \in Nat
    BY <1>4, TurnTypes DEF RequestStop, SetMode, Inv, SessionsInv, readModel
  <2> QED
    BY <1>4, <2>1 DEF RequestStop, SetMode
<1>5. ASSUME NEW t \in Threads, PumpFails(t) \/ PumpEnds(t)
      PROVE  UNCHANGED <<requests, commands>>
  BY <1>5 DEF PumpFails, PumpEnds, ExitBegins, clients
<1>6. ASSUME NEW n \in DOMAIN turns, SendTurn(n) PROVE UNCHANGED <<requests, commands>>
  BY <1>6 DEF SendTurn, TurnSent, SendFails, SendFailureWritten, SendStep, clients
<1>7. CASE (\E s \in Sessions : CrashCallback(s)) \/ (\E x \in exits : ExitHandled(x))
  BY <1>7 DEF CrashCallback, ExitBegins, ExitHandled, clients
<1> QED
  BY <1>1, <1>2, <1>3, <1>4, <1>5, <1>6, <1>7 DEF Next, Client

\* Only its own steps change what the worker does.
LEMMA WorkerMoves ==
    ASSUME Inv, [Next]_vars
    PROVE  worker' = worker \/ WorkerStep
<1>1. CASE DeleterStep \/ PoolStep \/ Ingest \/ UNCHANGED vars
  BY <1>1 DEF DeleterStep, PoolStep, Ingest, TakeDeletion, DeletionEnds, Ended, vars
<1>2. ASSUME NEW t \in Threads, Client(t) \/ PumpFails(t) \/ PumpEnds(t) PROVE worker' = worker
  BY <1>2 DEF Client, RequestTurn, RequestStop, SetMode, Delete, Request, PumpFails, PumpEnds, ExitBegins
<1>3. ASSUME NEW n \in DOMAIN turns, SendTurn(n) PROVE worker' = worker
  BY <1>3 DEF SendTurn, TurnSent, SendFails, SendFailureWritten, SendStep
<1>4. CASE (\E s \in Sessions : CrashCallback(s)) \/ (\E x \in exits : ExitHandled(x))
  BY <1>4 DEF CrashCallback, ExitBegins, ExitHandled
<1> QED
  BY <1>1, <1>2, <1>3, <1>4 DEF Next

\* Where a step of the worker leads, but for the taking of a command.
LEMMA WorkerGoes ==
    ASSUME Inv, WorkerStep, ~TakeCommand
    PROVE  /\ worker.at # "idle"
           /\ worker' \in Doing(Len(turns), Len(ctx'))
           /\ worker'.at = "idle" => worker' = Idle
           /\ worker'.at # "idle" => worker'.thread = worker.thread
           /\ worker'.at # "ending"
           /\ worker'.at = "writing" => worker'.turn = 0 \/ worker'.outcome # "none"
           /\ Pending' <= Pending
<1>0. /\ TypeOK /\ worker \in Doing(Len(turns), Len(ctx)) /\ Len(ctx) \in Nat /\ Len(turns) \in Nat
      /\ StartsAreAsked /\ PoolInv
  BY Shapes, TurnTypes DEF Inv, SessionsInv, TypeOK, Doing
<1>1. Len(ctx') \in Nat /\ Len(ctx) <= Len(ctx') /\ [Next]_vars
  BY ContextsStay DEF Next
<1>2. worker \in Doing(Len(turns), Len(ctx'))
  BY <1>0, <1>1 DEF Doing
<1>3. ASSUME NEW st \in Statuses, worker' = [worker EXCEPT !.at = "writing", !.outcome = "ended", !.status = st]
      PROVE  /\ worker' \in Doing(Len(turns), Len(ctx')) /\ worker'.at = "writing"
             /\ worker'.thread = worker.thread /\ worker'.outcome = "ended"
  BY <1>2, <1>3 DEF Doing
<1>4. /\ Idle \in Doing(Len(turns), Len(ctx')) /\ Idle.at = "idle"
      /\ Pending \in {0, 1}
  BY <1>0, <1>1, SessionsAssumption DEF Idle, Doing, Statuses, Pending
<1> DEFINE Goes == /\ worker.at # "idle"
                   /\ worker' \in Doing(Len(turns), Len(ctx'))
                   /\ worker'.at = "idle" => worker' = Idle
                   /\ worker'.at # "idle" => worker'.thread = worker.thread
                   /\ worker'.at # "ending"
                   /\ worker'.at = "writing" => worker'.turn = 0 \/ worker'.outcome # "none"
                   /\ worker'.at \in {"preparing", "stopping"} => worker.at \in {"preparing", "stopping"}
<1>5. ASSUME Failed, worker.at # "idle" PROVE Goes
  <2>1. worker' = Idle
        \/ \E st \in Statuses : worker' = [worker EXCEPT !.at = "writing", !.outcome = "ended", !.status = st]
    <3>1. thread[worker.thread].status \in Statuses
      BY <1>5 DEF Inv, SessionsInv, TypeOK, WorkerKnowsItsSession
    <3> QED
      BY <1>5, <3>1 DEF Failed
  <2>2. CASE worker' = Idle
    BY <1>4, <1>5, <2>2
  <2>3. CASE \E st \in Statuses : worker' = [worker EXCEPT !.at = "writing", !.outcome = "ended", !.status = st]
    <3>1. /\ worker' \in Doing(Len(turns), Len(ctx')) /\ worker'.at = "writing"
          /\ worker'.thread = worker.thread /\ worker'.outcome = "ended"
      BY <1>3, <2>3
    <3> QED
      BY <1>5, <3>1
  <2> QED
    BY <2>1, <2>2, <2>3
<1>6. ASSUME EndExisting \/ ExistingEnded PROVE Goes
  <2>0. worker.at \in {"preparing", "stopping"} /\ worker.thread \in Threads
    BY <1>6 DEF EndExisting, ExistingEnded, Inv, SessionsInv, WorkerKnowsItsSession
  <2>1. CASE NewStart
    <3>1. Len(ctx') = Len(ctx) + 1
      BY <1>0, <2>0, <2>1, Begins
    <3>2. worker' = [worker EXCEPT !.at = "acquiring", !.session = Len(ctx) + 1]
      BY <2>1 DEF NewStart
    <3>3. Len(ctx) + 1 \in 0 .. Len(ctx')
      BY <1>0, <3>1
    <3> QED
      BY <1>2, <2>0, <3>2, <3>3 DEF Doing, Starting
  <2>2. CASE worker' = [worker EXCEPT !.at = "stopping", !.session = sessions[worker.thread]]
    <3> DEFINE c == sessions[worker.thread]
    <3>1. c \in 0 .. Len(ctx')
      BY <1>0, <1>1, <2>0 DEF TypeOK
    <3>2. worker' = [worker EXCEPT !.at = "stopping", !.session = c]
      BY <2>2
    <3> HIDE DEF c
    <3> QED
      BY <1>2, <2>0, <3>1, <3>2 DEF Doing, Starting
  <2> QED
    BY <1>6, <2>1, <2>2 DEF EndExisting, ExistingEnded
<1>7. ASSUME AcquireServer \/ ServerSpawned PROVE Goes
  <2>1. worker' = [worker EXCEPT !.at = "creating"] /\ worker.at = "acquiring"
    BY <1>7 DEF AcquireServer, ServerSpawned, Acquired
  <2> QED
    BY <1>2, <2>1 DEF Doing, Starting
<1>8. ASSUME SpawnServer PROVE Goes
  <2>1. worker' = worker /\ worker.at = "acquiring"
    BY <1>8 DEF SpawnServer
  <2> QED
    BY <1>2, <2>1
<1>9. ASSUME ServerNotSpawned PROVE Goes
  <2>1. worker' = [worker EXCEPT !.resume = FALSE] \/ Failed
    BY <1>9 DEF ServerNotSpawned
  <2>2. worker.at = "acquiring"
    BY <1>9 DEF ServerNotSpawned
  <2>3. CASE worker' = [worker EXCEPT !.resume = FALSE]
    BY <1>2, <2>2, <2>3 DEF Doing
  <2> QED
    BY <1>5, <2>1, <2>2, <2>3
<1>10. ASSUME PrepareFails \/ CreateFails PROVE Goes
  BY <1>5, <1>10 DEF PrepareFails, CreateFails
<1>11. ASSUME ResumeMisses PROVE Goes
  <2>1. worker' = [worker EXCEPT !.at = "acquiring", !.resume = FALSE] /\ worker.at = "creating"
    BY <1>11 DEF ResumeMisses
  <2> QED
    BY <1>2, <2>1 DEF Doing, Starting
<1>12. ASSUME SessionStarts PROVE Goes
  <2>1. worker' = [worker EXCEPT !.at = "writing", !.outcome = "sending"] /\ worker.at = "creating"
    BY <1>12 DEF SessionStarts
  <2> QED
    BY <1>2, <2>1 DEF Doing
<1>13. ASSUME StopEnds PROVE Goes
  <2>1. worker' = [worker EXCEPT !.at = "writing", !.session = NoSession] /\ worker.at = "ending"
    BY <1>13 DEF StopEnds
  <2>2. worker.turn = 0 /\ NoSession = 0
    BY <2>1, SessionsAssumption DEF Inv, SessionsInv, TurnsAreAsked
  <2>3. worker' = [worker EXCEPT !.at = "writing", !.session = 0] /\ 0 \in 0 .. Len(ctx')
    BY <1>1, <2>1, <2>2
  <2>4. worker' \in Doing(Len(turns), Len(ctx'))
    BY <1>2, <2>3 DEF Doing
  <2>5. worker'.at = "writing" /\ worker'.turn = 0 /\ worker'.thread = worker.thread
    BY <1>2, <2>2, <2>3 DEF Doing
  <2> QED
    BY <2>1, <2>4, <2>5
<1>14. ASSUME SessionWritten PROVE Goes
  BY <1>4, <1>14 DEF SessionWritten
<1>15. Goes
  BY <1>6, <1>7, <1>8, <1>9, <1>10, <1>11, <1>12, <1>13, <1>14 DEF WorkerStep, StartSession
<1> QED
  BY <1>4, <1>15 DEF Pending

LEMMA WorkerTakes ==
    ASSUME Inv, TakeCommand
    PROVE  /\ worker = Idle /\ commands # <<>> /\ commands' = Tail(commands) /\ requests' = requests
           /\ worker' \in Doing(Len(turns), Len(ctx'))
           /\ worker'.at \in {"idle", "preparing", "ending", "writing"}
           /\ worker'.at = "idle" => worker' = Idle
           /\ worker'.at # "idle" => worker'.thread = Head(commands).thread
           /\ worker'.at \in {"ending", "writing"} => worker'.turn = 0
<1>0. /\ TypeOK /\ StartsAreAsked /\ TurnsAreAsked
      /\ \A t \in Threads : sessions[t] \in 0 .. Len(ctx)
      /\ Len(ctx) \in Nat /\ Len(turns) \in Nat
  BY Shapes, TurnTypes DEF Inv, SessionsInv, TypeOK
<1>1. Len(ctx') \in Nat /\ Len(ctx) <= Len(ctx')
  BY ContextsStay DEF Next, WorkerStep
<1>2. worker = Idle /\ commands # <<>> /\ commands' = Tail(commands) /\ requests' = requests
  BY <1>0 DEF TakeCommand, TakeTurn, TakeMode, TakeStop, Take, TypeOK
<1>3. Head(commands).thread \in Threads /\ Head(commands).turn \in 0 .. Len(turns)
  BY <1>0, <1>2, QueueHeads, NextTurnType
<1>4. Idle \in Doing(Len(turns), Len(ctx')) /\ Idle.at = "idle" /\ Idle.turn = 0
  BY <1>0, <1>1, SessionsAssumption DEF Idle, Doing, Statuses
<1> DEFINE Goes == /\ worker' \in Doing(Len(turns), Len(ctx'))
                   /\ worker'.at \in {"idle", "preparing", "ending", "writing"}
                   /\ worker'.at = "idle" => worker' = Idle
                   /\ worker'.at # "idle" => worker'.thread = Head(commands).thread
                   /\ worker'.at \in {"ending", "writing"} => worker'.turn = 0
<1>5. ASSUME worker' = worker PROVE Goes
  BY <1>2, <1>4, <1>5
<1>6. ASSUME TakeTurn \/ TakeMode PROVE Goes
  <2>1. worker' = worker
        \/ \E found \in BOOLEAN : worker' = [Idle EXCEPT !.at = "preparing", !.turn = Head(commands).turn,
              !.thread = Head(commands).thread, !.resume = found, !.status = "open"]
    BY <1>6, Zenon DEF TakeTurn, TakeMode, EnsureSession
  <2>2. ASSUME NEW found \in BOOLEAN,
               worker' = [Idle EXCEPT !.at = "preparing", !.turn = Head(commands).turn,
                    !.thread = Head(commands).thread, !.resume = found, !.status = "open"]
        PROVE  Goes
    BY <1>3, <1>4, <2>2 DEF Doing, Starting, Statuses
  <2> QED
    BY <1>5, <2>1, <2>2
<1>7. ASSUME TakeStop PROVE Goes
  <2> DEFINE t == Head(commands).thread
  <2>1. \/ worker' = worker
        \/ worker' = [[Idle EXCEPT !.thread = t, !.status = "stopped"] EXCEPT !.at = "writing"]
        \/ worker' = [[Idle EXCEPT !.thread = t, !.status = "stopped"]
                         EXCEPT !.at = "ending", !.session = sessions[t]]
    BY <1>7 DEF TakeStop
  <2>2. t \in Threads /\ sessions[t] \in 0 .. Len(ctx')
    BY <1>0, <1>1, <1>3
  <2> HIDE DEF t
  <2>3. ASSUME worker' = [[Idle EXCEPT !.thread = t, !.status = "stopped"] EXCEPT !.at = "writing"]
        PROVE  Goes
    BY <1>4, <2>2, <2>3 DEF Doing, Statuses, t
  <2>4. ASSUME worker' = [[Idle EXCEPT !.thread = t, !.status = "stopped"]
                             EXCEPT !.at = "ending", !.session = sessions[t]]
        PROVE  Goes
    BY <1>4, <2>2, <2>4 DEF Doing, Statuses, t
  <2> QED
    BY <1>5, <2>1, <2>3, <2>4
<1>8. Goes
  BY <1>6, <1>7 DEF TakeCommand
<1> QED
  BY <1>2, <1>8

LEMMA WorkerKeepsType ==
    ASSUME Inv, [Next]_vars
    PROVE  /\ worker' \in Doing(Len(turns'), Len(ctx'))
           /\ worker'.at = "idle" => worker' = Idle
           /\ worker'.at # "idle" => worker'.thread \in Threads
           /\ worker'.at = "ending" => worker'.turn = 0
           /\ worker'.at = "writing" => worker'.turn = 0 \/ worker'.outcome # "none"
<1>0. /\ Len(ctx) \in Nat /\ Len(ctx') \in Nat /\ Len(ctx) <= Len(ctx')
      /\ Len(turns) \in Nat /\ Len(turns') \in Nat /\ Len(turns) <= Len(turns')
  BY ContextsStay, TurnsStay
<1>1. worker \in Doing(Len(turns), Len(ctx)) /\ (worker.at = "idle" => worker = Idle) /\ TypeOK
      /\ (worker.at # "idle" => worker.thread \in Threads) /\ TurnsAreAsked
  BY DEF Inv, SessionsInv, TypeOK, Doing, WorkerKnowsItsSession
<1>2. CASE worker' = worker
  <2>1. worker \in Doing(Len(turns'), Len(ctx'))
    BY <1>0, <1>1 DEF Doing
  <2> QED
    BY <1>1, <1>2, <2>1 DEF TurnsAreAsked
<1>3. ASSUME worker' \in Doing(Len(turns), Len(ctx')) PROVE worker' \in Doing(Len(turns'), Len(ctx'))
  BY <1>0, <1>3 DEF Doing
<1>4. CASE TakeCommand
  <2>1. Head(commands).thread \in Threads
    BY <1>1, <1>4, WorkerTakes, QueueHeads
  <2> QED
    BY <1>3, <1>4, <2>1, WorkerTakes
<1>5. CASE WorkerStep /\ ~TakeCommand
  BY <1>1, <1>3, <1>5, WorkerGoes
<1> QED
  BY <1>2, <1>4, <1>5, WorkerMoves

\* The starts are still no more than the requests, and so are the turns.
LEMMA RequestsAreCounted ==
    ASSUME Inv, [Next]_vars
    PROVE  /\ StartsAreAsked' /\ TurnsAreAsked'
           /\ requests' \in 0 .. MaxRequests /\ commands' \in Seq(Command)
<1>0. /\ requests \in Nat /\ requests <= MaxRequests /\ commands \in Seq(Command) /\ MaxRequests \in Nat
      /\ Len(ctx) \in Nat /\ Len(ctx') \in Nat /\ Len(commands) \in Nat /\ Pending \in {0, 1} /\ Pending' \in {0, 1}
      /\ Len(ctx) + Len(commands) + Pending <= requests /\ StartsAreAsked /\ TypeOK
  <2>1. Len(ctx) \in Nat /\ Len(ctx') \in Nat
    BY ContextsStay
  <2>2. Pending \in {0, 1} /\ Pending' \in {0, 1}
    BY DEF Pending
  <2>3. TypeOK /\ StartsAreAsked
    BY DEF Inv, SessionsInv
  <2>4. requests \in 0 .. MaxRequests /\ commands \in Seq(Command) /\ MaxRequests \in Nat
    BY <2>3, SessionsAssumption DEF TypeOK, Command
  <2> QED
    BY <2>1, <2>2, <2>3, <2>4 DEF StartsAreAsked
<1>1. \A i \in DOMAIN commands : commands[i].turn \in 0 .. Len(turns)
  BY DEF Inv, SessionsInv, TurnsAreAsked
<1>2. Len(turns) \in Nat /\ Len(turns') \in Nat /\ Len(turns) <= Len(turns')
  BY TurnsStay
<1>3. \/ Len(ctx') + Pending' <= Len(ctx) + Pending
      \/ TakeCommand /\ Len(ctx') = Len(ctx) /\ Pending = 0
  <2>1. CASE BeginsStart
    <3>1. worker.thread \in Threads
      BY <2>1 DEF BeginsStart, Inv, SessionsInv, WorkerKnowsItsSession
    <3>2. Len(ctx') = Len(ctx) + 1 /\ worker'.at = "acquiring"
      BY <1>0, <2>1, <3>1, Begins DEF BeginsStart
    <3>3. Pending = 1 /\ Pending' = 0
      BY <2>1, <3>2 DEF BeginsStart, Pending
    <3> QED
      BY <1>0, <3>2, <3>3
  <2>2. CASE ~BeginsStart
    <3>1. Len(ctx') = Len(ctx)
      BY <2>2, ContextsStay
    <3>2. worker' = worker => Pending' = Pending
      BY DEF Pending
    <3>3. TakeCommand => Pending = 0
      BY WorkerTakes DEF Pending, Idle
    <3>4. WorkerStep /\ ~TakeCommand => Pending' <= Pending
      BY WorkerGoes
    <3> QED
      BY <1>0, <3>1, <3>2, <3>3, <3>4, WorkerMoves
  <2> QED
    BY <2>1, <2>2
<1>4. ASSUME ~TakeCommand PROVE Len(ctx') + Pending' <= Len(ctx) + Pending
  BY <1>3, <1>4
<1> DEFINE Counted == /\ StartsAreAsked' /\ requests' \in 0 .. MaxRequests /\ commands' \in Seq(Command)
                      /\ \A i \in DOMAIN commands' : commands'[i].turn \in 0 .. Len(turns')
<1>5. ASSUME UNCHANGED <<requests, commands>>, ~TakeCommand PROVE Counted
  <2>1. commands' = commands /\ requests' = requests
    BY <1>5
  <2>2. Len(ctx') + Len(commands') + Pending' <= requests'
    BY <1>0, <1>4, <1>5, <2>1
  <2> QED
    BY <1>0, <1>1, <1>2, <2>1, <2>2 DEF StartsAreAsked
<1>6. ASSUME NEW t \in Threads, NEW kind \in {"turn", "stop", "mode"}, NEW n \in {0, Len(turns) + 1},
             Request(kind, t, n), Len(turns') >= n, ~TakeCommand
      PROVE  Counted
  <2> DEFINE c == [kind |-> kind, thread |-> t, turn |-> n]
  <2>1. requests' = requests + 1 /\ requests < MaxRequests /\ commands' = Append(commands, c)
    BY <1>6 DEF Request, Asked
  <2>2. c \in Command /\ c.turn \in 0 .. Len(turns')
    BY <1>2, <1>6 DEF Command
  <2> HIDE DEF c
  <2>3. commands' \in Seq(Command) /\ Len(commands') = Len(commands) + 1
        /\ \A i \in DOMAIN commands' : (i \in DOMAIN commands /\ commands'[i] = commands[i]) \/ commands'[i] = c
    BY <1>0, <2>1, <2>2
  <2>4. Len(ctx') + Len(commands') + Pending' <= requests'
    BY <1>0, <1>4, <1>6, <2>1, <2>3
  <2>5. requests' \in 0 .. MaxRequests
    BY <1>0, <2>1
  <2>6. \A i \in DOMAIN commands' : commands'[i].turn \in 0 .. Len(turns')
    BY <1>1, <1>2, <2>2, <2>3
  <2> QED
    BY <2>3, <2>4, <2>5, <2>6 DEF StartsAreAsked
<1>7. ASSUME NEW t \in Threads, Delete(t), ~TakeCommand PROVE Counted
  <2>1. commands' = commands /\ requests' = requests + 1 /\ requests < MaxRequests
    BY <1>7 DEF Delete, Asked
  <2>2. Len(ctx') + Len(commands') + Pending' <= requests'
    BY <1>0, <1>4, <1>7, <2>1
  <2> QED
    BY <1>0, <1>1, <1>2, <2>1, <2>2 DEF StartsAreAsked
<1>8. ASSUME TakeCommand PROVE Counted
  <2>1. commands # <<>> /\ commands' = Tail(commands) /\ requests' = requests
    BY <1>8, WorkerTakes
  <2>2. commands' \in Seq(Command) /\ Len(commands') = Len(commands) - 1
        /\ \A i \in DOMAIN commands' : i + 1 \in DOMAIN commands /\ commands'[i] = commands[i + 1]
    BY <1>0, <2>1
  <2>3. Len(ctx') + Pending' <= Len(ctx) + Pending + 1
    BY <1>0, <1>3
  <2>4. Len(ctx') + Len(commands') + Pending' <= requests'
    BY <1>0, <2>1, <2>2, <2>3
  <2> QED
    BY <1>0, <1>1, <1>2, <2>1, <2>2, <2>4 DEF StartsAreAsked
<1>9. Counted
  BY <1>5, <1>6, <1>7, <1>8, RequestsChange
<1> QED
  BY <1>9, WorkerKeepsType DEF TurnsAreAsked

\* The step that begins the unexpected end of thread t's session.
LosesSession(t) ==
    /\ IsLive(t)
    /\ \E callback \in Sessions \cup {NoSession} : ExitBegins(sessions[t], callback)

\* Everyone but clients, senders and ingestion, who move no session.
LEMMA WhoMovesSessions ==
    ASSUME Inv, [Next]_vars
    PROVE  \/ UNCHANGED <<poolVars, worker, deleter, adapter, raced>>
           \/ PoolStep \/ TakeCommand \/ StartSession \/ SessionWritten \/ StopEnds
           \/ TakeDeletion \/ DeletionEnds
           \/ \E s \in Sessions : /\ CallbackEnds(s) /\ UNCHANGED <<entry, server, sweep>>
                                  /\ UNCHANGED <<readModel, clients, worker, deleter, adapter, reports>>
           \/ \E t \in Threads : LosesSession(t)
           \/ \E x \in exits : ExitHandled(x)
<1>1. CASE Ingest \/ UNCHANGED vars
  BY <1>1 DEF Ingest, vars, clients
<1>2. ASSUME NEW t \in Threads, Client(t) PROVE UNCHANGED <<poolVars, worker, deleter, adapter, raced>>
  BY <1>2 DEF Client, RequestTurn, RequestStop, SetMode, Delete, Request
<1>3. ASSUME NEW t \in Threads, PumpFails(t) \/ PumpEnds(t)
      PROVE  LosesSession(t) \/ UNCHANGED <<poolVars, worker, deleter, adapter, raced>>
  BY <1>3 DEF PumpFails, PumpEnds, LosesSession, clients
<1>4. ASSUME NEW n \in DOMAIN turns, SendTurn(n) PROVE UNCHANGED <<poolVars, worker, deleter, adapter, raced>>
  BY <1>4 DEF SendTurn, TurnSent, SendFails, SendFailureWritten, SendStep, clients
<1>5. ASSUME NEW s \in Sessions, CrashCallback(s)
      PROVE  \/ \E t \in Threads : LosesSession(t)
             \/ /\ CallbackEnds(s) /\ UNCHANGED <<entry, server, sweep>>
                /\ UNCHANGED <<readModel, clients, worker, deleter, adapter, reports>>
  <2>1. s \in DOMAIN ctx /\ ctx[s].thread \in Threads
    BY <1>5, Shapes DEF CrashCallback, Inv, SessionsInv, LeasesAreOfStarts, Context
  <2> QED
    BY <1>5, <2>1 DEF CrashCallback, LosesSession
<1> QED
  BY <1>1, <1>2, <1>3, <1>4, <1>5 DEF Next, WorkerStep, DeleterStep

\* The sessions of an adapter's map, of a stop and of an exit were started.
LEMMA SessionTypes ==
    ASSUME Inv
    PROVE  /\ \A t \in Threads : sessions[t] # NoSession => /\ sessions[t] \in DOMAIN ctx
                                                          /\ ctx[sessions[t]].thread = t
           /\ \A s \in DOMAIN ctx : ctx[s].thread \in Threads
           /\ deleter # NoSession => deleter \in DOMAIN ctx
           /\ worker.session # NoSession => worker.session \in DOMAIN ctx
           /\ worker.at # "idle" => worker.thread \in Threads
           /\ NoSession = 0 /\ NoSession \notin DOMAIN ctx /\ DOMAIN ctx \subseteq Sessions
           /\ sessions \in [Threads -> 0 .. Len(ctx)]
<1>1. TypeOK /\ StartsAreAsked /\ SessionsAreTheirThreads /\ WorkerKnowsItsSession
  BY DEF Inv, SessionsInv
<1>2. /\ ctx \in Seq(Context) /\ DOMAIN ctx = 1 .. Len(ctx) /\ DOMAIN ctx \subseteq Sessions /\ NoSession = 0
      /\ \A s \in DOMAIN ctx : ctx[s] \in Context
      /\ \A t \in Threads : sessions[t] # NoSession => sessions[t] \in DOMAIN ctx
      /\ worker.session # NoSession => worker.session \in DOMAIN ctx
      /\ deleter # NoSession => deleter \in DOMAIN ctx
  BY <1>1, Shapes
<1>3. \A s \in DOMAIN ctx : ctx[s].thread \in Threads
  BY <1>2 DEF Context
<1>4. NoSession \notin DOMAIN ctx
  BY <1>2
<1> QED
  BY <1>1, <1>2, <1>3, <1>4 DEF SessionsAreTheirThreads, WorkerKnowsItsSession, TypeOK

\* How the adapter's map changes.
LEMMA SessionsChange ==
    ASSUME Inv, [Next]_vars
    PROVE  \/ sessions' = sessions
           \/ SessionStarts
           \/ \E t \in Threads : /\ sessions' = [sessions EXCEPT ![t] = NoSession]
                                 /\ \/ BeginsStart /\ t = worker.thread
                                    \/ StopEnds /\ t = ctx[worker.session].thread
                                    \/ DeletionEnds /\ t = ctx[deleter].thread
                                    \/ LosesSession(t)
<1>1. CASE StartSession
  <2>1. CASE EndExisting \/ ExistingEnded
    <3>1. worker.thread \in Threads
      BY <2>1, SessionTypes DEF EndExisting, ExistingEnded
    <3>2. sessions' = sessions \/ (NewStart /\ BeginsStart)
      BY <2>1 DEF EndExisting, ExistingEnded, BeginsStart, StartStep
    <3> QED
      BY <3>1, <3>2 DEF NewStart
  <2>2. CASE PrepareFails \/ AcquireServer \/ SpawnServer \/ ServerSpawned \/ ServerNotSpawned
             \/ ResumeMisses \/ CreateFails
    BY <2>2 DEF PrepareFails, AcquireServer, SpawnServer, ServerSpawned, ServerNotSpawned,
       ResumeMisses, CreateFails, Acquired, adapter
  <2> QED
    BY <1>1, <2>1, <2>2 DEF StartSession
<1>2. CASE StopEnds
  <2>1. worker.session \in DOMAIN ctx /\ ctx[worker.session].thread \in Threads
    BY <1>2, SessionTypes DEF StopEnds, Inv, SessionsInv, WorkerKnowsItsSession
  <2> QED
    BY <1>2, <2>1 DEF StopEnds, Ended
<1>3. CASE DeletionEnds
  <2>1. ctx[deleter].thread \in Threads
    BY <1>3, SessionTypes DEF DeletionEnds
  <2> QED
    BY <1>3, <2>1 DEF DeletionEnds, Ended
<1>4. ASSUME NEW t \in Threads, LosesSession(t)
      PROVE  sessions' = [sessions EXCEPT ![t] = NoSession]
  BY <1>4, SessionTypes DEF LosesSession, ExitBegins, IsLive
<1>5. CASE UNCHANGED <<poolVars, worker, deleter, adapter, raced>> \/ PoolStep \/ TakeCommand
           \/ SessionWritten \/ TakeDeletion \/ \E x \in exits : ExitHandled(x)
  BY <1>5 DEF PoolStep, TakeCommand, TakeTurn, TakeMode, TakeStop, Take, SessionWritten, TakeDeletion, ExitHandled, adapter
<1> QED
  BY <1>1, <1>2, <1>3, <1>4, <1>5, WhoMovesSessions DEF adapter

LEMMA SessionsKeepType ==
    ASSUME Inv, [Next]_vars
    PROVE  sessions' \in [Threads -> 0 .. Len(ctx')]
<1>1. /\ Len(ctx) \in Nat /\ Len(ctx') \in Nat /\ Len(ctx) <= Len(ctx') /\ NoSession = 0
      /\ sessions \in [Threads -> 0 .. Len(ctx)]
  BY ContextsStay, SessionTypes
<1>2. sessions \in [Threads -> 0 .. Len(ctx')] /\ 0 \in 0 .. Len(ctx')
  BY <1>1
<1>3. CASE SessionStarts
  <2>1. /\ worker.thread \in Threads /\ worker.session \in 0 .. Len(ctx)
        /\ sessions' = [sessions EXCEPT ![worker.thread] = worker.session] /\ worker.session \in 0 .. Len(ctx')
    BY <1>1, <1>3, SessionTypes, WorkerTypes DEF SessionStarts, Inv, SessionsInv
  <2> QED
    BY <1>2, <2>1
<1> QED
  BY <1>1, <1>2, <1>3, SessionsChange

LEMMA DeleterKeepsType ==
    ASSUME Inv, [Next]_vars
    PROVE  /\ deleter' \in 0 .. Len(ctx')
           /\ \/ deleter' = deleter
              \/ TakeDeletion /\ CanStop(Head(deletions)) /\ deleter' = sessions[Head(deletions)]
              \/ DeletionEnds /\ deleter' = NoSession
<1>1. /\ Len(ctx) \in Nat /\ Len(ctx') \in Nat /\ Len(ctx) <= Len(ctx') /\ NoSession = 0
      /\ sessions \in [Threads -> 0 .. Len(ctx)] /\ deleter \in 0 .. Len(ctx)
  BY ContextsStay, SessionTypes DEF Inv, SessionsInv, TypeOK
<1>2. CASE TakeDeletion
  <2>1. Head(deletions) \in Threads
    BY <1>2, QueueHeads DEF TakeDeletion, Inv, SessionsInv
  <2>2. sessions[Head(deletions)] \in 0 .. Len(ctx)
    BY <1>1, <2>1
  <2> QED
    BY <1>1, <1>2, <2>2 DEF TakeDeletion
<1>3. CASE DeletionEnds
  BY <1>1, <1>3 DEF DeletionEnds
<1>4. CASE UNCHANGED <<poolVars, worker, deleter, adapter, raced>> \/ PoolStep \/ TakeCommand
           \/ StartSession \/ SessionWritten \/ StopEnds \/ \E x \in exits : ExitHandled(x)
  <2>1. deleter' = deleter
    BY <1>4 DEF PoolStep, TakeCommand, TakeTurn, TakeMode, TakeStop, Take, StopEnds, SessionWritten, ExitHandled, StartSession,
       EndExisting, ExistingEnded, PrepareFails, AcquireServer, SpawnServer, ServerSpawned,
       ServerNotSpawned, ResumeMisses, CreateFails, SessionStarts, StartStep
  <2> QED
    BY <1>1, <2>1
<1>5. ASSUME NEW t \in Threads, LosesSession(t) PROVE deleter' = deleter
  BY <1>5 DEF LosesSession, ExitBegins
<1> QED
  BY <1>1, <1>2, <1>3, <1>4, <1>5, WhoMovesSessions

\* The directory learns of a started session and forgets an ended one.
LEMMA DirectoryChanges ==
    ASSUME Inv, [Next]_vars
    PROVE  \/ directory' = directory
           \/ SessionStarts /\ directory' = directory \cup {worker.thread}
           \/ StopEnds /\ directory' = directory \ {ctx[worker.session].thread}
           \/ DeletionEnds /\ directory' = directory \ {ctx[deleter].thread}
<1>1. CASE UNCHANGED <<poolVars, worker, deleter, adapter, raced>> \/ PoolStep \/ TakeCommand
           \/ StartSession \/ SessionWritten \/ TakeDeletion \/ \E x \in exits : ExitHandled(x)
  BY <1>1 DEF PoolStep, TakeCommand, TakeTurn, TakeMode, TakeStop, Take, SessionWritten, TakeDeletion, ExitHandled, StartSession,
     EndExisting, ExistingEnded, PrepareFails, AcquireServer, SpawnServer, ServerSpawned,
     ServerNotSpawned, ResumeMisses, CreateFails, SessionStarts, Acquired, adapter
<1>2. CASE StopEnds \/ DeletionEnds
  BY <1>2 DEF StopEnds, DeletionEnds, Ended
<1>3. ASSUME NEW t \in Threads, LosesSession(t) PROVE directory' = directory
  BY <1>3 DEF LosesSession, ExitBegins
<1> QED
  BY <1>1, <1>2, <1>3, WhoMovesSessions DEF adapter

\* The exits under way.
LEMMA ExitsChange ==
    ASSUME Inv, [Next]_vars
    PROVE  \/ exits' = exits
           \/ \E x \in exits : ExitHandled(x) /\ exits' = exits \ {x}
           \/ \E t \in Threads : LosesSession(t)
<1>1. CASE UNCHANGED <<poolVars, worker, deleter, adapter, raced>> \/ PoolStep \/ TakeCommand
           \/ StartSession \/ SessionWritten \/ TakeDeletion \/ StopEnds \/ DeletionEnds
  BY <1>1 DEF PoolStep, TakeCommand, TakeTurn, TakeMode, TakeStop, Take, SessionWritten, TakeDeletion, StopEnds, DeletionEnds,
     Ended, StartSession,
     EndExisting, ExistingEnded, PrepareFails, AcquireServer, SpawnServer, ServerSpawned,
     ServerNotSpawned, ResumeMisses, CreateFails, SessionStarts, Acquired, adapter
<1>2. ASSUME NEW x \in exits, ExitHandled(x) PROVE exits' = exits \ {x}
  BY <1>2 DEF ExitHandled
<1> QED
  BY <1>1, <1>2, WhoMovesSessions DEF adapter

LEMMA AdapterKeepsTypes ==
    ASSUME Inv, [Next]_vars
    PROVE  /\ directory' \subseteq Threads
           /\ exits' \subseteq [session : Sessions, callback : Sessions \cup {NoSession}]
<1>0. /\ directory \subseteq Threads
      /\ exits \subseteq [session : Sessions, callback : Sessions \cup {NoSession}]
  BY DEF Inv, SessionsInv, TypeOK
<1>1. directory' \subseteq Threads
  <2>1. SessionStarts => worker.thread \in Threads
    BY SessionTypes DEF SessionStarts
  <2> QED
    BY <1>0, <2>1, DirectoryChanges
<1>2. ASSUME NEW t \in Threads, LosesSession(t)
      PROVE  exits' \subseteq [session : Sessions, callback : Sessions \cup {NoSession}]
  <2>1. PICK callback \in Sessions \cup {NoSession} : ExitBegins(sessions[t], callback)
    BY <1>2 DEF LosesSession
  <2>2. sessions[t] \in Sessions
    BY <1>2, SessionTypes DEF LosesSession, IsLive
  <2>3. exits' = exits \cup {[session |-> sessions[t], callback |-> callback]}
    BY <2>1 DEF ExitBegins
  <2> QED
    BY <1>0, <2>2, <2>3
<1> QED
  BY <1>0, <1>1, <1>2, ExitsChange

\* The queue of the deletion reactor.
LEMMA DeletionsChange ==
    ASSUME Inv, [Next]_vars
    PROVE  \/ deletions' = deletions
           \/ \E t \in Threads : Delete(t) /\ deletions' = Append(deletions, t)
           \/ TakeDeletion /\ deletions' = Tail(deletions)
<1>1. CASE WorkerStep \/ PoolStep \/ Ingest \/ DeletionEnds \/ UNCHANGED vars
  BY <1>1 DEF WorkerStep, PoolStep, Ingest, DeletionEnds, vars, clients, TakeCommand, TakeTurn, TakeMode, TakeStop, Take, StopEnds,
     Ended, SessionWritten, StartSession, StartStep,
     EndExisting, ExistingEnded, PrepareFails, AcquireServer, SpawnServer, ServerSpawned,
     ServerNotSpawned, ResumeMisses, CreateFails, SessionStarts
<1>2. CASE TakeDeletion
  BY <1>2 DEF TakeDeletion
<1>3. ASSUME NEW t \in Threads, Client(t) \/ PumpFails(t) \/ PumpEnds(t)
      PROVE  deletions' = deletions \/ (Delete(t) /\ deletions' = Append(deletions, t))
  BY <1>3 DEF Client, RequestTurn, RequestStop, SetMode, Delete, Request, PumpFails, PumpEnds, ExitBegins, clients
<1>4. ASSUME NEW n \in DOMAIN turns, SendTurn(n) PROVE deletions' = deletions
  BY <1>4 DEF SendTurn, TurnSent, SendFails, SendFailureWritten, SendStep, clients
<1>5. CASE (\E s \in Sessions : CrashCallback(s)) \/ (\E x \in exits : ExitHandled(x))
  BY <1>5 DEF CrashCallback, ExitBegins, ExitHandled, clients
<1> QED
  BY <1>1, <1>2, <1>3, <1>4, <1>5 DEF Next, DeleterStep

\* Reports name threads, and so do deletions.
LEMMA QueuesKeepTypes ==
    ASSUME Inv, [Next]_vars
    PROVE  reports' \in Seq(Report) /\ deletions' \in Seq(Threads)
<1>0. /\ TypeOK /\ reports \in Seq(Report) /\ deletions \in Seq(Threads)
      /\ WorkerKnowsItsSession
  BY DEF Inv, SessionsInv, TypeOK, Report
<1>1. deletions' \in Seq(Threads)
  <2>1. ASSUME NEW t \in Threads PROVE Append(deletions, t) \in Seq(Threads)
    BY <1>0
  <2>2. TakeDeletion => Tail(deletions) \in Seq(Threads)
    BY <1>0, QueueHeads DEF TakeDeletion
  <2> QED
    BY <1>0, <2>1, <2>2, DeletionsChange
<1>2. \A t \in Threads : Opened(t) \in Report /\ Exited(t) \in Report
  BY DEF Opened, Exited, Report, Statuses
<1>3. CASE SessionStarts
  <2>1. worker.thread \in Threads
    BY <1>3, SessionTypes DEF SessionStarts
  <2> QED
    BY <1>0, <1>1, <1>2, <1>3, <2>1 DEF SessionStarts
<1>4. ASSUME NEW c \in DOMAIN ctx, Ended(c) PROVE reports' \in Seq(Report)
  <2>1. ctx[c].thread \in Threads
    BY SessionTypes
  <2>2. Exited(ctx[c].thread) \in Report /\ reports' = Append(reports, Exited(ctx[c].thread))
    BY <1>2, <1>4, <2>1 DEF Ended
  <2> QED
    BY <1>0, <2>2
<1>5. CASE StopEnds \/ DeletionEnds
  BY <1>1, <1>4, <1>5, SessionTypes DEF StopEnds, DeletionEnds, WorkerKnowsItsSession, Inv, SessionsInv
<1>6. CASE Ingest
  BY <1>0, <1>1, <1>6, QueueHeads DEF Ingest
<1>7. ASSUME NEW t \in Threads, LosesSession(t) PROVE reports' \in Seq(Report)
  <2>1. ctx[sessions[t]].thread = t
    BY <1>7, SessionTypes DEF LosesSession, IsLive
  <2>2. reports' = reports \o <<Opened(t), Exited(t)>>
    BY <1>7, <2>1 DEF LosesSession, ExitBegins
  <2>3. <<Opened(t), Exited(t)>> \in Seq(Report)
    BY <1>2
  <2> QED
    BY <1>0, <2>2, <2>3
<1>8. ASSUME PoolStep \/ TakeCommand \/ SessionWritten \/ TakeDeletion PROVE reports' = reports
  BY <1>8 DEF PoolStep, TakeCommand, TakeTurn, TakeMode, TakeStop, Take, SessionWritten, TakeDeletion
<1>9. ASSUME StartSession PROVE reports' = reports \/ SessionStarts
  BY <1>9 DEF StartSession, EndExisting, ExistingEnded, PrepareFails, AcquireServer, SpawnServer, ServerSpawned,
     ServerNotSpawned, ResumeMisses, CreateFails, Acquired
<1>10. ASSUME NEW t \in Threads, Client(t) PROVE reports' = reports
  BY <1>10 DEF Client, RequestTurn, RequestStop, SetMode, Delete, Request
<1>11. ASSUME NEW n \in DOMAIN turns, SendTurn(n) PROVE reports' = reports
  BY <1>11 DEF SendTurn, TurnSent, SendFails, SendFailureWritten, SendStep
<1>12. ASSUME NEW t \in Threads, PumpFails(t) \/ PumpEnds(t)
       PROVE  LosesSession(t) \/ reports' = reports
  BY <1>12 DEF PumpFails, PumpEnds, LosesSession
<1>13. ASSUME NEW s \in Sessions, CrashCallback(s)
       PROVE  reports' = reports \/ \E t \in Threads : LosesSession(t)
  <2>1. s \in DOMAIN ctx /\ ctx[s].thread \in Threads
    BY <1>13, Shapes DEF CrashCallback, Inv, SessionsInv, LeasesAreOfStarts, Context
  <2> QED
    BY <1>13, <2>1 DEF CrashCallback, LosesSession
<1>14. ASSUME (\E x \in exits : ExitHandled(x)) \/ UNCHANGED vars PROVE reports' = reports
  BY <1>14 DEF ExitHandled, vars
<1>15. reports' \in Seq(Report)
  BY <1>0, <1>3, <1>5, <1>6, <1>7, <1>8, <1>9, <1>10, <1>11, <1>12, <1>13, <1>14
     DEF Next, WorkerStep, DeleterStep
<1> QED
  BY <1>1, <1>15

\* A pump that has ended served a session of some thread.
LEMMA QuietType ==
    ASSUME Inv, [Next]_vars
    PROVE  quiet' \subseteq Threads
<1>0. quiet \subseteq Threads
  BY DEF Inv, SessionsInv, TypeOK
<1>1. CASE PoolStep \/ Ingest \/ SessionWritten \/ TakeCommand \/ UNCHANGED vars
  BY <1>0, <1>1 DEF PoolStep, Ingest, SessionWritten, TakeCommand, TakeTurn, TakeMode, TakeStop, Take, vars
<1>2. CASE StartSession
  BY <1>0, <1>2 DEF StartSession, EndExisting, ExistingEnded, PrepareFails, AcquireServer, SpawnServer,
     ServerSpawned, ServerNotSpawned, ResumeMisses, CreateFails, SessionStarts, NewStart, Acquired
<1>3. CASE StopEnds \/ DeleterStep
  BY <1>0, <1>3 DEF StopEnds, DeleterStep, TakeDeletion, DeletionEnds, Ended
<1>4. ASSUME NEW t \in Threads, Client(t) \/ PumpFails(t) \/ PumpEnds(t) PROVE quiet' \subseteq Threads
  BY <1>0, <1>4 DEF Client, RequestTurn, RequestStop, SetMode, Delete, Request, PumpFails, PumpEnds, ExitBegins
<1>5. ASSUME NEW n \in DOMAIN turns, SendTurn(n) PROVE quiet' \subseteq Threads
  BY <1>0, <1>5 DEF SendTurn, TurnSent, SendFails, SendFailureWritten, SendStep
<1>6. CASE (\E s \in Sessions : CrashCallback(s)) \/ (\E x \in exits : ExitHandled(x))
  BY <1>0, <1>6 DEF CrashCallback, ExitBegins, ExitHandled
<1> QED
  BY <1>1, <1>2, <1>3, <1>4, <1>5, <1>6 DEF Next, WorkerStep

LEMMA TypesStay ==
    ASSUME Inv, [Next]_vars
    PROVE  TypeOK'
<1>1. PoolTypeOK'
  BY CallersUsePool, PoolInvNext DEF Inv, PoolInv
<1>2. /\ ctx' \in Seq([thread : Threads, gen : 0 .. Len(server'), stopped : BOOLEAN])
      /\ turns' \in Seq([thread : Threads, status : Statuses,
                         at : {"queued", "starting", "sending", "failing", "ended"}])
      /\ commands' \in Seq([kind : {"turn", "stop", "mode"}, thread : Threads, turn : Nat])
      /\ reports' \in Seq([thread : Threads, status : Statuses])
      /\ deletions' \in Seq(Threads)
  BY ContextsStay, TurnsStay, RequestsAreCounted, QueuesKeepTypes DEF Context, Turn, Command, Report
<1>3. /\ worker' \in [at : {"idle", "ending", "writing"} \cup Starting, turn : 0 .. Len(turns'),
                      thread : Threads \cup {NoSession}, session : 0 .. Len(ctx'),
                      resume : BOOLEAN, outcome : {"none", "sending", "ended"}, status : Statuses]
      /\ worker'.at = "idle" => worker' = Idle
  BY WorkerKeepsType DEF Doing
<1>4. /\ thread' \in [Threads -> [deleted : BOOLEAN, status : Statuses]]
      /\ raced' \subseteq {t \in Threads : thread'[t].deleted}
      /\ requests' \in 0 .. MaxRequests
      /\ deleter' \in 0 .. Len(ctx')
      /\ sessions' \in [Threads -> 0 .. Len(ctx')]
      /\ directory' \subseteq Threads
      /\ exits' \subseteq [session : Sessions, callback : Sessions \cup {NoSession}]
      /\ quiet' \subseteq Threads
  BY QuietType, ThreadsStay, RacedType, RequestsAreCounted, DeleterKeepsType, SessionsKeepType, AdapterKeepsTypes
<1> QED
  BY <1>1, <1>2, <1>3, <1>4 DEF TypeOK

-----------------------------------------------------------------------------
(* How the composition moves the pool *)

\* Who gives session s's lease back.
GivesBack(s) ==
    \/ s = worker.session /\ (ExistingEnded \/ ResumeMisses \/ CreateFails \/ StopEnds)
    \/ s = deleter /\ DeletionEnds
    \/ \E x \in exits : x.session = s /\ x.callback = NoSession /\ ExitHandled(x)

\* The pooled server is torn down, dead or unused.
Evicts == /\ entry \in Generations /\ TearDown(entry)
          /\ ~server[entry].alive \/ IsIdle(entry)
          /\ PoolStep

LEMMA PoolMoves ==
    ASSUME Inv, [Next]_vars
    PROVE  \/ UNCHANGED <<entry, server, mutex>>
           \/ GetsServer
           \/ SpawnServer /\ Spawn(worker.session)
           \/ ServerNotSpawned /\ SpawnFails(worker.session)
           \/ \E s \in DOMAIN ctx : GivesBack(s) /\ Released(s) /\ entry' = entry /\ mutex' = mutex
           \/ \E s : CallbackEnds(s) /\ entry' = entry /\ server' = server
           \/ Evicts
           \/ PoolStep /\ (TornDown \/ \E g \in Generations : ServerExits(g))
<1>1. CASE PoolStep
  <2>1. CASE \E g \in Generations : CrashNoticed(g)
    <3>1. entry \in Generations /\ TearDown(entry) /\ ~server[entry].alive
      BY <2>1 DEF CrashNoticed
    <3> QED
      BY <1>1, <3>1 DEF Evicts
  <2>2. CASE \E w \in Sweepers : SweepEvicts(w)
    <3>1. entry # 0 /\ TearDown(entry) /\ IsIdle(entry)
      BY <2>2 DEF SweepEvicts
    <3>2. entry \in Generations
      BY <3>1, EntryType DEF Inv, PoolInv
    <3> QED
      BY <1>1, <3>1, <3>2 DEF Evicts
  <2>3. CASE \E w \in Sweepers : SweepBegins(w) \/ SweepRetains(w)
    BY <2>3 DEF SweepBegins, SweepRetains
  <2> QED
    BY <1>1, <2>1, <2>2, <2>3 DEF PoolStep, Sweep
<1>2. CASE StartSession
  <2>1. CASE EndExisting \/ PrepareFails \/ SessionStarts
    BY <2>1 DEF EndExisting, PrepareFails, SessionStarts, poolVars
  <2>2. CASE AcquireServer \/ ServerSpawned
    BY <2>2 DEF AcquireServer, ServerSpawned, GetsServer
  <2>3. CASE SpawnServer \/ ServerNotSpawned
    BY <2>3 DEF SpawnServer, ServerNotSpawned
  <2>4. CASE ExistingEnded \/ ResumeMisses \/ CreateFails
    <3>1. worker.session \in DOMAIN ctx
      BY <2>4, SessionTypes DEF ExistingEnded, ResumeMisses, CreateFails, Inv, SessionsInv, WorkerKnowsItsSession
    <3>2. Release(worker.session) /\ GivesBack(worker.session)
      BY <2>4 DEF ExistingEnded, ResumeMisses, CreateFails, GivesBack
    <3> QED
      BY <3>1, <3>2 DEF Release
  <2> QED
    BY <1>2, <2>1, <2>2, <2>3, <2>4 DEF StartSession
<1>3. CASE StopEnds
  <2>1. worker.session \in DOMAIN ctx
    BY <1>3, SessionTypes DEF StopEnds, Inv, SessionsInv, WorkerKnowsItsSession
  <2>2. Release(worker.session) /\ GivesBack(worker.session)
    BY <1>3 DEF StopEnds, Ended, GivesBack
  <2> QED
    BY <2>1, <2>2 DEF Release
<1>4. CASE DeletionEnds
  <2>1. deleter \in DOMAIN ctx
    BY <1>4, SessionTypes DEF DeletionEnds
  <2>2. Release(deleter) /\ GivesBack(deleter)
    BY <1>4 DEF DeletionEnds, Ended, GivesBack
  <2> QED
    BY <2>1, <2>2 DEF Release
<1>5. ASSUME NEW x \in exits, ExitHandled(x)
      PROVE  \/ GivesBack(x.session) /\ Released(x.session) /\ entry' = entry /\ mutex' = mutex
             \/ \E s : CallbackEnds(s) /\ entry' = entry /\ server' = server
  <2>1. CASE x.callback = NoSession
    BY <1>5, <2>1 DEF ExitHandled, GivesBack
  <2>2. CASE x.callback # NoSession
    <3>1. CallbackEnds(x.callback) /\ Released(x.session) /\ entry' = entry
      BY <1>5, <2>2 DEF ExitHandled
    <3>2. server' = server
      BY <3>1, CallbacksReleaseNothing DEF Inv
    <3> QED
      BY <3>1, <3>2
  <2> QED
    BY <2>1, <2>2
<1>6. \A x \in exits : x.session \in DOMAIN ctx
  BY DEF Inv, SessionsInv, StopsAreMarked
<1>7. CASE UNCHANGED <<poolVars, worker, deleter, adapter, raced>> \/ TakeCommand \/ SessionWritten \/ TakeDeletion
  BY <1>7 DEF TakeCommand, TakeTurn, TakeMode, TakeStop, Take, SessionWritten, TakeDeletion, poolVars
<1>8. ASSUME NEW t \in Threads, LosesSession(t) PROVE UNCHANGED <<entry, server, mutex>>
  BY <1>8 DEF LosesSession, ExitBegins, poolVars
<1> QED
  BY <1>1, <1>2, <1>3, <1>4, <1>5, <1>6, <1>7, <1>8, WhoMovesSessions

\* A start has no server before it gets one.
LEMMA GensStay ==
    ASSUME Inv, [Next]_vars, ~GetsServer, NEW s \in DOMAIN ctx'
    PROVE  ctx'[s].gen = 0 \/ (s \in DOMAIN ctx /\ ctx'[s].gen = ctx[s].gen)
<1>1. CASE s \in DOMAIN ctx
  BY <1>1, ContextsStay
<1>2. CASE s \notin DOMAIN ctx
  <2>1. ctx \in Seq(Context) /\ ctx' \in Seq(Context')
    BY Shapes, ContextsStay DEF Inv, SessionsInv
  <2>2. BeginsStart
    BY <1>2, <2>1, ContextsStay
  <2>3. worker.thread \in Threads /\ TypeOK /\ StartsAreAsked
    BY <2>2, SessionTypes DEF BeginsStart, Inv, SessionsInv
  <2> QED
    BY <1>2, <2>2, <2>3, Begins DEF BeginsStart
<1> QED
  BY <1>1, <1>2

\* What GetsServer does, whichever way the server comes.
LEMMA ServerGot ==
    ASSUME Inv, GetsServer
    PROVE  /\ worker.session \in DOMAIN ctx /\ worker.at = "acquiring" /\ worker'.at = "creating"
           /\ worker'.session = worker.session /\ worker'.thread = worker.thread
           /\ Generations' = Generations /\ entry' \in Generations /\ entry' # 0 /\ mutex'.by = "free"
           /\ mutex'.firing = {}
           /\ \A g \in Generations : g # entry' => server'[g].holders = {}
           /\ worker.session \in server'[entry'].holders
           /\ \A s \in server'[entry'].holders : s = worker.session \/ (entry' = entry /\ s \in server[entry].holders)
           /\ entry # 0 => entry' = entry /\ server[entry].holders \subseteq server'[entry].holders
           /\ \A g \in Generations : server'[g].alive => server[g].alive \/ (entry = 0 /\ g = entry')
           /\ DOMAIN ctx' = DOMAIN ctx /\ ctx'[worker.session].gen = entry'
           /\ \A s \in DOMAIN ctx :
                /\ ctx'[s].thread = ctx[s].thread /\ ctx'[s].stopped = ctx[s].stopped
                /\ s # worker.session => ctx'[s] = ctx[s]
           /\ UNCHANGED <<readModel, clients, deleter, sessions, directory, exits, reports>>
<1>0. /\ PoolInv /\ TypeOK /\ StartsAreAsked /\ worker.session \in DOMAIN ctx /\ worker.session \in Sessions
      /\ worker.at = "acquiring" /\ LeasesAreOfStarts /\ worker \in Doing(Len(turns), Len(ctx))
  <2>1. worker.session \in DOMAIN ctx /\ DOMAIN ctx \subseteq Sessions
    BY SessionTypes DEF GetsServer, Inv, SessionsInv, WorkerKnowsItsSession
  <2> QED
    BY <2>1 DEF GetsServer, Inv, SessionsInv, TypeOK, Doing
<1>1. \A g \in Generations : g # entry => server[g].holders = {}
  BY <1>0 DEF LeasesAreOfStarts
<1> DEFINE Got == /\ Generations' = Generations /\ entry' \in Generations /\ entry' # 0 /\ mutex'.by = "free"
                  /\ mutex'.firing = {}
                  /\ \A g \in Generations : g # entry' => server'[g].holders = {}
                  /\ worker.session \in server'[entry'].holders
                  /\ \A s \in server'[entry'].holders :
                       s = worker.session \/ (entry' = entry /\ s \in server[entry].holders)
                  /\ entry # 0 => entry' = entry /\ server[entry].holders \subseteq server'[entry].holders
                  /\ \A g \in Generations : server'[g].alive => server[g].alive \/ (entry = 0 /\ g = entry')
<1>2. ASSUME Reuse(worker.session) PROVE Got
  <2>1. /\ entry \in Generations /\ Generations' = Generations
        /\ entry' = entry /\ mutex' = mutex /\ mutex.by = "free"
        /\ \A g \in Generations : server'[g].alive = server[g].alive
        /\ \A g \in Generations : g # entry => server'[g].holders = server[g].holders
        /\ server'[entry].holders = server[entry].holders \cup {worker.session}
    BY <1>0, <1>2, Reuses
  <2>2. mutex'.firing = {} /\ entry # 0
    BY <1>2 DEF Reuse, Free
  <2> QED
    BY <1>1, <2>1, <2>2
<1>3. ASSUME SpawnSucceeds(worker.session) PROVE Got
  <2>1. /\ mutex.gen \in Generations /\ Generations' = Generations
        /\ mutex' = Free /\ entry = 0 /\ entry' = mutex.gen
        /\ \A g \in Generations : g # mutex.gen => server'[g] = server[g]
        /\ server'[mutex.gen].holders = {worker.session}
    BY <1>0, <1>3, SpawnEnds
  <2>2. mutex'.firing = {} /\ mutex'.by = "free" /\ \A g \in Generations : g # 0
    BY <2>1 DEF Free, Generations
  <2> QED
    BY <1>1, <2>1, <2>2
<1>4. PICK g \in Generations : Acquired(g) /\ g = entry'
  <2>1. CASE Reuse(worker.session) /\ Acquired(entry)
    BY <1>0, <2>1, EntryType DEF Reuse, PoolInv
  <2>2. CASE SpawnSucceeds(worker.session) /\ Acquired(mutex.gen)
    BY <1>0, <2>2, EntryType DEF SpawnSucceeds, PoolInv
  <2> QED
    BY <2>1, <2>2 DEF GetsServer
<1>5. /\ DOMAIN ctx' = DOMAIN ctx /\ ctx'[worker.session].gen = g
      /\ \A s \in DOMAIN ctx :
           /\ ctx'[s].thread = ctx[s].thread /\ ctx'[s].stopped = ctx[s].stopped
           /\ s # worker.session => ctx'[s] = ctx[s]
  <2> DEFINE c == worker.session
  <2>1. c \in DOMAIN ctx /\ g \in 0 .. Len(server) /\ ctx' = [ctx EXCEPT ![c].gen = g]
    BY <1>0, <1>4 DEF Acquired, Generations
  <2> HIDE DEF c
  <2>2. /\ DOMAIN ctx' = DOMAIN ctx /\ ctx'[c].gen = g
        /\ \A s \in DOMAIN ctx :
             /\ ctx'[s].thread = ctx[s].thread /\ ctx'[s].stopped = ctx[s].stopped
             /\ s # c => ctx'[s] = ctx[s]
    BY <1>0, <2>1, Gets
  <2> QED
    BY <2>2 DEF c
<1>6. worker'.at = "creating" /\ worker'.session = worker.session /\ worker'.thread = worker.thread
  <2>1. worker' = [worker EXCEPT !.at = "creating"]
    BY <1>4 DEF Acquired
  <2> QED
    BY <1>0, <2>1 DEF Doing
<1>7. Got
  BY <1>2, <1>3 DEF GetsServer
<1>8. UNCHANGED <<readModel, deleter, clients, sessions, directory, exits, reports>>
  BY <1>4 DEF GetsServer, StartStep, Acquired
<1> QED
  BY <1>0, <1>4, <1>5, <1>6, <1>7, <1>8

LEMMA LeasesAreOfStartsStays ==
    ASSUME Inv, [Next]_vars
    PROVE  LeasesAreOfStarts'
<1>0. /\ PoolInv /\ LeasesAreOfStarts /\ DOMAIN ctx \subseteq DOMAIN ctx' /\ DOMAIN ctx \subseteq Sessions
      /\ worker.at = "acquiring" => worker.session \in DOMAIN ctx
  BY ContextsStay, SessionTypes DEF Inv, SessionsInv, WorkerKnowsItsSession
<1>1. /\ \A g \in Generations : g # entry => server[g].holders = {}
      /\ \A g \in Generations : server[g].holders \subseteq DOMAIN ctx
      /\ mutex.firing \subseteq DOMAIN ctx
  BY <1>0 DEF LeasesAreOfStarts
<1> DEFINE Leases1 == /\ \A g \in Generations' : g # entry' => server'[g].holders = {}
                      /\ \A g \in Generations' : server'[g].holders \subseteq DOMAIN ctx'
                      /\ mutex'.firing \subseteq DOMAIN ctx'
<1>2. ASSUME UNCHANGED <<entry, server, mutex>> PROVE Leases1
  BY <1>0, <1>1, <1>2 DEF Generations
<1>3. ASSUME GetsServer PROVE Leases1
  BY <1>0, <1>1, <1>3, ServerGot
<1>4. ASSUME Spawn(worker.session), worker.at = "acquiring" PROVE Leases1
  <2>1. /\ Len(server') = Len(server) + 1 /\ Len(server) \in Nat
        /\ \A g \in Generations : server'[g] = server[g]
        /\ server'[Len(server')].holders = {}
        /\ entry = 0 /\ entry' = 0
        /\ mutex'.firing = {}
    BY <1>0, <1>4, Spawns
  <2>2. \A g \in Generations' : g \in Generations \/ g = Len(server')
    BY <2>1 DEF Generations
  <2>3. \A g \in Generations : g # 0
    BY DEF Generations
  <2> QED
    BY <1>0, <1>1, <2>1, <2>2, <2>3
<1>5. ASSUME SpawnFails(worker.session), worker.at = "acquiring" PROVE Leases1
  <2>1. /\ mutex.gen \in Generations /\ Generations' = Generations
        /\ mutex' = Free /\ entry = 0 /\ entry' = 0
        /\ \A g \in Generations : g # mutex.gen => server'[g] = server[g]
        /\ server'[mutex.gen].holders = {}
    BY <1>0, <1>5, SpawnEnds
  <2>2. mutex'.firing = {}
    BY <2>1 DEF Free
  <2> QED
    BY <1>0, <1>1, <2>1, <2>2
<1>6. ASSUME NEW s \in DOMAIN ctx, Released(s), entry' = entry, mutex' = mutex PROVE Leases1
  <2>1. /\ Generations' = Generations
        /\ \A g \in Generations : g # entry => server'[g].holders = server[g].holders
        /\ entry # 0 => server'[entry].holders = server[entry].holders \ {s}
        /\ entry = 0 => server' = server
    BY <1>0, <1>6, Releases
  <2> QED
    BY <1>0, <1>1, <1>6, <2>1
<1>7. ASSUME NEW s, CallbackEnds(s), entry' = entry, server' = server PROVE Leases1
  <2>1. mutex'.firing \subseteq mutex.firing
    BY <1>7 DEF CallbackEnds, Inv, PoolInv, PoolTypeOK
  <2> QED
    BY <1>0, <1>1, <1>7, <2>1 DEF Generations
<1>8. ASSUME Evicts PROVE Leases1
  <2>1. /\ Generations' = Generations /\ entry' = 0 /\ mutex'.firing = server[entry].holders
        /\ server'[entry].holders = {} /\ entry \in Generations
        /\ \A h \in Generations : h # entry => server'[h] = server[h]
    BY <1>0, <1>8, TearsDown DEF Evicts
  <2> QED
    BY <1>0, <1>1, <2>1
<1>9. ASSUME TornDown \/ \E g \in Generations : ServerExits(g) PROVE Leases1
  <2>1. /\ Generations' = Generations /\ entry' = entry
        /\ mutex' = mutex \/ mutex' = Free
        /\ \A g \in Generations : server'[g].holders = server[g].holders
    BY <1>0, <1>9, ProcessEnds
  <2> QED
    BY <1>0, <1>1, <2>1 DEF Free
<1>10. Leases1
  BY <1>2, <1>3, <1>4, <1>5, <1>6, <1>7, <1>8, <1>9, PoolMoves DEF SpawnServer, ServerNotSpawned
<1>11. mutex'.by = "spawn" => \A s \in DOMAIN ctx' : ctx'[s].gen # mutex'.gen
  <2>1. CASE mutex' = mutex /\ ~GetsServer
    <3>1. mutex.by = "spawn" => mutex.gen # 0 /\ \A s \in DOMAIN ctx : ctx[s].gen # mutex.gen
      BY DEF Inv, PoolInv, PoolTypeOK, SessionsInv, LeasesAreOfStarts
    <3> QED
      BY <2>1, <3>1, GensStay
  <2>2. CASE SpawnServer /\ Spawn(worker.session)
    <3>1. ctx' = ctx /\ worker.at = "acquiring"
      BY <2>2 DEF SpawnServer, adapter
    <3>2. mutex'.gen = Len(server) + 1 /\ Len(server) \in Nat
      BY <1>0, <2>2, <3>1, Spawns
    <3>3. \A s \in DOMAIN ctx : ctx[s].gen \in 0 .. Len(server)
      BY Shapes DEF Inv, SessionsInv, Context
    <3> QED
      BY <3>1, <3>2, <3>3
  <2>3. ASSUME GetsServer \/ (SpawnFails(worker.session) /\ worker.at = "acquiring") \/ Evicts \/ TornDown
               \/ \E s : CallbackEnds(s)
        PROVE  mutex'.by # "spawn"
    <3>1. CASE GetsServer
      BY <3>1, ServerGot
    <3>2. CASE SpawnFails(worker.session) \/ TornDown
      BY <3>2 DEF SpawnFails, TornDown, Free
    <3>3. CASE Evicts
      BY <3>3 DEF Evicts, TearDown, Free
    <3>4. CASE \E s : CallbackEnds(s)
      BY <3>4 DEF CallbackEnds, Inv, PoolInv, PoolTypeOK
    <3> QED
      BY <2>3, <3>1, <3>2, <3>3, <3>4
  <2>4. ASSUME \E g \in Generations : ServerExits(g) PROVE mutex' = mutex
    BY <2>4 DEF ServerExits
  <2> QED
    BY <2>1, <2>2, <2>3, <2>4, PoolMoves DEF ServerNotSpawned
<1> QED
  BY <1>10, <1>11 DEF LeasesAreOfStarts

\* But for the session that gets a server, nobody gets a lease, and no server
\* comes alive; a lease ends when it is given back or its server is torn down.
LEMMA LeasesShrink ==
    ASSUME Inv, [Next]_vars, ~GetsServer
    PROVE  /\ Generations \subseteq Generations'
           /\ \A g \in Generations' \ Generations : server'[g].holders = {}
           /\ \A g \in Generations : /\ server'[g].holders \subseteq server[g].holders
                                     /\ server'[g].alive => server[g].alive
           /\ entry' # 0 => entry' = entry
           /\ entry # 0 =>
                \/ /\ entry' = entry
                   /\ \A s \in server[entry].holders : s \in server'[entry].holders \/ GivesBack(s)
                \/ ~server[entry].alive
                \/ server[entry].holders = {}
<1>0. PoolInv /\ (worker.at = "acquiring" => worker.session \in Sessions) /\ DOMAIN ctx \subseteq Sessions
  BY ActorsHaveSessions, SessionTypes DEF Inv
<1> DEFINE Shrinks == /\ Generations \subseteq Generations'
                      /\ \A g \in Generations' \ Generations : server'[g].holders = {}
                      /\ \A g \in Generations : /\ server'[g].holders \subseteq server[g].holders
                                                /\ server'[g].alive => server[g].alive
                      /\ entry' # 0 => entry' = entry
                      /\ entry # 0 =>
                           \/ /\ entry' = entry
                              /\ \A s \in server[entry].holders : s \in server'[entry].holders \/ GivesBack(s)
                           \/ ~server[entry].alive
                           \/ server[entry].holders = {}
<1>1. ASSUME UNCHANGED <<entry, server>> PROVE Shrinks
  BY <1>1 DEF Generations
<1>2. ASSUME Spawn(worker.session), worker.at = "acquiring" PROVE Shrinks
  <2>1. /\ Len(server') = Len(server) + 1 /\ Len(server) \in Nat
        /\ \A g \in Generations : server'[g] = server[g]
        /\ server'[Len(server')].holders = {}
        /\ entry = 0 /\ entry' = 0
    BY <1>0, <1>2, Spawns
  <2>2. Generations' = Generations \cup {Len(server')}
    BY <2>1 DEF Generations
  <2> QED
    BY <2>1, <2>2
<1>3. ASSUME SpawnFails(worker.session), worker.at = "acquiring" PROVE Shrinks
  <2>1. /\ mutex.gen \in Generations /\ Generations' = Generations
        /\ entry = 0 /\ entry' = 0
        /\ \A g \in Generations : g # mutex.gen => server'[g] = server[g]
        /\ server'[mutex.gen].holders = {} /\ ~server'[mutex.gen].alive
    BY <1>0, <1>3, SpawnEnds
  <2> QED
    BY <2>1
<1>4. ASSUME NEW s \in DOMAIN ctx, GivesBack(s), Released(s), entry' = entry PROVE Shrinks
  <2>1. /\ Generations' = Generations
        /\ \A g \in Generations : server'[g].alive = server[g].alive
        /\ \A g \in Generations : g # entry => server'[g].holders = server[g].holders
        /\ entry # 0 => server'[entry].holders = server[entry].holders \ {s}
        /\ entry = 0 => server' = server
    BY <1>0, <1>4, Releases
  <2> QED
    BY <1>4, <2>1
<1>5. ASSUME Evicts PROVE Shrinks
  <2>1. /\ Generations' = Generations /\ entry' = 0
        /\ server'[entry].holders = {} /\ server'[entry].alive = server[entry].alive
        /\ \A h \in Generations : h # entry => server'[h] = server[h]
    BY <1>0, <1>5, TearsDown DEF Evicts
  <2>2. ~server[entry].alive \/ server[entry].holders = {}
    <3>1. entry # 0 /\ (~server[entry].alive \/ IsIdle(entry))
      BY <1>5 DEF Evicts, Generations
    <3>2. IsIdle(entry) => server[entry].holders = {}
      BY <1>0, <3>1, FS_EmptySet DEF PoolInv, CountIsHolders, IsIdle
    <3> QED
      BY <3>1, <3>2
  <2> QED
    BY <2>1, <2>2
<1>6. ASSUME TornDown \/ \E g \in Generations : ServerExits(g) PROVE Shrinks
  <2>1. /\ Generations' = Generations /\ entry' = entry
        /\ \A g \in Generations : /\ server'[g].holders = server[g].holders
                                  /\ server'[g].alive => server[g].alive
    BY <1>0, <1>6, ProcessEnds
  <2>2. entry # 0 => entry \in Generations
    BY <1>0, EntryType DEF PoolInv
  <2> QED
    BY <2>1, <2>2
<1>7. Shrinks
  BY <1>1, <1>2, <1>3, <1>4, <1>5, <1>6, PoolMoves DEF SpawnServer, ServerNotSpawned
<1> QED
  BY <1>7

-----------------------------------------------------------------------------
(* Who knows which session *)

\* The step that stops session s leaves somebody who will return its lease.
Stops(s) ==
    LET t == ctx[s].thread
    IN  /\ IsLive(t) /\ sessions[t] = s
        /\ \/ /\ TakeStop \/ EndExisting
              /\ worker'.at \in {"stopping", "ending"} /\ worker'.session = s /\ worker'.thread = t
           \/ TakeDeletion /\ deleter' = s /\ t = Head(deletions)
           \/ LosesSession(t) /\ sessions'[t] = NoSession /\ \E x \in exits' : x.session = s

\* Only what is marked becomes stopped.
LEMMA MarksOne ==
    ASSUME Inv, NEW t \in Threads, IsLive(t), ctx' = [ctx EXCEPT ![sessions[t]].stopped = TRUE],
           NEW s \in DOMAIN ctx, ~ctx[s].stopped, ctx'[s].stopped
    PROVE  s = sessions[t] /\ ctx[s].thread = t
<1> DEFINE c == sessions[t]
<1>1. c \in DOMAIN ctx /\ ctx[c].thread = t /\ TypeOK /\ StartsAreAsked
  BY SessionTypes DEF IsLive, Inv, SessionsInv
<1>2. ctx' = [ctx EXCEPT ![c].stopped = TRUE]
  OBVIOUS
<1> HIDE DEF c
<1>3. s # c => ctx'[s] = ctx[s]
  BY <1>1, <1>2, Marks
<1>4. s = c
  BY <1>3
<1> QED
  BY <1>1, <1>4 DEF c

LEMMA WhoStops ==
    ASSUME Inv, [Next]_vars, NEW s \in DOMAIN ctx, ~ctx[s].stopped, ctx'[s].stopped
    PROVE  Stops(s)
<1>0. /\ TypeOK /\ StartsAreAsked /\ worker \in Doing(Len(turns), Len(ctx)) /\ NoSession = 0
      /\ ctx[s].thread \in Threads
  BY SessionTypes DEF Inv, SessionsInv, TypeOK, Doing
<1>1. CASE TakeStop
  <2> DEFINE t == Head(commands).thread
             stopped == [Idle EXCEPT !.thread = t, !.status = "stopped"]
  <2>1. t \in Threads
    BY <1>0, <1>1, QueueHeads DEF TakeStop, Take
  <2>2. /\ CanStop(t) /\ ctx' = [ctx EXCEPT ![sessions[t]].stopped = TRUE]
        /\ worker' = [stopped EXCEPT !.at = "ending", !.session = sessions[t]]
    BY <1>1 DEF TakeStop
  <2>3. worker'.at = "ending" /\ worker'.session = sessions[t] /\ worker'.thread = t
    BY <2>2 DEF Idle
  <2> HIDE DEF t
  <2>4. s = sessions[t] /\ ctx[s].thread = t /\ IsLive(t)
    BY <2>1, <2>2, MarksOne DEF CanStop
  <2> QED
    BY <1>1, <2>3, <2>4 DEF Stops
<1>2. CASE EndExisting
  <2> DEFINE t == worker.thread
  <2>1. t \in Threads
    BY <1>2, SessionTypes DEF EndExisting
  <2>2. CASE IsLive(t)
    <3>1. /\ ctx' = [ctx EXCEPT ![sessions[t]].stopped = TRUE]
          /\ worker' = [worker EXCEPT !.at = "stopping", !.session = sessions[t]]
      BY <1>2, <2>2 DEF EndExisting
    <3>2. worker'.at = "stopping" /\ worker'.session = sessions[t] /\ worker'.thread = t
      BY <1>0, <3>1 DEF Doing
    <3> HIDE DEF t
    <3>4. s = sessions[t] /\ ctx[s].thread = t
      BY <2>1, <2>2, <3>1, MarksOne
    <3> QED
      BY <1>2, <2>2, <3>2, <3>4 DEF Stops
  <2>3. CASE ~IsLive(t)
    <3>1. NewStart
      BY <1>2, <2>3 DEF EndExisting
    <3>2. ctx'[s] = ctx[s]
      BY <1>0, <2>1, <3>1, Begins
    <3> QED
      BY <3>2
  <2> QED
    BY <2>2, <2>3
<1>3. CASE TakeDeletion
  <2> DEFINE t == Head(deletions)
  <2>1. t \in Threads
    BY <1>0, <1>3, QueueHeads DEF TakeDeletion
  <2>2. CanStop(t) /\ ctx' = [ctx EXCEPT ![sessions[t]].stopped = TRUE] /\ deleter' = sessions[t]
    BY <1>3 DEF TakeDeletion
  <2> HIDE DEF t
  <2>4. s = sessions[t] /\ ctx[s].thread = t /\ IsLive(t)
    BY <2>1, <2>2, MarksOne DEF CanStop
  <2> QED
    BY <1>3, <2>2, <2>4 DEF Stops, t
<1>4. ASSUME NEW t \in Threads, LosesSession(t) PROVE Stops(s)
  <2>1. PICK callback \in Sessions \cup {NoSession} : ExitBegins(sessions[t], callback)
    BY <1>4 DEF LosesSession
  <2>2. ctx' = [ctx EXCEPT ![sessions[t]].stopped = TRUE]
    BY <2>1 DEF ExitBegins
  <2>3. s = sessions[t] /\ ctx[s].thread = t /\ IsLive(t)
    BY <1>4, <2>2, MarksOne DEF LosesSession
  <2>4. [session |-> s, callback |-> callback] \in exits'
        /\ sessions' = [sessions EXCEPT ![t] = NoSession]
    BY <2>1, <2>3 DEF ExitBegins
  <2>5. sessions'[t] = NoSession /\ \E x \in exits' : x.session = s
    BY <1>0, <2>4 DEF TypeOK
  <2> QED
    BY <1>4, <2>3, <2>5 DEF Stops
<1>5. CASE GetsServer \/ BeginsStart
  <2>1. BeginsStart => worker.thread \in Threads
    BY SessionTypes DEF BeginsStart
  <2> QED
    BY <1>0, <1>5, <2>1, ServerGot, Begins DEF BeginsStart
<1>6. CASE StartSession /\ ~EndExisting
  <2>1. ctx' = ctx \/ GetsServer \/ BeginsStart
    BY <1>6 DEF StartSession, ExistingEnded, PrepareFails, AcquireServer, SpawnServer, ServerSpawned,
       ServerNotSpawned, ResumeMisses, CreateFails, SessionStarts, GetsServer, BeginsStart, StartStep, adapter
  <2> QED
    BY <1>5, <2>1
<1>7. CASE UNCHANGED <<poolVars, worker, deleter, adapter, raced>> \/ PoolStep \/ TakeTurn \/ TakeMode
           \/ SessionWritten \/ StopEnds \/ DeletionEnds \/ (\E x \in exits : ExitHandled(x))
  BY <1>7 DEF PoolStep, TakeTurn, TakeMode, EnsureSession, SessionWritten, StopEnds, DeletionEnds,
     Ended, ExitHandled, adapter
<1> QED
  BY <1>1, <1>2, <1>3, <1>4, <1>6, <1>7, WhoMovesSessions DEF TakeCommand, adapter

LEMMA SessionsAreTheirThreadsStays ==
    ASSUME Inv, [Next]_vars
    PROVE  SessionsAreTheirThreads'
<1>0. /\ SessionsAreTheirThreads /\ sessions \in [Threads -> 0 .. Len(ctx)]
      /\ \A t \in Threads : sessions[t] # NoSession => sessions[t] \in DOMAIN ctx
  BY SessionTypes DEF Inv, SessionsInv
<1>1. CASE SessionStarts
  <2> DEFINE c == worker.session
             u == worker.thread
  <2>1. /\ c \in DOMAIN ctx /\ ctx[c].thread = u /\ ctx[c].gen # 0 /\ u \in Threads /\ c # NoSession
    BY <1>1, SessionTypes DEF SessionStarts, Inv, SessionsInv, WorkerKnowsItsSession
  <2>2. ctx' = ctx /\ sessions' = [sessions EXCEPT ![u] = c] /\ directory' = directory \cup {u}
    BY <1>1 DEF SessionStarts
  <2> HIDE DEF c, u
  <2> QED
    BY <1>0, <2>1, <2>2 DEF SessionsAreTheirThreads, IsLive
<1>2. CASE ~SessionStarts
  <2> SUFFICES ASSUME NEW t \in Threads
               PROVE  /\ sessions'[t] # NoSession => ctx'[sessions'[t]].thread = t /\ ctx'[sessions'[t]].gen # 0
                      /\ IsLive(t)' => t \in directory'
    BY DEF SessionsAreTheirThreads
  <2>1. sessions'[t] \in {NoSession, sessions[t]}
    BY <1>0, <1>2, SessionsChange
  <2>2. sessions'[t] # NoSession => ctx'[sessions'[t]].thread = t /\ ctx'[sessions'[t]].gen # 0
    BY <1>0, <2>1, ContextsStay DEF SessionsAreTheirThreads
  <2>3. ASSUME IsLive(t)' PROVE t \in directory'
    <3>1. IsLive(t)
      BY <1>0, <2>1, <2>3, ContextsStay DEF IsLive
    <3>2. t \in directory
      BY <1>0, <3>1 DEF SessionsAreTheirThreads
    <3>3. ASSUME NEW c, Ended(c), ctx[c].thread = t PROVE sessions'[t] = NoSession
      BY <1>0, <3>3 DEF Ended
    <3>5. (StopEnds => Ended(worker.session)) /\ (DeletionEnds => Ended(deleter))
      BY DEF StopEnds, DeletionEnds
    <3>4. sessions'[t] # NoSession
      BY <2>3 DEF IsLive
    <3> QED
      BY <1>2, <3>2, <3>3, <3>4, <3>5, DirectoryChanges
  <2> QED
    BY <2>2, <2>3
<1> QED
  BY <1>1, <1>2

\* The worker's session while the worker waits.
LEMMA WorkerKnowsWhileWaiting ==
    ASSUME Inv, [Next]_vars, worker' = worker, ~WorkerStep
    PROVE  WorkerKnowsItsSession'
<1> DEFINE c == worker.session
           u == worker.thread
<1>0. /\ WorkerKnowsItsSession /\ sessions \in [Threads -> 0 .. Len(ctx)]
      /\ c # NoSession => c \in DOMAIN ctx
      /\ worker.at # "idle" => u \in Threads
      /\ \A s \in DOMAIN ctx : ctx[s].thread \in Threads
  BY SessionTypes DEF Inv, SessionsInv
<1>1. \A t \in Threads : sessions'[t] \in {NoSession, sessions[t]}
  <2>1. ~SessionStarts
    BY DEF WorkerStep, StartSession
  <2> QED
    BY <1>0, <2>1, SessionsChange
<1>2. ~GetsServer /\ ~BeginsStart
  <2>1. GetsServer => worker'.at = "creating" /\ worker.at = "acquiring"
    BY ServerGot
  <2>2. BeginsStart => worker'.at = "acquiring" /\ worker.at \in {"preparing", "stopping"}
    BY <1>0, Begins DEF BeginsStart, Inv, SessionsInv
  <2> QED
    BY <2>1, <2>2
<1>3. \A s \in DOMAIN ctx : /\ ctx'[s].thread = ctx[s].thread /\ ctx'[s].gen = ctx[s].gen
                            /\ ctx[s].stopped => ctx'[s].stopped
  BY <1>2, ContextsStay
<1>4. ASSUME worker.at \in {"acquiring", "creating"} PROVE ~ctx'[c].stopped
  <2>1. c \in DOMAIN ctx /\ ctx[c].thread = u /\ ~ctx[c].stopped /\ sessions[u] = NoSession /\ c # NoSession
    BY <1>0, <1>4 DEF WorkerKnowsItsSession
  <2>2. ~Stops(c)
    BY <2>1 DEF Stops
  <2> QED
    BY <2>1, <2>2, WhoStops
<1>5. ASSUME worker.at = "acquiring" PROVE \A g \in Generations' : c \notin server'[g].holders
  <2>1. /\ \A g \in Generations' \ Generations : server'[g].holders = {}
        /\ \A g \in Generations : server'[g].holders \subseteq server[g].holders
    BY <1>2, LeasesShrink
  <2>2. \A g \in Generations : c \notin server[g].holders
    BY <1>0, <1>5 DEF WorkerKnowsItsSession
  <2> QED
    BY <2>1, <2>2
<1> QED
  BY <1>0, <1>1, <1>3, <1>4, <1>5 DEF WorkerKnowsItsSession

\* The worker's session when the worker has moved on.
LEMMA WorkerKnowsAfterStep ==
    ASSUME Inv, [Next]_vars, WorkerStep
    PROVE  WorkerKnowsItsSession'
<1> DEFINE c == worker.session
           u == worker.thread
<1>0. /\ WorkerKnowsItsSession /\ LeasesAreOfStarts /\ PoolInv /\ TypeOK /\ StartsAreAsked
      /\ sessions \in [Threads -> 0 .. Len(ctx)]
      /\ c # NoSession => c \in DOMAIN ctx
      /\ worker.at # "idle" => u \in Threads
      /\ NoSession = 0 /\ NoSession \notin DOMAIN ctx
      /\ worker \in Doing(Len(turns), Len(ctx))
      /\ Len(ctx) \in Nat
  BY SessionTypes, Shapes DEF Inv, SessionsInv, TypeOK, Doing
<1>1. worker'.at # "idle" => worker'.thread \in Threads
  BY WorkerKeepsType
<1> DEFINE Quiet == worker'.at \notin {"stopping", "ending", "acquiring", "creating"}
<1>2. ASSUME Quiet PROVE WorkerKnowsItsSession'
  BY <1>1, <1>2 DEF WorkerKnowsItsSession
<1>3. ASSUME TakeTurn \/ TakeMode PROVE Quiet
  <2>1. worker'.at \in {"idle", "preparing", "ending", "writing"}
    BY <1>3, WorkerTakes DEF TakeCommand
  <2>2. worker' = worker \/ worker'.at = "preparing"
    BY <1>3 DEF TakeTurn, TakeMode, EnsureSession, Idle
  <2>3. worker.at = "idle"
    BY <1>3, WorkerTakes DEF TakeCommand, Idle
  <2> QED
    BY <2>1, <2>2, <2>3
<1>4. CASE TakeStop
  <2> DEFINE t == Head(commands).thread
             d == sessions[t]
  <2>1. worker'.at \in {"idle", "preparing", "ending", "writing"} /\ worker.at = "idle"
        /\ (worker'.at = "ending" => worker'.thread = t)
    BY <1>4, WorkerTakes DEF TakeCommand, Idle
  <2>2. ASSUME worker'.at = "ending"
        PROVE  /\ IsLive(t) /\ worker'.session = d /\ ctx' = [ctx EXCEPT ![d].stopped = TRUE]
               /\ t \in Threads /\ sessions' = sessions
    <3>1. t \in Threads
      BY <1>0, <1>4, QueueHeads DEF TakeStop, Take
    <3>2. CanStop(t) /\ worker' = [[Idle EXCEPT !.thread = t, !.status = "stopped"]
                                      EXCEPT !.at = "ending", !.session = d]
          /\ ctx' = [ctx EXCEPT ![d].stopped = TRUE] /\ sessions' = sessions
      BY <1>4, <2>1, <2>2 DEF TakeStop, Take, Idle
    <3> QED
      BY <3>1, <3>2 DEF CanStop, Idle
  <2>3. ASSUME worker'.at = "ending" PROVE WorkerKnowsItsSession'
    <3>1. d \in DOMAIN ctx /\ ctx[d].thread = t /\ d # NoSession
      BY <2>2, <2>3, SessionTypes DEF IsLive
    <3> HIDE DEF d
    <3>2. ctx'[d].stopped /\ ctx'[d].thread = ctx[d].thread
      BY <1>0, <2>2, <2>3, <3>1, Marks
    <3>3. worker'.session = d /\ worker'.thread = t /\ sessions'[t] = d /\ t \in Threads
      BY <2>1, <2>2, <2>3 DEF d
    <3> HIDE DEF t
    <3> QED
      BY <2>3, <3>1, <3>2, <3>3 DEF WorkerKnowsItsSession
  <2> QED
    BY <1>2, <2>1, <2>3
<1>5. CASE EndExisting \/ ExistingEnded
  <2>0. worker.at \in {"preparing", "stopping"} /\ u \in Threads
    BY <1>0, <1>5 DEF EndExisting, ExistingEnded
  <2>1. CASE NewStart
    <3> DEFINE n == Len(ctx) + 1
    <3>1. /\ n \notin DOMAIN ctx /\ ctx'[n].thread = u /\ ~ctx'[n].stopped
          /\ worker'.at = "acquiring" /\ worker'.session = n /\ worker'.thread = u
          /\ sessions'[u] = NoSession
      BY <1>0, <2>0, <2>1, Begins
    <3>2. ~GetsServer
      BY <2>0 DEF GetsServer
    <3>3. \A g \in Generations' : n \notin server'[g].holders
      <4>1. \A g \in Generations : server[g].holders \subseteq DOMAIN ctx
        BY <1>0 DEF LeasesAreOfStarts
      <4>2. /\ \A g \in Generations' \ Generations : server'[g].holders = {}
            /\ \A g \in Generations : server'[g].holders \subseteq server[g].holders
        BY <3>2, LeasesShrink
      <4> QED
        BY <3>1, <4>1, <4>2
    <3>4. n # NoSession
      BY <1>0
    <3> HIDE DEF n, u
    <3> QED
      BY <1>1, <3>1, <3>3, <3>4 DEF WorkerKnowsItsSession
  <2>2. CASE ~NewStart
    <3> DEFINE d == sessions[u]
    <3>1. /\ IsLive(u) /\ ctx' = [ctx EXCEPT ![d].stopped = TRUE] /\ sessions' = sessions
          /\ worker' = [worker EXCEPT !.at = "stopping", !.session = d]
      BY <1>5, <2>2 DEF EndExisting, ExistingEnded
    <3>2. d \in DOMAIN ctx /\ ctx[d].thread = u /\ d # NoSession
      BY <2>0, <3>1, SessionTypes DEF IsLive
    <3> HIDE DEF d
    <3>3. ctx'[d].stopped /\ ctx'[d].thread = ctx[d].thread
      BY <1>0, <3>1, <3>2, Marks
    <3>4. worker'.at = "stopping" /\ worker'.session = d /\ worker'.thread = u /\ sessions'[u] = d
      BY <1>0, <3>1 DEF Doing, d
    <3> HIDE DEF u
    <3> QED
      BY <1>1, <3>2, <3>3, <3>4 DEF WorkerKnowsItsSession
  <2> QED
    BY <2>1, <2>2
<1>6. CASE GetsServer
  <2>1. /\ c \in DOMAIN ctx /\ worker'.at = "creating" /\ worker'.session = c /\ worker'.thread = u
        /\ ctx'[c].gen = entry' /\ entry' # 0 /\ sessions' = sessions
        /\ ctx'[c].thread = ctx[c].thread /\ ctx'[c].stopped = ctx[c].stopped
        /\ worker.at = "acquiring"
    BY <1>6, ServerGot
  <2> HIDE DEF c, u
  <2>2. ctx[c].thread = u /\ ~ctx[c].stopped /\ sessions[u] = NoSession
    BY <1>0, <2>1 DEF WorkerKnowsItsSession, c, u
  <2> QED
    BY <1>0, <1>1, <2>1, <2>2 DEF WorkerKnowsItsSession
<1>7. ASSUME Failed PROVE Quiet
  <2>1. Idle.at = "idle" /\ worker \in Doing(Len(turns), Len(ctx))
    BY <1>0 DEF Idle
  <2>2. worker' = Idle \/ \E st : worker' = [worker EXCEPT !.at = "writing", !.outcome = "ended", !.status = st]
    BY <1>7 DEF Failed
  <2>3. worker'.at \in {"idle", "writing"}
    BY <2>1, <2>2 DEF Doing
  <2> QED
    BY <2>3
<1>8. CASE SpawnServer \/ ServerNotSpawned \/ ResumeMisses
  <2>1. ASSUME ~Failed
        PROVE  /\ worker'.at = "acquiring" /\ worker'.session = c /\ worker'.thread = u
               /\ ctx' = ctx /\ sessions' = sessions
               /\ worker.at \in {"acquiring", "creating"}
    <3>1. worker' = worker \/ worker' = [worker EXCEPT !.resume = FALSE]
          \/ worker' = [worker EXCEPT !.at = "acquiring", !.resume = FALSE]
      BY <1>8, <2>1 DEF SpawnServer, ServerNotSpawned, ResumeMisses
    <3>2. worker.at = "acquiring" \/ worker' = [worker EXCEPT !.at = "acquiring", !.resume = FALSE]
      BY <1>8 DEF SpawnServer, ServerNotSpawned, ResumeMisses
    <3>3. worker.at \in {"acquiring", "creating"} /\ ctx' = ctx /\ sessions' = sessions
      BY <1>8 DEF SpawnServer, ServerNotSpawned, ResumeMisses, adapter
    <3> QED
      BY <1>0, <3>1, <3>2, <3>3 DEF Doing
  <2>2. ASSUME ~Failed PROVE WorkerKnowsItsSession'
    <3>1. ctx[c].thread = u /\ ~ctx[c].stopped /\ sessions[u] = NoSession /\ c # NoSession /\ u \in Threads
      BY <1>0, <2>1, <2>2 DEF WorkerKnowsItsSession
    <3>2. \A g \in Generations' : c \notin server'[g].holders
      <4>1. CASE worker.at = "acquiring" /\ ~ResumeMisses
        <5>1. \A g \in Generations : c \notin server[g].holders
          BY <1>0, <4>1 DEF WorkerKnowsItsSession
        <5>2. ~GetsServer
          <6>1. GetsServer => worker'.at = "creating"
            BY ServerGot
          <6> QED
            BY <2>1, <2>2, <6>1
        <5>3. /\ \A g \in Generations' \ Generations : server'[g].holders = {}
              /\ \A g \in Generations : server'[g].holders \subseteq server[g].holders
          BY <5>2, LeasesShrink
        <5> QED
          BY <5>1, <5>3
      <4>2. CASE ResumeMisses
        <5>1. Released(c) /\ entry' = entry
          BY <4>2 DEF ResumeMisses, Release
        <5>2. c \in Sessions
          BY <1>0, <3>1, SessionTypes
        <5>3. /\ Generations' = Generations
              /\ \A g \in Generations : g # entry => server'[g].holders = server[g].holders
              /\ entry # 0 => server'[entry].holders = server[entry].holders \ {c}
          BY <1>0, <5>1, <5>2, Releases
        <5>4. \A g \in Generations : g # 0 /\ (g # entry => server[g].holders = {})
          BY <1>0 DEF LeasesAreOfStarts, Generations
        <5> QED
          BY <5>3, <5>4
      <4>3. worker.at = "acquiring" \/ ResumeMisses
        BY <1>8 DEF SpawnServer, ServerNotSpawned
      <4> QED
        BY <4>1, <4>2, <4>3
    <3> HIDE DEF c, u
    <3> QED
      BY <2>1, <2>2, <3>1, <3>2 DEF WorkerKnowsItsSession
  <2> QED
    BY <1>2, <1>7, <2>2
<1>9. ASSUME PrepareFails \/ CreateFails PROVE Quiet
  BY <1>7, <1>9 DEF PrepareFails, CreateFails
<1>10. ASSUME SessionStarts \/ StopEnds \/ SessionWritten PROVE Quiet
  <2>1. \/ worker' = [worker EXCEPT !.at = "writing", !.outcome = "sending"]
        \/ worker' = [worker EXCEPT !.at = "writing", !.session = NoSession]
        \/ worker' = Idle
    BY <1>10 DEF SessionStarts, StopEnds, SessionWritten
  <2>2. Idle.at = "idle" /\ worker \in Doing(Len(turns), Len(ctx))
    BY <1>0 DEF Idle
  <2>3. worker'.at \in {"idle", "writing"}
    BY <2>1, <2>2 DEF Doing
  <2> QED
    BY <2>3
<1> QED
  BY <1>2, <1>3, <1>4, <1>5, <1>6, <1>7, <1>8, <1>9, <1>10
     DEF WorkerStep, TakeCommand, StartSession, GetsServer, AcquireServer, ServerSpawned

LEMMA WorkerKnowsItsSessionStays ==
    ASSUME Inv, [Next]_vars
    PROVE  WorkerKnowsItsSession'
BY WorkerMoves, WorkerKnowsWhileWaiting, WorkerKnowsAfterStep

-----------------------------------------------------------------------------
(* Deletions and starts *)

\* A start that goes on was going on, or has begun in a thread that is either
\* not deleted or counted among the raced.
LEMMA StartsGoOn ==
    ASSUME Inv, [Next]_vars, worker'.at \in Starting
    PROVE  \/ worker.at \in Starting /\ worker'.thread = worker.thread
           \/ /\ worker'.thread \in Threads
              /\ ~thread[worker'.thread].deleted \/ worker'.thread \in raced'
              /\ TakeCommand /\ thread' = thread
<1>0. worker \in Doing(Len(turns), Len(ctx)) /\ TypeOK /\ TurnsAreAsked
  BY DEF Inv, SessionsInv, TypeOK, Doing
<1>1. CASE worker' = worker
  BY <1>1
<1>2. CASE TakeCommand
  <2>1. /\ worker = Idle /\ commands # <<>>
        /\ worker'.at \in {"idle", "preparing", "ending", "writing"}
        /\ worker'.at # "idle" => worker'.thread = Head(commands).thread
    BY <1>2, WorkerTakes
  <2>2. worker'.at = "preparing" /\ worker'.thread = Head(commands).thread /\ worker.at = "idle"
    BY <2>1 DEF Starting, Idle
  <2>3. ~TakeStop
    <3> DEFINE stopped == [Idle EXCEPT !.thread = Head(commands).thread, !.status = "stopped"]
    <3>1. ASSUME TakeStop
          PROVE  \/ worker' = worker
                 \/ worker' = [stopped EXCEPT !.at = "writing"]
                 \/ worker' = [stopped EXCEPT !.at = "ending", !.session = sessions[Head(commands).thread]]
      BY <3>1 DEF TakeStop
    <3>2. TakeStop => worker'.at \in {"idle", "writing", "ending"}
      BY <2>2, <3>1 DEF Idle
    <3> QED
      BY <2>2, <3>2
  <2>4. (TakeTurn \/ TakeMode) /\ worker' # worker
    BY <1>2, <2>2, <2>3 DEF TakeCommand
  <2>5. raced' = IF thread[worker'.thread].deleted THEN raced \cup {worker'.thread} ELSE raced
    BY <2>2, <2>4 DEF TakeTurn, TakeMode, EnsureSession
  <2>6. thread' = thread
    BY <2>4 DEF TakeTurn, TakeMode, Take
  <2>7. worker'.thread \in Threads
    BY <1>0, <2>1, <2>2, QueueHeads
  <2> QED
    BY <1>2, <2>5, <2>6, <2>7
<1>3. CASE WorkerStep /\ ~TakeCommand
  <2>1. worker'.thread = worker.thread /\ worker.at # "idle"
    BY <1>3, WorkerGoes DEF Starting
  <2>2. worker.at \in Starting
    <3>1. StartSession => worker.at \in Starting
      BY DEF StartSession, EndExisting, ExistingEnded, PrepareFails, AcquireServer, SpawnServer, ServerSpawned,
         ServerNotSpawned, ResumeMisses, CreateFails, SessionStarts, Starting
    <3>2. ASSUME SessionWritten \/ StopEnds PROVE worker'.at \in {"idle", "writing"}
      <4>1. worker' = Idle \/ worker' = [worker EXCEPT !.at = "writing", !.session = NoSession]
        BY <3>2 DEF SessionWritten, StopEnds
      <4>2. Idle.at = "idle"
        BY DEF Idle
      <4> QED
        BY <1>0, <4>1, <4>2 DEF Doing
    <3> QED
      BY <1>3, <3>1, <3>2 DEF WorkerStep, Starting
  <2> QED
    BY <2>1, <2>2
<1> QED
  BY <1>1, <1>2, <1>3, WorkerMoves

LEMMA StopsAreMarkedStays ==
    ASSUME Inv, [Next]_vars
    PROVE  StopsAreMarked'
<1>0. /\ StopsAreMarked /\ WorkerKnowsItsSession /\ TypeOK /\ StartsAreAsked /\ StartsMeetDeletions
      /\ sessions \in [Threads -> 0 .. Len(ctx)]
      /\ DOMAIN ctx \subseteq DOMAIN ctx'
      /\ \A s \in DOMAIN ctx : /\ ctx'[s].thread = ctx[s].thread /\ ctx[s].thread \in Threads
                               /\ ctx[s].stopped => ctx'[s].stopped
  BY ContextsStay, SessionTypes DEF Inv, SessionsInv
<1>1. \A x \in exits' : x.session \in DOMAIN ctx' /\ ctx'[x.session].stopped
  <2>1. \A x \in exits : x.session \in DOMAIN ctx' /\ ctx'[x.session].stopped
    BY <1>0 DEF StopsAreMarked
  <2>2. ASSUME NEW t \in Threads, LosesSession(t)
        PROVE  \A x \in exits' : x \in exits \/ (x.session \in DOMAIN ctx' /\ ctx'[x.session].stopped)
    <3> DEFINE d == sessions[t]
    <3>1. PICK callback \in Sessions \cup {NoSession} : ExitBegins(d, callback)
      BY <2>2 DEF LosesSession
    <3>2. d \in DOMAIN ctx
      BY <2>2, SessionTypes DEF LosesSession, IsLive
    <3> HIDE DEF d
    <3>3. ctx'[d].stopped
      BY <1>0, <3>1, <3>2, Marks DEF ExitBegins
    <3>4. exits' = exits \cup {[session |-> d, callback |-> callback]}
      BY <3>1 DEF ExitBegins
    <3> QED
      BY <1>0, <3>2, <3>3, <3>4
  <2> QED
    BY <2>1, <2>2, ExitsChange
<1>2. ASSUME deleter' = deleter, deleter # NoSession
      PROVE  LET t == ctx'[deleter].thread
             IN  /\ ctx'[deleter].stopped /\ thread'[t].deleted
                 /\ \/ t \in raced'
                    \/ /\ sessions'[t] \in {NoSession, deleter}
                       /\ ~(worker'.thread = t /\ worker'.at \in Starting)
  <2> DEFINE t == ctx[deleter].thread
  <2>1. /\ deleter \in DOMAIN ctx /\ ctx[deleter].stopped /\ thread[t].deleted
        /\ \/ t \in raced
           \/ /\ sessions[t] \in {NoSession, deleter}
              /\ ~(worker.thread = t /\ worker.at \in Starting)
    BY <1>0, <1>2, SessionTypes DEF StopsAreMarked
  <2>2. t \in Threads /\ ctx'[deleter].thread = t /\ ctx'[deleter].stopped
    BY <1>0, <2>1
  <2>3. thread'[t].deleted /\ (t \in raced => t \in raced')
    BY <2>1, <2>2, ThreadsStay, RacedType
  <2> HIDE DEF t
  <2>4. ASSUME ~(worker.thread = t /\ worker.at \in Starting) PROVE sessions'[t] \in {NoSession, sessions[t]}
    <3>1. SessionStarts => worker.at \in Starting /\ sessions' = [sessions EXCEPT ![worker.thread] = worker.session]
      BY DEF SessionStarts, Starting
    <3> QED
      BY <1>0, <2>2, <2>4, <3>1, SessionsChange
  <2>5. ASSUME ~(worker.thread = t /\ worker.at \in Starting), worker'.thread = t, worker'.at \in Starting
        PROVE  t \in raced'
    BY <2>1, <2>5, StartsGoOn
  <2> QED
    BY <2>1, <2>2, <2>3, <2>4, <2>5
<1>3. ASSUME TakeDeletion, CanStop(Head(deletions)), deleter' = sessions[Head(deletions)]
      PROVE  LET t == ctx'[deleter'].thread
             IN  /\ ctx'[deleter'].stopped /\ thread'[t].deleted
                 /\ \/ t \in raced'
                    \/ /\ sessions'[t] \in {NoSession, deleter'}
                       /\ ~(worker'.thread = t /\ worker'.at \in Starting)
  <2> DEFINE t == Head(deletions)
             d == sessions[t]
  <2>1. t \in Threads /\ t = deletions[1] /\ 1 \in DOMAIN deletions
    BY <1>0, <1>3, QueueHeads DEF TakeDeletion, TypeOK
  <2>2. thread[t].deleted
    BY <1>0, <2>1 DEF StartsMeetDeletions
  <2>3. /\ ctx' = [ctx EXCEPT ![d].stopped = TRUE] /\ thread' = thread /\ worker' = worker /\ sessions' = sessions
        /\ raced' = IF worker.thread = t /\ worker.at \in Starting THEN raced \cup {t} ELSE raced
    BY <1>3 DEF TakeDeletion, readModel
  <2>4. d \in DOMAIN ctx /\ ctx[d].thread = t
    BY <1>3, <2>1, SessionTypes DEF CanStop, IsLive
  <2>5. deleter' = d /\ sessions'[t] = d
    BY <1>3, <2>3
  <2> HIDE DEF t, d
  <2>6. ctx'[d].stopped /\ ctx'[d].thread = t
    BY <1>0, <2>3, <2>4, Marks
  <2> QED
    BY <2>2, <2>3, <2>5, <2>6
<1>4. deleter' # NoSession =>
         LET t == ctx'[deleter'].thread
         IN  /\ ctx'[deleter'].stopped /\ thread'[t].deleted
             /\ \/ t \in raced'
                \/ /\ sessions'[t] \in {NoSession, deleter'}
                   /\ ~(worker'.thread = t /\ worker'.at \in Starting)
  BY <1>2, <1>3, DeleterKeepsType
<1> QED
  BY <1>1, <1>4 DEF StopsAreMarked

LEMMA StartsMeetDeletionsStays ==
    ASSUME Inv, [Next]_vars
    PROVE  StartsMeetDeletions'
<1>0. /\ StartsMeetDeletions /\ SessionsAreTheirThreads /\ TypeOK /\ StartsAreAsked /\ deletions \in Seq(Threads)
      /\ sessions \in [Threads -> 0 .. Len(ctx)] /\ thread \in [Threads -> [deleted : BOOLEAN, status : Statuses]]
      /\ \A t \in Threads : thread[t].deleted => thread'[t].deleted
      /\ raced \subseteq raced'
      /\ \A s \in DOMAIN ctx : ctx[s].stopped => ctx'[s].stopped
  BY ContextsStay, SessionTypes, ThreadsStay, RacedType DEF Inv, SessionsInv, TypeOK
\* A deletion that is waiting for its turn.
<1> DEFINE Waits(t) == \E i \in DOMAIN deletions : deletions[i] = t
           WaitsNext(t) == \E i \in DOMAIN deletions' : deletions'[i] = t
<1>1. ASSUME NEW t \in Threads, Waits(t)
      PROVE  WaitsNext(t) \/ (TakeDeletion /\ Head(deletions) = t)
  <2>1. PICK i \in DOMAIN deletions : deletions[i] = t
    BY <1>1
  <2>2. CASE deletions' = deletions
    BY <2>1, <2>2
  <2>3. ASSUME NEW u \in Threads, deletions' = Append(deletions, u) PROVE WaitsNext(t)
    <3>1. i \in DOMAIN deletions' /\ deletions'[i] = t
      BY <1>0, <2>1, <2>3
    <3> QED
      BY <3>1
  <2>4. CASE TakeDeletion /\ deletions' = Tail(deletions)
    <3>1. CASE i = 1
      BY <1>0, <2>1, <2>4, <3>1
    <3>2. CASE i # 1
      <4>1. i - 1 \in DOMAIN deletions' /\ deletions'[i - 1] = t
        BY <1>0, <2>1, <2>4, <3>2
      <4> QED
        BY <4>1
    <3> QED
      BY <3>1, <3>2
  <2> QED
    BY <2>2, <2>3, <2>4, DeletionsChange
<1>2. ASSUME NEW t \in Threads, thread'[t].deleted, ~thread[t].deleted PROVE WaitsNext(t)
  <2>1. ASSUME NEW u \in Threads, NEW st \in Statuses, thread' = [thread EXCEPT ![u].status = st]
        PROVE  FALSE
    BY <1>0, <1>2, <2>1
  <2>2. PICK u \in Threads : Delete(u) /\ thread' = [thread EXCEPT ![u].deleted = TRUE]
    BY <1>2, <2>1, ThreadsChange
  <2>3. u = t
    BY <1>0, <1>2, <2>2
  <2>4. deletions' = Append(deletions, t)
    BY <2>2, <2>3 DEF Delete
  <2>5. Len(deletions) + 1 \in DOMAIN deletions' /\ deletions'[Len(deletions) + 1] = t
    BY <1>0, <2>4
  <2> QED
    BY <2>5
<1>3. DeletedThreadsEnd'
  <2> SUFFICES ASSUME NEW t \in Threads, t \notin raced', thread'[t].deleted, ~WaitsNext(t), IsLive(t)'
               PROVE  FALSE
    BY DEF DeletedThreadsEnd
  <2>1. t \notin raced /\ thread[t].deleted
    BY <1>0, <1>2
  <2>2. CASE SessionStarts /\ t = worker.thread
    <3>1. Waits(t)
      BY <1>0, <2>1, <2>2 DEF SessionStarts, Starting, StartsMeetDeletions
    <3>2. deletions' = deletions
      BY <2>2 DEF SessionStarts, StartStep, clients
    <3> QED
      BY <3>1, <3>2
  <2>3. CASE ~(SessionStarts /\ t = worker.thread)
    <3>1. sessions'[t] \in {NoSession, sessions[t]}
      BY <1>0, <2>3, SessionsChange DEF SessionStarts
    <3>2. IsLive(t) /\ sessions'[t] = sessions[t] /\ sessions[t] \in DOMAIN ctx
      BY <1>0, <3>1, SessionTypes DEF IsLive
    <3>3. Waits(t)
      BY <1>0, <2>1, <3>2 DEF StartsMeetDeletions, DeletedThreadsEnd
    <3>4. TakeDeletion /\ Head(deletions) = t
      BY <1>1, <3>3
    <3>5. CanStop(t)
      BY <1>0, <3>2 DEF CanStop, SessionsAreTheirThreads
    <3>6. ctx'[sessions[t]].stopped
      <4> DEFINE d == sessions[t]
      <4>1. ctx' = [ctx EXCEPT ![d].stopped = TRUE]
        BY <3>4, <3>5 DEF TakeDeletion
      <4>2. d \in DOMAIN ctx
        BY <3>2
      <4> HIDE DEF d
      <4> QED
        BY <1>0, <4>1, <4>2, Marks DEF d
    <3> QED
      BY <3>2, <3>6 DEF IsLive
  <2> QED
    BY <2>2, <2>3
<1>4. \A i \in DOMAIN deletions' : thread'[deletions'[i]].deleted
  <2>1. \A i \in DOMAIN deletions : deletions[i] \in Threads /\ thread'[deletions[i]].deleted
    BY <1>0 DEF StartsMeetDeletions
  <2>2. ASSUME NEW t \in Threads, Delete(t), deletions' = Append(deletions, t)
        PROVE  \A i \in DOMAIN deletions' : thread'[deletions'[i]].deleted
    <3>1. thread'[t].deleted
      BY <1>0, <2>2 DEF Delete
    <3>2. \A i \in DOMAIN deletions' : (i \in DOMAIN deletions /\ deletions'[i] = deletions[i]) \/ deletions'[i] = t
      BY <1>0, <2>2
    <3> QED
      BY <2>1, <3>1, <3>2
  <2>3. ASSUME TakeDeletion, deletions' = Tail(deletions)
        PROVE  \A i \in DOMAIN deletions' : thread'[deletions'[i]].deleted
    <3>1. \A i \in DOMAIN deletions' : i + 1 \in DOMAIN deletions /\ deletions'[i] = deletions[i + 1]
      BY <1>0, <2>3 DEF TakeDeletion
    <3> QED
      BY <2>1, <3>1
  <2> QED
    BY <2>1, <2>2, <2>3, DeletionsChange
<1>5. worker'.at \in Starting =>
        LET t == worker'.thread
        IN  ~thread'[t].deleted \/ t \in raced' \/ WaitsNext(t)
  <2> SUFFICES ASSUME worker'.at \in Starting, thread'[worker'.thread].deleted, worker'.thread \notin raced'
               PROVE  WaitsNext(worker'.thread)
    OBVIOUS
  <2> DEFINE t == worker'.thread
  <2>1. t \in Threads
    BY WorkerKeepsType DEF Starting
  <2>2. CASE worker.at \in Starting /\ t = worker.thread
    <3>1. ~thread[t].deleted \/ t \in raced \/ Waits(t)
      BY <1>0, <2>2 DEF StartsMeetDeletions
    <3>2. CASE ~thread[t].deleted
      BY <1>2, <2>1, <3>2
    <3>3. CASE Waits(t)
      <4>1. TakeDeletion /\ Head(deletions) = t => t \in raced'
        BY <2>2 DEF TakeDeletion
      <4> QED
        BY <1>1, <2>1, <3>3, <4>1
    <3> QED
      BY <1>0, <3>1, <3>2, <3>3
  <2>3. CASE ~(worker.at \in Starting /\ t = worker.thread)
    BY <2>3, StartsGoOn
  <2> QED
    BY <2>2, <2>3
<1> QED
  BY <1>3, <1>4, <1>5 DEF StartsMeetDeletions

-----------------------------------------------------------------------------
(* Servers and leases *)

\* A session in use was not given back.
LEMMA UsedIsNotGivenBack ==
    ASSUME Inv, [Next]_vars, NEW s \in DOMAIN ctx, InUse(s), InUse(s)', ctx'[s].thread = ctx[s].thread
    PROVE  ~GivesBack(s)
<1>0. /\ WorkerKnowsItsSession /\ StopsAreMarked /\ ~ctx[s].stopped /\ ctx[s].thread \in Threads
      /\ s # NoSession /\ worker \in Doing(Len(turns), Len(ctx))
  BY SessionTypes DEF Inv, SessionsInv, InUse, TypeOK, Doing
<1>1. ~(s = worker.session /\ (ExistingEnded \/ StopEnds))
  BY <1>0 DEF ExistingEnded, StopEnds, WorkerKnowsItsSession
<1>2. ~(s = deleter /\ DeletionEnds)
  BY <1>0 DEF DeletionEnds, StopsAreMarked
<1>3. ~(\E x \in exits : x.session = s /\ x.callback = NoSession /\ ExitHandled(x))
  BY <1>0 DEF StopsAreMarked
<1>4. ~(s = worker.session /\ (ResumeMisses \/ CreateFails))
  <2> SUFFICES ASSUME s = worker.session, ResumeMisses \/ CreateFails PROVE FALSE
    OBVIOUS
  <2>1. worker.at = "creating" /\ sessions' = sessions
    BY DEF ResumeMisses, CreateFails, adapter
  <2>2. ctx[s].thread = worker.thread /\ sessions[worker.thread] = NoSession
    BY <1>0, <2>1 DEF WorkerKnowsItsSession
  <2>3. worker' = Idle \/ worker' = [worker EXCEPT !.at = "acquiring", !.resume = FALSE]
        \/ \E st : worker' = [worker EXCEPT !.at = "writing", !.outcome = "ended", !.status = st]
    BY DEF ResumeMisses, CreateFails, Failed
  <2>4. Idle.at = "idle"
    BY DEF Idle
  <2>5. worker'.at # "creating"
    BY <1>0, <2>3, <2>4 DEF Doing
  <2> QED
    BY <1>0, <2>1, <2>2, <2>5 DEF InUse
<1> QED
  BY <1>1, <1>2, <1>3, <1>4 DEF GivesBack

\* Nothing but a server leads to the creation of the session.
LEMMA OnlyServersCreate ==
    ASSUME Inv, WorkerStep, worker'.at = "creating"
    PROVE  GetsServer \/ worker' = worker
<1>0. /\ worker \in Doing(Len(turns), Len(ctx)) /\ Idle.at = "idle"
  BY DEF Inv, SessionsInv, TypeOK, Doing, Idle
<1>1. ~TakeCommand
  BY WorkerTakes
<1>2. ~Failed
  <2>1. ASSUME Failed PROVE worker'.at \in {"idle", "writing"}
    <3>1. worker' = Idle \/ \E st : worker' = [worker EXCEPT !.at = "writing", !.outcome = "ended", !.status = st]
      BY <2>1 DEF Failed
    <3> QED
      BY <1>0, <3>1 DEF Doing
  <2> QED
    BY <2>1
<1>3. ~NewStart
  <2>1. NewStart => worker' = [worker EXCEPT !.at = "acquiring", !.session = Len(ctx) + 1]
    BY DEF NewStart
  <2>2. NewStart => worker'.at = "acquiring"
    BY <1>0, <2>1 DEF Doing
  <2> QED
    BY <2>2
<1>4. ASSUME EndExisting \/ ResumeMisses \/ SessionStarts \/ SessionWritten \/ StopEnds
      PROVE  FALSE
  <2>1. \/ worker' = [worker EXCEPT !.at = "stopping", !.session = sessions[worker.thread]]
        \/ worker' = [worker EXCEPT !.at = "acquiring", !.resume = FALSE]
        \/ worker' = [worker EXCEPT !.at = "writing", !.outcome = "sending"]
        \/ worker' = [worker EXCEPT !.at = "writing", !.session = NoSession]
        \/ worker' = Idle
    BY <1>3, <1>4 DEF EndExisting, ResumeMisses, SessionStarts, SessionWritten, StopEnds
  <2> QED
    BY <1>0, <2>1 DEF Doing
<1>5. ASSUME ServerNotSpawned, worker' = [worker EXCEPT !.resume = FALSE] PROVE FALSE
  <2>1. worker.at = "acquiring"
    BY <1>5 DEF ServerNotSpawned
  <2> QED
    BY <1>0, <1>5, <2>1 DEF Doing
<1> QED
  BY <1>1, <1>2, <1>3, <1>4, <1>5
     DEF WorkerStep, StartSession, ExistingEnded, PrepareFails, AcquireServer, SpawnServer,
         ServerSpawned, ServerNotSpawned, CreateFails, GetsServer

LEMMA UsedServersStayStays ==
    ASSUME Inv, [Next]_vars
    PROVE  UsedServersStay'
<1>0. /\ PoolInv /\ UsedServersStay /\ WorkerKnowsItsSession /\ LeasesAreOfStarts /\ SessionsAreTheirThreads
      /\ TypeOK /\ StartsAreAsked
      /\ sessions \in [Threads -> 0 .. Len(ctx)]
      /\ \A s \in DOMAIN ctx : /\ ctx'[s].thread = ctx[s].thread /\ ctx[s].thread \in Threads
                               /\ ctx[s].stopped => ctx'[s].stopped
      /\ NoSession \notin DOMAIN ctx
  BY ContextsStay, SessionTypes DEF Inv, SessionsInv
<1> SUFFICES ASSUME NEW s \in DOMAIN ctx', InUse(s)', server'[ctx'[s].gen].alive
             PROVE  entry' = ctx'[s].gen /\ s \in server'[entry'].holders
  BY DEF UsedServersStay
<1> DEFINE t == ctx[s].thread
\* A start that has just begun has no server.
<1>1. s \in DOMAIN ctx
  <2> SUFFICES ASSUME s \notin DOMAIN ctx PROVE FALSE
    OBVIOUS
  <2>1. ctx \in Seq(Context) /\ ctx' \in Seq(Context')
    BY <1>0, Shapes, ContextsStay
  <2>2. BeginsStart
    BY <2>1, ContextsStay
  <2>3. worker.thread \in Threads
    BY <2>2, SessionTypes DEF BeginsStart
  <2>4. /\ s = Len(ctx) + 1 /\ ctx'[s].thread = worker.thread /\ sessions'[worker.thread] = NoSession
        /\ worker'.at = "acquiring"
    BY <1>0, <2>2, <2>3, Begins DEF BeginsStart
  <2>5. s # NoSession
    BY <2>1, <2>4, SessionsAssumption
  <2> QED
    BY <2>4, <2>5 DEF InUse
<1>2. ~ctx[s].stopped /\ t \in Threads /\ ctx'[s].thread = t /\ s # NoSession
  BY <1>0, <1>1 DEF InUse
<1>3. CASE GetsServer
  <2>1. /\ entry' \in Generations
        /\ worker.at = "acquiring"
        /\ worker.session \in server'[entry'].holders
        /\ entry # 0 => entry' = entry /\ server[entry].holders \subseteq server'[entry].holders
        /\ \A g \in Generations : server'[g].alive => server[g].alive \/ (entry = 0 /\ g = entry')
        /\ ctx'[worker.session].gen = entry'
        /\ s # worker.session => ctx'[s] = ctx[s]
        /\ worker'.session = worker.session /\ sessions' = sessions
    BY <1>1, <1>3, ServerGot
  <2>2. CASE s = worker.session
    BY <2>1, <2>2
  <2>3. CASE s # worker.session
    <3>1. sessions[t] = s /\ ctx'[s].gen = ctx[s].gen
      BY <1>2, <2>1, <2>3 DEF InUse
    <3>2. InUse(s) /\ ctx[s].gen # 0
      BY <1>0, <1>2, <3>1 DEF InUse, SessionsAreTheirThreads
    <3>3. ctx[s].gen \in Generations
      <4>1. ctx[s] \in Context /\ Len(server) \in Nat
        BY <1>0, <1>1, Shapes, EntryType DEF PoolInv
      <4> QED
        BY <3>2, <4>1 DEF Context, Generations
    <3>4. ~(entry = 0 /\ ctx[s].gen = entry')
      <4>1. ASSUME entry = 0 PROVE mutex.by = "spawn" /\ entry' = mutex.gen
        <5>1. ~Reuse(worker.session)
          BY <4>1 DEF Reuse
        <5> QED
          BY <1>3, <5>1 DEF GetsServer, SpawnSucceeds
      <4>2. mutex.by = "spawn" => ctx[s].gen # mutex.gen
        BY <1>0, <1>1 DEF LeasesAreOfStarts
      <4> QED
        BY <4>1, <4>2
    <3>5. server[ctx[s].gen].alive
      BY <2>1, <3>1, <3>3, <3>4
    <3>6. entry = ctx[s].gen /\ s \in server[entry].holders
      BY <1>0, <1>1, <3>2, <3>5 DEF UsedServersStay
    <3> QED
      BY <2>1, <3>1, <3>2, <3>6
  <2> QED
    BY <2>2, <2>3
<1>4. CASE ~GetsServer
  <2>1. ctx'[s].gen = ctx[s].gen
    BY <1>1, <1>4, ContextsStay
  <2>2. InUse(s)
    <3>1. CASE worker'.at = "creating" /\ worker'.session = s
      <4>1. worker' = worker
        BY <1>4, <3>1, OnlyServersCreate, WorkerMoves
      <4> QED
        BY <1>2, <3>1, <4>1 DEF InUse
    <3>2. CASE sessions'[t] = s
      <4>1. CASE SessionStarts /\ worker.thread = t
        <5>1. s = worker.session /\ worker.at = "creating"
          BY <1>0, <1>2, <3>2, <4>1 DEF SessionStarts
        <5> QED
          BY <1>2, <5>1 DEF InUse
      <4>2. CASE ~(SessionStarts /\ worker.thread = t)
        <5>1. sessions'[t] \in {NoSession, sessions[t]}
          BY <1>0, <1>2, <4>2, SessionsChange DEF SessionStarts
        <5> QED
          BY <1>2, <3>2, <5>1 DEF InUse
      <4> QED
        BY <4>1, <4>2
    <3> QED
      BY <1>2, <3>1, <3>2 DEF InUse
  <2>3. ctx[s].gen # 0
    BY <1>0, <1>2, <2>2 DEF InUse, SessionsAreTheirThreads, WorkerKnowsItsSession
  <2>4. ctx[s].gen \in Generations
    <3>1. ctx[s] \in Context /\ Len(server) \in Nat
      BY <1>0, <1>1, Shapes, EntryType DEF PoolInv
    <3> QED
      BY <2>3, <3>1 DEF Context, Generations
  <2>5. server[ctx[s].gen].alive
    BY <1>4, <2>1, <2>4, LeasesShrink
  <2>6. entry = ctx[s].gen /\ s \in server[entry].holders
    BY <1>0, <1>1, <2>2, <2>5 DEF UsedServersStay
  <2>7. ~GivesBack(s)
    BY <1>1, <1>2, <2>2, UsedIsNotGivenBack
  <2>8. entry' = entry /\ s \in server'[entry].holders
    BY <1>4, <2>3, <2>5, <2>6, <2>7, LeasesShrink
  <2> QED
    BY <2>1, <2>6, <2>8
<1> QED
  BY <1>3, <1>4

\* Who will return a lease still will, unless it does.
LEMMA ReturnsStay ==
    ASSUME Inv, [Next]_vars, NEW s \in DOMAIN ctx, Returns(s), ~GivesBack(s), entry # 0
    PROVE  Returns(s)'
<1> DEFINE t == ctx[s].thread
<1>0. /\ StopsAreMarked /\ WorkerKnowsItsSession /\ PoolInv
      /\ sessions \in [Threads -> 0 .. Len(ctx)]
      /\ t \in Threads /\ ctx'[s].thread = t /\ (ctx[s].stopped => ctx'[s].stopped)
      /\ s # NoSession /\ raced \subseteq raced' /\ NoSession = 0
      /\ worker.at # "idle" => worker.thread \in Threads
  BY ContextsStay, SessionTypes, RacedType DEF Inv, SessionsInv
<1>1. ASSUME ctx[s].stopped, worker.at \in {"stopping", "ending"}, worker.session = s PROVE worker' = worker
  <2>1. ~ExistingEnded /\ ~StopEnds
    BY <1>1 DEF GivesBack
  <2>2. TakeCommand => worker.at = "idle"
    BY DEF TakeCommand, TakeTurn, TakeMode, TakeStop, Take
  <2>3. StartSession \/ SessionWritten => ExistingEnded \/ worker.at \notin {"stopping", "ending"}
    BY DEF StartSession, EndExisting, PrepareFails, AcquireServer, SpawnServer, ServerSpawned,
       ServerNotSpawned, ResumeMisses, CreateFails, SessionStarts, SessionWritten
  <2> QED
    BY <1>1, <2>1, <2>2, <2>3, WorkerMoves DEF WorkerStep
<1>2. ASSUME ctx[s].stopped, deleter = s PROVE deleter' = s
  BY <1>0, <1>2, DeleterKeepsType DEF GivesBack, TakeDeletion
<1>3. ASSUME NEW x \in exits, x.session = s PROVE \E y \in exits' : y.session = s
  <2>1. ASSUME NEW y \in exits, ExitHandled(y), exits' = exits \ {y} PROVE x \in exits'
    <3>1. y.callback # NoSession => mutex.by = "teardown"
      BY <2>1 DEF ExitHandled, CallbackEnds
    <3>2. mutex.by # "teardown"
      BY <1>0 DEF PoolInv, WhoIsAlive
    <3>3. y.session # s
      BY <2>1, <3>1, <3>2 DEF GivesBack
    <3> QED
      BY <1>3, <2>1, <3>3
  <2>2. ASSUME NEW u \in Threads, LosesSession(u) PROVE x \in exits'
    BY <2>2 DEF LosesSession, ExitBegins
  <2> QED
    BY <1>3, <2>1, <2>2, ExitsChange
<1>4. CASE ctx[s].stopped
  BY <1>0, <1>1, <1>2, <1>3, <1>4 DEF Returns
<1>5. CASE ~ctx[s].stopped /\ ctx'[s].stopped
  <2>1. Stops(s)
    BY <1>5, WhoStops
  <2> QED
    BY <1>5, <2>1 DEF Stops, Returns
<1>6. CASE ~ctx'[s].stopped
  <2>1. ~ctx[s].stopped
    BY <1>0, <1>6
  <2>2. CASE worker.at = "creating" /\ worker.session = s
    <3>1. t = worker.thread /\ worker.thread \in Threads
      BY <1>0, <2>2 DEF WorkerKnowsItsSession
    <3>2. ~ResumeMisses /\ ~CreateFails
      BY <2>2 DEF GivesBack
    <3>3. WorkerStep => SessionStarts
      BY <2>2, <3>2 DEF WorkerStep, StartSession, EndExisting, ExistingEnded, PrepareFails,
         AcquireServer, SpawnServer, ServerSpawned, ServerNotSpawned, SessionWritten, StopEnds,
         TakeCommand, TakeTurn, TakeMode, TakeStop, Take
    <3>4. SessionStarts => sessions'[t] = s
      BY <1>0, <2>2, <3>1 DEF SessionStarts
    <3> QED
      BY <1>0, <1>6, <2>2, <3>3, <3>4, WorkerMoves DEF Returns
  <2>3. CASE sessions[t] = s
    <3>1. IsLive(t)
      BY <1>0, <2>1, <2>3 DEF IsLive
    <3>2. worker.at \in {"stopping", "ending"} => worker.thread # t
      BY <1>0, <2>1, <2>3 DEF WorkerKnowsItsSession
    <3>3. ASSUME SessionStarts PROVE sessions'[t] = s
      <4>1. worker.thread # t
        BY <1>0, <2>3, <3>3 DEF SessionStarts, WorkerKnowsItsSession
      <4> QED
        BY <1>0, <2>3, <3>3, <4>1 DEF SessionStarts
    <3>4. ~(BeginsStart /\ t = worker.thread)
      BY <3>1, <3>2 DEF BeginsStart
    <3>5. ~(StopEnds /\ t = ctx[worker.session].thread)
      <4>1. StopEnds => ctx[worker.session].thread = worker.thread
        BY <1>0 DEF StopEnds, WorkerKnowsItsSession
      <4> QED
        BY <3>2, <4>1 DEF StopEnds
    <3>6. DeletionEnds /\ t = ctx[deleter].thread => t \in raced
      BY <1>0, <2>1, <2>3 DEF DeletionEnds, StopsAreMarked
    <3>7. ~LosesSession(t)
      <4>1. ASSUME LosesSession(t) PROVE ctx' = [ctx EXCEPT ![s].stopped = TRUE]
        BY <2>3, <4>1 DEF LosesSession, ExitBegins
      <4>2. TypeOK /\ StartsAreAsked
        BY DEF Inv, SessionsInv
      <4> QED
        BY <1>6, <4>1, <4>2, Marks
    <3>8. sessions'[t] = s \/ t \in raced
      BY <1>0, <2>3, <3>3, <3>4, <3>5, <3>6, <3>7, SessionsChange
    <3> QED
      BY <1>0, <1>6, <3>8 DEF Returns
  <2>4. CASE t \in raced
    BY <1>0, <1>6, <2>4 DEF Returns
  <2> QED
    BY <2>1, <2>2, <2>3, <2>4 DEF Returns
<1> QED
  BY <1>4, <1>5, <1>6

\* What is given back is gone.
LEMMA GivenBackIsGone ==
    ASSUME Inv, NEW s \in DOMAIN ctx, GivesBack(s), entry # 0
    PROVE  entry' = entry /\ s \notin server'[entry].holders
<1>1. Released(s) /\ entry' = entry
  BY DEF GivesBack, ExistingEnded, ResumeMisses, CreateFails, StopEnds, DeletionEnds, Ended, Release, ExitHandled
<1>2. s \in Sessions
  BY SessionTypes
<1>3. server'[entry].holders = server[entry].holders \ {s}
  BY <1>1, <1>2, Releases DEF Inv
<1> QED
  BY <1>1, <1>3

LEMMA LeasesAreReturnedStays ==
    ASSUME Inv, [Next]_vars
    PROVE  LeasesAreReturned'
<1>0. LeasesAreReturned /\ LeasesAreOfStarts /\ PoolInv /\ WorkerKnowsItsSession
  BY DEF Inv, SessionsInv
<1> SUFFICES ASSUME entry' # 0, NEW s \in server'[entry'].holders
             PROVE  Returns(s)'
  BY DEF LeasesAreReturned
<1>1. CASE GetsServer
  <2>1. /\ s = worker.session \/ (entry # 0 /\ s \in server[entry].holders)
        /\ worker.session \in DOMAIN ctx
        /\ worker.at = "acquiring" /\ worker'.at = "creating" /\ worker'.session = worker.session
        /\ \A c \in DOMAIN ctx : /\ ctx'[c].thread = ctx[c].thread /\ ctx'[c].stopped = ctx[c].stopped
        /\ sessions' = sessions /\ deleter' = deleter /\ exits' = exits /\ raced' = raced
    BY <1>1, ServerGot DEF clients
  <2>2. CASE s = worker.session
    <3>1. ~ctx[s].stopped
      BY <1>0, <2>1, <2>2 DEF WorkerKnowsItsSession
    <3> QED
      BY <2>1, <2>2, <3>1 DEF Returns
  <2>3. CASE entry # 0 /\ s \in server[entry].holders
    <3>1. Returns(s)
      BY <1>0, <2>3 DEF LeasesAreReturned
    <3>2. s \in DOMAIN ctx
      <4>1. entry \in Generations
        BY <1>0, <2>3, EntryType DEF PoolInv
      <4> QED
        BY <1>0, <2>3, <4>1 DEF LeasesAreOfStarts
    <3> QED
      BY <2>1, <3>1, <3>2 DEF Returns
  <2> QED
    BY <2>1, <2>2, <2>3
<1>2. CASE ~GetsServer
  <2>1. entry' = entry /\ entry # 0
    BY <1>2, LeasesShrink
  <2>2. entry \in Generations
    BY <1>0, <2>1, EntryType DEF PoolInv
  <2>3. s \in server[entry].holders
    BY <1>2, <2>1, <2>2, LeasesShrink
  <2>4. s \in DOMAIN ctx /\ Returns(s)
    BY <1>0, <2>1, <2>2, <2>3 DEF LeasesAreOfStarts, LeasesAreReturned
  <2>5. ~GivesBack(s)
    BY <2>1, <2>4, GivenBackIsGone
  <2> QED
    BY <2>1, <2>4, <2>5, ReturnsStay
<1> QED
  BY <1>1, <1>2

-----------------------------------------------------------------------------
(* What holds of the sessions of a project *)

LEMMA InvInit == Init => Inv
<1> SUFFICES ASSUME Init PROVE Inv
  OBVIOUS
<1>1. PoolInv /\ PoolTypeOK
  BY PoolInvInit DEF Init, PoolInv
<1>2. TypeOK
  <2>1. Idle \in Doing(0, 0)
    BY SessionsAssumption DEF Idle, Doing, Statuses
  <2>2. /\ turns \in Seq(Turn) /\ commands \in Seq(Command) /\ deletions \in Seq(Threads)
        /\ ctx \in Seq(Context) /\ reports \in Seq(Report) /\ Len(turns) = 0 /\ Len(ctx) = 0
    BY DEF Init
  <2>3. /\ thread \in [Threads -> [deleted : BOOLEAN, status : Statuses]]
        /\ requests \in 0 .. MaxRequests
        /\ sessions \in [Threads -> 0 .. Len(ctx)] /\ deleter \in 0 .. Len(ctx)
    BY <2>2, SessionsAssumption DEF Init, Statuses
  <2>4. worker = Idle /\ raced = {} /\ directory = {} /\ exits = {} /\ quiet = {}
    BY DEF Init
  <2> QED
    BY <1>1, <2>1, <2>2, <2>3, <2>4 DEF TypeOK, Doing, Turn, Command, Context, Report
<1>3. /\ server = <<>> /\ entry = 0 /\ mutex.firing = {} /\ mutex.by = "free"
      /\ ctx = <<>> /\ commands = <<>> /\ deletions = <<>> /\ worker.at = "idle" /\ deleter = NoSession
      /\ requests = 0 /\ exits = {} /\ \A t \in Threads : sessions[t] = NoSession /\ ~thread[t].deleted
  BY DEF Init, PoolInit, Free, Idle
<1>4. /\ DOMAIN ctx = {} /\ DOMAIN commands = {} /\ DOMAIN deletions = {} /\ Generations = {}
      /\ Len(ctx) = 0 /\ Len(commands) = 0
  BY <1>3 DEF Generations
<1>5. StartsAreAsked /\ TurnsAreAsked
  BY <1>3, <1>4 DEF StartsAreAsked, TurnsAreAsked, Pending
<1>6. LeasesAreOfStarts /\ SessionsAreTheirThreads /\ LeasesAreReturned /\ UsedServersStay
  BY <1>3, <1>4 DEF LeasesAreOfStarts, SessionsAreTheirThreads, LeasesAreReturned, UsedServersStay, IsLive
<1>7. WorkerKnowsItsSession /\ StopsAreMarked
  BY <1>3 DEF WorkerKnowsItsSession, StopsAreMarked
<1>8. StartsMeetDeletions
  BY <1>3, <1>4 DEF StartsMeetDeletions, DeletedThreadsEnd, IsLive, Starting
<1> QED
  BY <1>1, <1>2, <1>5, <1>6, <1>7, <1>8 DEF Inv, SessionsInv

LEMMA InvNext == Inv /\ [Next]_vars => Inv'
<1> SUFFICES ASSUME Inv, [Next]_vars PROVE Inv'
  OBVIOUS
<1>1. PoolInv'
  BY CallersUsePool, PoolInvNext DEF Inv
<1>2. TypeOK' /\ StartsAreAsked' /\ TurnsAreAsked'
  BY TypesStay, RequestsAreCounted
<1>3. LeasesAreOfStarts' /\ SessionsAreTheirThreads'
  BY LeasesAreOfStartsStays, SessionsAreTheirThreadsStays
<1>4. WorkerKnowsItsSession' /\ StopsAreMarked' /\ StartsMeetDeletions'
  BY WorkerKnowsItsSessionStays, StopsAreMarkedStays, StartsMeetDeletionsStays
<1>5. UsedServersStay' /\ LeasesAreReturned'
  BY UsedServersStayStays, LeasesAreReturnedStays
<1> QED
  BY <1>1, <1>2, <1>3, <1>4, <1>5 DEF Inv, SessionsInv

\* The invariant of every behaviour of the composition.
LEMMA InvAlways == Spec => []Inv
BY InvInit, InvNext, PTL DEF Spec

\* The variables of the composition keep their types.
THEOREM SessionsTypeCorrect == Spec => []TypeOK
<1>1. Inv => TypeOK
  BY DEF Inv, SessionsInv
<1> QED
  BY <1>1, InvAlways, PTL

\* The workers, the crash callbacks, the event pumps and the sweepers together
\* are callers as the pool expects them: who acquires has no lease. What is
\* proved of the pool therefore holds of the composition.
THEOREM SessionsUsePool == Spec => PoolSpec
<1>1. Init => PoolInit
  BY DEF Init
<1> QED
  BY <1>1, CallersUsePool, InvAlways, PTL DEF Spec, PoolSpec

\* A project of the composition never has two server processes, its count is
\* that of its sessions, and it implements the shared server.
THEOREM SessionsShareOneServer == Spec => []CountIsHolders /\ []OneServer /\ ImplementsSharedServer
BY SessionsUsePool, PoolCountIsHolders, PoolOneServer, PoolImplementsSharedServer, PTL

LEMMA UsedServersFollow == Inv => SessionsKeepTheirServer
<1> SUFFICES ASSUME Inv, NEW t \in Threads, IsLive(t), server[ctx[sessions[t]].gen].alive
             PROVE  entry = ctx[sessions[t]].gen /\ sessions[t] \in server[entry].holders
  BY DEF SessionsKeepTheirServer
<1>1. sessions[t] \in DOMAIN ctx /\ ctx[sessions[t]].thread = t
  BY SessionTypes DEF IsLive
<1>2. InUse(sessions[t])
  BY <1>1 DEF InUse, IsLive
<1> QED
  BY <1>1, <1>2 DEF Inv, SessionsInv, UsedServersStay

\* A live session whose server lives has it in the pool, and a lease on it:
\* no sweep, crash, spawn or end of another session takes it away.
THEOREM SessionsKeepServer == Spec => []SessionsKeepTheirServer
BY UsedServersFollow, InvAlways, PTL

LEMMA ReturnsFollow == Inv => LeasesAreUsed
BY DEF Inv, SessionsInv, LeasesAreReturned, Returns, LeasesAreUsed

\* No lease leaks: somebody will return every lease on the pooled server, but
\* for those of threads whose deletion met a start.
THEOREM LeasesDoNotLeak == Spec => []LeasesAreUsed
BY ReturnsFollow, InvAlways, PTL

\* Once the deletion of a thread is handled nothing runs for it, unless the
\* deletion met a start.
THEOREM DeletedThreadsAreEnded == Spec => []DeletedThreadsEnd
<1>1. Inv => DeletedThreadsEnd
  BY DEF Inv, SessionsInv, StartsMeetDeletions
<1> QED
  BY <1>1, InvAlways, PTL

=============================================================================
