----------------------------- MODULE ServerPool -----------------------------
(***************************************************************************)
(* The pool of opencode servers of the agent bridge (server-pool.ts), for  *)
(* one project: its sessions share one server process, counted by          *)
(* references, started for the first of them, stopped by a sweep once it   *)
(* has been idle, and forgotten when it dies.                              *)
(*                                                                         *)
(* Every map of the pool is keyed by the project, so projects do not meet. *)
(* acquire, the exit watcher and each eviction run under the project's     *)
(* mutex; release does not take it. What a session does about a lost       *)
(* server is its callback's matter: here the callback only ends.           *)
(*                                                                         *)
(* The pools of the cursor, grok and zeroclaw adapters have the same shape.*)
(***************************************************************************)
EXTENDS Naturals, Sequences, FiniteSets

CONSTANTS
    Sessions,    \* the pool's session ids, a fresh one for every start
    Sweepers,    \* who sweeps: the reconciler's tick, memory pressure, compaction
    MaxServers,  \* bound on the servers started
    NoSession

ASSUME PoolAssumption == NoSession \notin Sessions /\ MaxServers \in Nat

VARIABLES
    entry,    \* entries.get(project): the generation of the pooled server, or 0
    server,   \* the server of each generation started so far
    mutex,    \* the project's mutex: what its holder is doing
    sweep     \* each sweeper's candidate, a generation or 0

poolVars == <<entry, server, mutex, sweep>>

Generations == 1 .. Len(server)

Free == [by |-> "free", session |-> NoSession, gen |-> 0, firing |-> {}]
\* A server outside the pool: of its record only the process is left.
Closed == [alive |-> FALSE, closed |-> TRUE, refCount |-> 0, holders |-> {}, idle |-> FALSE]
Spawning == [alive |-> FALSE, closed |-> FALSE, refCount |-> 0, holders |-> {}, idle |-> FALSE]

\* The record of server g, used by these sessions.
UsedBy(g, count, users, idle) ==
    [server[g] EXCEPT !.refCount = count, !.holders = users, !.idle = idle]

PoolInit ==
    /\ entry = 0
    /\ server = <<>>
    /\ mutex = Free
    /\ sweep = [w \in Sweepers |-> 0]

-----------------------------------------------------------------------------
(***************************************************************************)
(* acquire and release. Definitions marked "Mutant" are slips of the       *)
(* definition that follows them: no definition uses them, each shows that  *)
(* some property notices the slip.                                         *)
(***************************************************************************)
\* A pooled server is used again, dead or not, and is no longer idle.
Reuse(s) ==
    /\ mutex = Free
    /\ entry # 0
    /\ server' = [server EXCEPT ![entry] =
                    UsedBy(entry, server[entry].refCount + 1, server[entry].holders \cup {s}, FALSE)]
    /\ UNCHANGED <<entry, mutex, sweep>>

\* Without one a new generation is spawned, under the mutex.
Spawn(s) ==
    /\ mutex = Free
    /\ entry = 0
    /\ server' = Append(server, Spawning)
    /\ mutex' = [Free EXCEPT !.by = "spawn", !.session = s, !.gen = Len(server')]
    /\ UNCHANGED <<entry, sweep>>

SpawnSucceeds(s) ==
    /\ mutex.by = "spawn" /\ mutex.session = s
    /\ entry' = mutex.gen
    /\ server' = [server EXCEPT ![mutex.gen] =
                    [Spawning EXCEPT !.alive = TRUE, !.refCount = 1, !.holders = {s}]]
    /\ mutex' = Free
    /\ UNCHANGED sweep

SpawnFails(s) ==
    /\ mutex.by = "spawn" /\ mutex.session = s
    /\ Len(server) < MaxServers
    /\ server' = [server EXCEPT ![mutex.gen] = Closed]
    /\ mutex' = Free
    /\ UNCHANGED <<entry, sweep>>

\* Mutant: the count drops for a session the entry does not know.
Released_Uncounted(s) ==
    LET left == IF server[entry].refCount > 0 THEN server[entry].refCount - 1 ELSE 0
    IN  server' = IF entry = 0 THEN server
                  ELSE [server EXCEPT ![entry] =
                          UsedBy(entry, left, server[entry].holders \ {s},
                                 server[entry].idle \/ left = 0)]

\* Mutant: the count drops below nothing.
Released_Unfloored(s) ==
    LET left == server[entry].refCount - 1
    IN  server' = IF entry = 0 THEN server
                  ELSE [server EXCEPT ![entry] =
                          UsedBy(entry, left, server[entry].holders \ {s},
                                 server[entry].idle \/ left = 0)]

\* Mutant: release takes the project's mutex.
Released_Locked(s) ==
    LET had == s \in server[entry].holders /\ server[entry].refCount > 0
        left == server[entry].refCount - (IF had THEN 1 ELSE 0)
    IN  /\ mutex = Free
        /\ server' = IF entry = 0 THEN server
                     ELSE [server EXCEPT ![entry] =
                             UsedBy(entry, left, server[entry].holders \ {s},
                                    server[entry].idle \/ left = 0)]

\* The pooled server forgets the session, if it knows it; a server of a later
\* generation than the session's does not change. The mutex is not taken: a
\* crash callback that releases would wait for its own caller.
Released(s) ==
    LET had == s \in server[entry].holders /\ server[entry].refCount > 0
        left == server[entry].refCount - (IF had THEN 1 ELSE 0)
    IN  server' = IF entry = 0 THEN server
                  ELSE [server EXCEPT ![entry] =
                          UsedBy(entry, left, server[entry].holders \ {s},
                                 server[entry].idle \/ left = 0)]

Release(s) == Released(s) /\ UNCHANGED <<entry, mutex, sweep>>

-----------------------------------------------------------------------------
(***************************************************************************)
(* A server is torn down: its entry leaves the map, the callbacks of its   *)
(* sessions run, and then its scope is closed, which kills the process.    *)
(***************************************************************************)
\* Mutant: the entry is left in the map while the callbacks run.
TearDown_KeepsEntry(g) ==
    /\ entry' = entry
    /\ server' = [server EXCEPT ![g] = [Closed EXCEPT !.alive = server[g].alive]]
    /\ mutex' = [Free EXCEPT !.by = "teardown", !.gen = g, !.firing = server[g].holders]

TearDown(g) ==
    /\ entry' = IF entry = g THEN 0 ELSE entry
    /\ server' = [server EXCEPT ![g] = [Closed EXCEPT !.alive = server[g].alive]]
    /\ mutex' = [Free EXCEPT !.by = "teardown", !.gen = g, !.firing = server[g].holders]

CallbackEnds(s) ==
    /\ mutex.by = "teardown" /\ s \in mutex.firing
    /\ mutex' = [mutex EXCEPT !.firing = @ \ {s}]

TornDown ==
    /\ mutex.by = "teardown" /\ mutex.firing = {}
    /\ server' = [server EXCEPT ![mutex.gen].alive = FALSE]
    /\ mutex' = Free
    /\ UNCHANGED <<entry, sweep>>

\* The process exits; the code hears of it through its exit code.
ServerExits(g) ==
    /\ g \in Generations /\ g < MaxServers
    /\ server[g].alive
    /\ server' = [server EXCEPT ![g].alive = FALSE]
    /\ UNCHANGED <<entry, mutex, sweep>>

\* The exit watcher, once it has the mutex.
CrashNoticed(g) ==
    /\ g \in Generations
    /\ entry = g /\ ~server[g].alive
    /\ mutex = Free
    /\ TearDown(g)
    /\ UNCHANGED sweep

-----------------------------------------------------------------------------
(***************************************************************************)
(* sweepIdle: the candidate is chosen without the mutex.                   *)
(***************************************************************************)
IsIdle(g) == server[g].refCount = 0 /\ server[g].idle

SweepBegins(w) ==
    /\ sweep[w] = 0
    /\ entry # 0 /\ entry < MaxServers /\ IsIdle(entry)
    /\ sweep' = [sweep EXCEPT ![w] = entry]
    /\ UNCHANGED <<entry, server, mutex>>

\* Mutant: the candidate is not looked at again under the mutex.
SweepEvicts_Unchecked(w) ==
    /\ sweep[w] # 0 /\ mutex = Free
    /\ entry = sweep[w]
    /\ TearDown(entry)
    /\ sweep' = [sweep EXCEPT ![w] = 0]

\* Mutant: the mutex is left before the process is gone.
SweepEvicts_Unlocked(w) ==
    /\ sweep[w] # 0 /\ mutex = Free
    /\ entry = sweep[w] /\ IsIdle(entry)
    /\ entry' = 0
    /\ server' = [server EXCEPT ![entry].closed = TRUE]
    /\ sweep' = [sweep EXCEPT ![w] = 0]
    /\ UNCHANGED mutex

SweepEvicts(w) ==
    /\ sweep[w] # 0 /\ mutex = Free
    /\ entry = sweep[w] /\ IsIdle(entry)
    /\ TearDown(entry)
    /\ sweep' = [sweep EXCEPT ![w] = 0]

\* The candidate is in use or gone, or has been idle again for too short a time.
SweepRetains(w) ==
    /\ sweep[w] # 0 /\ mutex = Free
    /\ sweep' = [sweep EXCEPT ![w] = 0]
    /\ UNCHANGED <<entry, server, mutex>>

-----------------------------------------------------------------------------
Acquire(s) == Reuse(s) \/ Spawn(s) \/ SpawnSucceeds(s) \/ SpawnFails(s)

Sweep(w) == SweepBegins(w) \/ SweepEvicts(w) \/ SweepRetains(w)

\* What the pool does, for any callers: a session that has no lease acquires.
PoolNext ==
    \/ \E s \in Sessions :
         \/ (\A g \in Generations : s \notin server[g].holders) /\ Acquire(s)
         \/ Release(s)
         \/ CallbackEnds(s) /\ UNCHANGED <<entry, server, sweep>>
    \/ TornDown
    \/ \E g \in Generations : ServerExits(g) \/ CrashNoticed(g)
    \/ \E w \in Sweepers : Sweep(w)

PoolSpec == PoolInit /\ [][PoolNext]_poolVars

-----------------------------------------------------------------------------
Server == [alive : BOOLEAN, closed : BOOLEAN, refCount : Nat, holders : SUBSET Sessions,
           idle : BOOLEAN]

PoolTypeOK ==
    /\ server \in Seq(Server)
    /\ entry \in 0 .. Len(server)
    /\ mutex \in [by : {"free", "spawn", "teardown"}, session : Sessions \cup {NoSession},
                  gen : 0 .. Len(server), firing : SUBSET Sessions]
    /\ mutex.by # "free" => mutex.gen # 0
    /\ mutex.by = "spawn" => mutex.session \in Sessions
    /\ mutex.by = "free" => mutex = Free
    /\ sweep \in [Sweepers -> 0 .. Len(server)]

(***************************************************************************)
(* The reference count of the pooled server is the number of its sessions: *)
(* a late release of a session of a dead generation, a release made twice  *)
(* and a rollback never make a used server look idle, nor an unused one    *)
(* look used for ever.                                                     *)
(***************************************************************************)
CountIsHolders ==
    entry # 0 => /\ IsFiniteSet(server[entry].holders)
                 /\ server[entry].refCount = Cardinality(server[entry].holders)

(***************************************************************************)
(* A project never has two server processes: a new one is spawned only     *)
(* when the one before it is gone, evicted, crashed or not.                *)
(***************************************************************************)
OneServer == \A g, h \in Generations : server[g].alive /\ server[h].alive => g = h

ServerState == IF entry = 0 THEN "down" ELSE IF server[entry].alive THEN "up" ELSE "failed"

Leases == IF entry = 0 THEN {} ELSE server[entry].holders

Shared == INSTANCE SharedServer WITH server <- ServerState, leases <- Leases

(***************************************************************************)
(* The pool implements the abstract shared server: a lease ends when its   *)
(* session returns it or its server has died, never by a sweep, a spawn or *)
(* the end of another session.                                             *)
(***************************************************************************)
ImplementsSharedServer == Shared!Spec
=============================================================================
