-------------------------- MODULE ServerPoolProofs --------------------------
(***************************************************************************)
(* What the server pool guarantees for any callers, any number of sessions *)
(* and sweepers and any bound on the servers. The inductive invariant says *)
(* where a live process may be: in the pooled entry, or under the mutex,   *)
(* about to be closed; and that while the mutex is held there is no entry. *)
(* That the count is the number of holders makes an idle server an unused  *)
(* one, which is what an eviction needs.                                   *)
(***************************************************************************)
EXTENDS ServerPool, FiniteSetTheorems, TLAPS

WhoIsAlive ==
    /\ mutex.by # "free" => entry = 0
    /\ \A g \in Generations :
         server[g].alive => g = entry \/ (mutex.by = "teardown" /\ g = mutex.gen)

PoolInv == PoolTypeOK /\ CountIsHolders /\ WhoIsAlive

-----------------------------------------------------------------------------
(* Records of servers and of the mutex *)

\* A server's record is replaced.
LEMMA ServerUpdate ==
    ASSUME server \in Seq(Server), NEW g \in Generations, NEW r \in Server,
           server' = [server EXCEPT ![g] = r]
    PROVE  /\ server' \in Seq(Server)
           /\ Len(server') = Len(server)
           /\ server'[g] = r
           /\ \A h \in Generations \ {g} : server'[h] = server[h]
BY DEF Generations

\* A server's users change.
LEMMA UsersUpdate ==
    ASSUME NEW g \in Generations, server[g] \in Server,
           NEW n \in Nat, NEW H \in SUBSET Sessions, NEW i \in BOOLEAN
    PROVE  /\ UsedBy(g, n, H, i) \in Server
           /\ UsedBy(g, n, H, i).alive = server[g].alive
           /\ UsedBy(g, n, H, i).refCount = n
           /\ UsedBy(g, n, H, i).holders = H
BY DEF Server, UsedBy

LEMMA RecordTypes ==
    /\ Closed \in Server /\ Spawning \in Server
    /\ \A a \in BOOLEAN : [Closed EXCEPT !.alive = a] \in Server
    /\ Free.by = "free" /\ Free.gen = 0
BY DEF Closed, Spawning, Server, Free

\* The pooled generation has a record.
LEMMA EntryType ==
    ASSUME PoolTypeOK
    PROVE  /\ Len(server) \in Nat
           /\ \A g \in Generations : server[g] \in Server
           /\ entry # 0 => entry \in Generations
           /\ mutex.by # "free" => mutex.gen \in Generations
BY DEF PoolTypeOK, Generations

LEMMA PoolInvInit == PoolInit => PoolInv
<1> SUFFICES ASSUME PoolInit PROVE PoolInv
  OBVIOUS
<1>1. PoolTypeOK
  BY DEF PoolInit, PoolTypeOK, Free
<1>2. CountIsHolders /\ WhoIsAlive
  BY DEF PoolInit, CountIsHolders, WhoIsAlive, Generations, Free
<1> QED
  BY <1>1, <1>2 DEF PoolInv

-----------------------------------------------------------------------------
(* acquire and release *)

LEMMA ReuseKeepsInv ==
    ASSUME PoolInv, NEW s \in Sessions, Reuse(s), \A g \in Generations : s \notin server[g].holders
    PROVE  PoolInv'
<1> DEFINE n == server[entry].refCount + 1
           H == server[entry].holders \cup {s}
           new == UsedBy(entry, n, H, FALSE)
<1>1. entry \in Generations /\ server[entry] \in Server /\ server \in Seq(Server)
  BY EntryType DEF PoolInv, Reuse, PoolTypeOK
<1>2. n \in Nat /\ H \in SUBSET Sessions
  BY <1>1 DEF Server
<1>3. server' = [server EXCEPT ![entry] = new]
  BY DEF Reuse
<1> HIDE DEF n, H
<1>4. new \in Server /\ new.alive = server[entry].alive /\ new.refCount = n /\ new.holders = H
  BY <1>1, <1>2, UsersUpdate
<1> HIDE DEF new
<1>8. /\ server' \in Seq(Server) /\ Len(server') = Len(server)
      /\ server'[entry] = new /\ \A h \in Generations \ {entry} : server'[h] = server[h]
  BY <1>1, <1>4, <1>3, ServerUpdate
<1>5. PoolTypeOK'
  BY <1>8 DEF Reuse, PoolInv, PoolTypeOK
<1>6. CountIsHolders'
  <2>1. IsFiniteSet(server[entry].holders) /\ s \notin server[entry].holders
        /\ server[entry].refCount = Cardinality(server[entry].holders)
    BY <1>1 DEF PoolInv, CountIsHolders, Reuse
  <2>2. IsFiniteSet(H) /\ Cardinality(H) = n
    BY <2>1, FS_AddElement DEF n, H
  <2>3. server'[entry'] = new
    BY <1>8 DEF Reuse
  <2> QED
    BY <1>4, <2>2, <2>3 DEF CountIsHolders
<1>7. WhoIsAlive'
  BY <1>4, <1>8 DEF Reuse, PoolInv, WhoIsAlive, Generations
<1> QED
  BY <1>5, <1>6, <1>7 DEF PoolInv

LEMMA SpawnKeepsInv ==
    ASSUME PoolInv, NEW s \in Sessions, Spawn(s)
    PROVE  PoolInv'
<1>1. server \in Seq(Server) /\ Spawning \in Server /\ server' = Append(server, Spawning)
  BY RecordTypes DEF PoolInv, PoolTypeOK, Spawn
<1>2. server' \in Seq(Server) /\ Len(server') = Len(server) + 1 /\ Len(server) \in Nat
      /\ (\A g \in Generations : server'[g] = server[g]) /\ server'[Len(server')] = Spawning
  BY <1>1 DEF Generations
<1>3. mutex' = [by |-> "spawn", session |-> s, gen |-> Len(server'), firing |-> {}]
  BY DEF Spawn, Free
<1>4. PoolTypeOK'
  <2>1. sweep' \in [Sweepers -> 0 .. Len(server')]
    BY <1>2 DEF Spawn, PoolInv, PoolTypeOK
  <2>2. entry' \in 0 .. Len(server')
    BY <1>2 DEF Spawn
  <2> QED
    BY <1>2, <1>3, <2>1, <2>2 DEF PoolTypeOK
<1>5. CountIsHolders'
  BY DEF Spawn, CountIsHolders
<1>6. WhoIsAlive'
  <2>1. \A g \in Generations : ~server[g].alive
    BY EntryType DEF PoolInv, WhoIsAlive, Spawn, Generations, Free
  <2>2. ~Spawning.alive
    BY DEF Spawning
  <2>3. \A g \in Generations' : ~server'[g].alive
    BY <1>2, <2>1, <2>2 DEF Generations
  <2> QED
    BY <1>3, <2>3 DEF Spawn, WhoIsAlive
<1> QED
  BY <1>4, <1>5, <1>6 DEF PoolInv

\* No process lives while one is being spawned.
LEMMA NobodyLives ==
    ASSUME PoolInv, mutex.by = "spawn"
    PROVE  \A g \in Generations : ~server[g].alive
BY EntryType DEF PoolInv, WhoIsAlive, Generations

LEMMA SpawnSucceedsKeepsInv ==
    ASSUME PoolInv, NEW s \in Sessions, SpawnSucceeds(s)
    PROVE  PoolInv'
<1> DEFINE new == [Spawning EXCEPT !.alive = TRUE, !.refCount = 1, !.holders = {s}]
<1>1. mutex.gen \in Generations /\ server \in Seq(Server)
  BY EntryType DEF PoolInv, PoolTypeOK, SpawnSucceeds
<1>2. new \in Server /\ new.refCount = 1 /\ new.holders = {s}
  BY DEF Spawning, Server
<1>3. server' = [server EXCEPT ![mutex.gen] = new]
  BY DEF SpawnSucceeds
<1> HIDE DEF new
<1>4. /\ server' \in Seq(Server) /\ Len(server') = Len(server)
      /\ server'[mutex.gen] = new
      /\ \A h \in Generations \ {mutex.gen} : server'[h] = server[h]
  BY <1>1, <1>2, <1>3, ServerUpdate
<1>5. entry' = mutex.gen /\ mutex' = Free /\ sweep' = sweep
  BY DEF SpawnSucceeds
<1>6. PoolTypeOK'
  <2>1. mutex.gen \in 0 .. Len(server) /\ sweep \in [Sweepers -> 0 .. Len(server)]
    BY DEF PoolInv, PoolTypeOK
  <2>2. Free \in [by : {"free", "spawn", "teardown"}, session : Sessions \cup {NoSession},
                  gen : 0 .. Len(server), firing : SUBSET Sessions]
    BY <1>1 DEF Free, Generations
  <2> QED
    BY <1>4, <1>5, <2>1, <2>2, RecordTypes DEF PoolTypeOK
<1>7. CountIsHolders'
  <2>1. IsFiniteSet({s}) /\ Cardinality({s}) = 1
    BY FS_Singleton
  <2>2. server'[entry'] = new
    BY <1>4, <1>5
  <2> QED
    BY <1>2, <2>1, <2>2 DEF CountIsHolders
<1>8. WhoIsAlive'
  <2>1. \A g \in Generations : ~server[g].alive
    BY NobodyLives DEF SpawnSucceeds
  <2> QED
    BY <1>4, <1>5, <2>1, RecordTypes DEF WhoIsAlive, Generations
<1> QED
  BY <1>6, <1>7, <1>8 DEF PoolInv

LEMMA SpawnFailsKeepsInv ==
    ASSUME PoolInv, NEW s \in Sessions, SpawnFails(s)
    PROVE  PoolInv'
<1>1. mutex.gen \in Generations /\ server \in Seq(Server) /\ entry = 0
  BY EntryType DEF PoolInv, PoolTypeOK, SpawnFails, WhoIsAlive
<1>2. Closed \in Server /\ ~Closed.alive
  BY RecordTypes DEF Closed
<1>3. server' = [server EXCEPT ![mutex.gen] = Closed]
  BY DEF SpawnFails
<1>4. /\ server' \in Seq(Server) /\ Len(server') = Len(server)
      /\ server'[mutex.gen] = Closed
      /\ \A h \in Generations \ {mutex.gen} : server'[h] = server[h]
  BY <1>1, <1>2, <1>3, ServerUpdate
<1>5. entry' = 0 /\ mutex' = Free /\ sweep' = sweep
  BY <1>1 DEF SpawnFails
<1>6. PoolTypeOK'
  <2>2. Free \in [by : {"free", "spawn", "teardown"}, session : Sessions \cup {NoSession},
                  gen : 0 .. Len(server), firing : SUBSET Sessions]
    BY <1>1 DEF Free, Generations
  <2> QED
    BY <1>1, <1>4, <1>5, <2>2, RecordTypes DEF PoolInv, PoolTypeOK
<1>7. CountIsHolders'
  BY <1>5 DEF CountIsHolders
<1>8. WhoIsAlive'
  <2>1. \A g \in Generations : ~server[g].alive
    BY NobodyLives DEF SpawnFails
  <2> QED
    BY <1>2, <1>4, <1>5, <2>1, RecordTypes DEF WhoIsAlive, Generations
<1> QED
  BY <1>6, <1>7, <1>8 DEF PoolInv

LEMMA ReleaseKeepsInv ==
    ASSUME PoolInv, NEW s \in Sessions, Release(s)
    PROVE  PoolInv'
<1>1. CASE entry = 0
  BY <1>1 DEF Release, Released, PoolInv, PoolTypeOK, CountIsHolders, WhoIsAlive, Generations
<1>2. CASE entry # 0
  <2> DEFINE had == s \in server[entry].holders /\ server[entry].refCount > 0
             n == server[entry].refCount - (IF had THEN 1 ELSE 0)
             H == server[entry].holders \ {s}
             i == server[entry].idle \/ n = 0
             new == UsedBy(entry, n, H, i)
  <2>1. entry \in Generations /\ server[entry] \in Server /\ server \in Seq(Server)
    BY <1>2, EntryType DEF PoolInv, PoolTypeOK
  <2>2. n \in Nat /\ H \in SUBSET Sessions
    BY <2>1 DEF Server
  <2>3. i \in BOOLEAN
    BY Zenon
  <2>4. server' = [server EXCEPT ![entry] = new]
    BY <1>2 DEF Release, Released
  <2>5. IsFiniteSet(H) /\ Cardinality(H) = n
    <3>1. IsFiniteSet(server[entry].holders)
          /\ server[entry].refCount = Cardinality(server[entry].holders)
      BY <1>2 DEF PoolInv, CountIsHolders
    <3>2. s \in server[entry].holders => server[entry].refCount > 0
      BY <2>1, <3>1, FS_EmptySet, FS_CardinalityType DEF Server
    <3>3. CASE s \in server[entry].holders
      <4>1. IsFiniteSet(H) /\ Cardinality(H) = Cardinality(server[entry].holders) - 1
        BY <3>1, <3>3, FS_RemoveElement
      <4> QED
        BY <3>1, <3>2, <3>3, <4>1
    <3>4. CASE s \notin server[entry].holders
      <4>1. H = server[entry].holders
        BY <3>4
      <4>2. n = server[entry].refCount
        BY <2>1, <3>4 DEF Server
      <4> QED
        BY <3>1, <4>1, <4>2
    <3> QED
      BY <3>3, <3>4
  <2> HIDE DEF had, n, H, i
  <2>6. new \in Server /\ new.alive = server[entry].alive /\ new.refCount = n /\ new.holders = H
    BY <2>1, <2>2, <2>3, UsersUpdate
  <2> HIDE DEF new
  <2>7. /\ server' \in Seq(Server) /\ Len(server') = Len(server)
        /\ server'[entry] = new /\ \A h \in Generations \ {entry} : server'[h] = server[h]
    BY <2>1, <2>4, <2>6, ServerUpdate
  <2>8. PoolTypeOK'
    BY <2>7 DEF Release, PoolInv, PoolTypeOK
  <2>9. CountIsHolders'
    BY <2>5, <2>6, <2>7 DEF Release, CountIsHolders
  <2>10. WhoIsAlive'
    BY <2>6, <2>7 DEF Release, PoolInv, WhoIsAlive, Generations
  <2> QED
    BY <2>8, <2>9, <2>10 DEF PoolInv
<1> QED
  BY <1>1, <1>2

-----------------------------------------------------------------------------
(* The end of a server *)

LEMMA CallbackEndsKeepsInv ==
    ASSUME PoolInv, NEW s, CallbackEnds(s), UNCHANGED <<entry, server, sweep>>
    PROVE  PoolInv'
<1>1. /\ mutex \in [by : {"free", "spawn", "teardown"}, session : Sessions \cup {NoSession},
                    gen : 0 .. Len(server), firing : SUBSET Sessions]
      /\ mutex.by = "teardown" /\ mutex.gen # 0
      /\ mutex' = [mutex EXCEPT !.firing = mutex.firing \ {s}]
  BY DEF PoolInv, PoolTypeOK, CallbackEnds
<1>2. /\ mutex' \in [by : {"free", "spawn", "teardown"}, session : Sessions \cup {NoSession},
                     gen : 0 .. Len(server), firing : SUBSET Sessions]
      /\ mutex'.by = "teardown" /\ mutex'.gen = mutex.gen
  BY <1>1
<1>3. PoolTypeOK'
  BY <1>1, <1>2 DEF PoolInv, PoolTypeOK
<1>4. CountIsHolders' /\ WhoIsAlive'
  BY <1>1, <1>2 DEF PoolInv, CountIsHolders, WhoIsAlive, Generations
<1> QED
  BY <1>3, <1>4 DEF PoolInv

\* The process of a generation is gone.
LEMMA Dies ==
    ASSUME PoolTypeOK, NEW g \in Generations, server' = [server EXCEPT ![g].alive = FALSE]
    PROVE  /\ server' \in Seq(Server) /\ Len(server') = Len(server)
           /\ ~server'[g].alive
           /\ server'[g].refCount = server[g].refCount /\ server'[g].holders = server[g].holders
           /\ \A h \in Generations \ {g} : server'[h] = server[h]
<1> DEFINE dead == [server[g] EXCEPT !.alive = FALSE]
<1>1. server \in Seq(Server) /\ server[g] \in Server
  BY EntryType DEF PoolTypeOK
<1>2. dead \in Server /\ ~dead.alive
      /\ dead.refCount = server[g].refCount /\ dead.holders = server[g].holders
  BY <1>1 DEF Server
<1>3. server' = [server EXCEPT ![g] = dead]
  OBVIOUS
<1> HIDE DEF dead
<1> QED
  BY <1>1, <1>2, <1>3, ServerUpdate

LEMMA TornDownKeepsInv ==
    ASSUME PoolInv, TornDown
    PROVE  PoolInv'
<1>1. mutex.gen \in Generations /\ entry = 0 /\ PoolTypeOK
  BY EntryType DEF PoolInv, TornDown, WhoIsAlive
<1>2. /\ server' \in Seq(Server) /\ Len(server') = Len(server)
      /\ ~server'[mutex.gen].alive
      /\ \A h \in Generations \ {mutex.gen} : server'[h] = server[h]
  BY <1>1, Dies DEF TornDown
<1>3. entry' = 0 /\ mutex' = Free /\ sweep' = sweep
  BY <1>1 DEF TornDown
<1>4. PoolTypeOK'
  <2>1. Free \in [by : {"free", "spawn", "teardown"}, session : Sessions \cup {NoSession},
                  gen : 0 .. Len(server), firing : SUBSET Sessions]
    BY <1>1 DEF Free, Generations
  <2> QED
    BY <1>1, <1>2, <1>3, <2>1, RecordTypes DEF PoolTypeOK
<1>5. CountIsHolders'
  BY <1>3 DEF CountIsHolders
<1>6. WhoIsAlive'
  BY <1>1, <1>2, <1>3, RecordTypes DEF PoolInv, WhoIsAlive, Generations
<1> QED
  BY <1>4, <1>5, <1>6 DEF PoolInv

LEMMA ServerExitsKeepsInv ==
    ASSUME PoolInv, NEW g \in Generations, ServerExits(g)
    PROVE  PoolInv'
<1>1. /\ server' \in Seq(Server) /\ Len(server') = Len(server) /\ ~server'[g].alive
      /\ server'[g].refCount = server[g].refCount /\ server'[g].holders = server[g].holders
      /\ \A h \in Generations \ {g} : server'[h] = server[h]
  BY Dies DEF PoolInv, ServerExits
<1>2. entry' = entry /\ mutex' = mutex /\ sweep' = sweep
  BY DEF ServerExits
<1>3. PoolTypeOK'
  BY <1>1, <1>2 DEF PoolInv, PoolTypeOK
<1>4. CountIsHolders'
  BY <1>1, <1>2, EntryType DEF PoolInv, CountIsHolders
<1>5. WhoIsAlive'
  BY <1>1, <1>2 DEF PoolInv, WhoIsAlive, Generations
<1> QED
  BY <1>3, <1>4, <1>5 DEF PoolInv

LEMMA TearDownKeepsInv ==
    ASSUME PoolInv, entry # 0, TearDown(entry),
           sweep' \in [Sweepers -> 0 .. Len(server)]
    PROVE  PoolInv'
<1> DEFINE closed == [Closed EXCEPT !.alive = server[entry].alive]
<1>1. entry \in Generations /\ server[entry] \in Server /\ server \in Seq(Server)
  BY EntryType DEF PoolInv, PoolTypeOK
<1>2. closed \in Server
  <2>1. server[entry].alive \in BOOLEAN
    BY <1>1 DEF Server
  <2> QED
    BY <2>1, RecordTypes, Zenon
<1>3. server' = [server EXCEPT ![entry] = closed]
  BY DEF TearDown
<1> HIDE DEF closed
<1>4. /\ server' \in Seq(Server) /\ Len(server') = Len(server)
      /\ \A h \in Generations \ {entry} : server'[h] = server[h]
  BY <1>1, <1>2, <1>3, ServerUpdate
<1>5. /\ mutex' = [by |-> "teardown", session |-> NoSession, gen |-> entry,
                   firing |-> server[entry].holders]
      /\ entry' = 0
  BY DEF TearDown, Free
<1>6. server[entry].holders \in SUBSET Sessions
  BY <1>1 DEF Server
<1>7. PoolTypeOK'
  BY <1>1, <1>4, <1>5, <1>6 DEF PoolTypeOK, Generations
<1>8. CountIsHolders'
  BY <1>5 DEF CountIsHolders
<1>9. WhoIsAlive'
  <2>1. \A h \in Generations : h # entry => ~server[h].alive
    BY <1>1 DEF PoolInv, WhoIsAlive, Generations
  <2> QED
    BY <1>4, <1>5, <2>1 DEF WhoIsAlive, Generations
<1> QED
  BY <1>7, <1>8, <1>9 DEF PoolInv

\* A sweeper has chosen, or is done.
LEMMA SweepType ==
    ASSUME PoolTypeOK, NEW w \in Sweepers, NEW g \in 0 .. Len(server),
           sweep' = [sweep EXCEPT ![w] = g]
    PROVE  sweep' \in [Sweepers -> 0 .. Len(server)]
BY DEF PoolTypeOK

LEMMA SweepKeepsInv ==
    ASSUME PoolInv, NEW w \in Sweepers, Sweep(w)
    PROVE  PoolInv'
<1>1. Len(server) \in Nat /\ 0 \in 0 .. Len(server) /\ entry \in 0 .. Len(server)
  BY DEF PoolInv, PoolTypeOK
<1>2. sweep' \in [Sweepers -> 0 .. Len(server)]
  BY <1>1, SweepType DEF PoolInv, Sweep, SweepBegins, SweepEvicts, SweepRetains
<1>3. CASE SweepEvicts(w)
  BY <1>2, <1>3, TearDownKeepsInv DEF SweepEvicts
<1>4. CASE SweepBegins(w) \/ SweepRetains(w)
  <2>1. UNCHANGED <<entry, server, mutex>>
    BY <1>4 DEF SweepBegins, SweepRetains
  <2> QED
    BY <1>2, <2>1 DEF PoolInv, PoolTypeOK, CountIsHolders, WhoIsAlive, Generations
<1> QED
  BY <1>3, <1>4 DEF Sweep

LEMMA PoolInvNext ==
    ASSUME PoolInv, [PoolNext]_poolVars
    PROVE  PoolInv'
<1>1. ASSUME NEW s \in Sessions,
             (\A g \in Generations : s \notin server[g].holders) /\ Acquire(s)
      PROVE  PoolInv'
  BY <1>1, ReuseKeepsInv, SpawnKeepsInv, SpawnSucceedsKeepsInv, SpawnFailsKeepsInv DEF Acquire
<1>2. ASSUME NEW g \in Generations, CrashNoticed(g)
      PROVE  PoolInv'
  <2>1. g # 0 /\ entry = g /\ sweep' = sweep
    BY <1>2 DEF CrashNoticed, Generations
  <2>2. sweep \in [Sweepers -> 0 .. Len(server)]
    BY DEF PoolInv, PoolTypeOK
  <2> QED
    BY <1>2, <2>1, <2>2, TearDownKeepsInv DEF CrashNoticed
<1>3. CASE UNCHANGED poolVars
  BY <1>3 DEF poolVars, PoolInv, PoolTypeOK, CountIsHolders, WhoIsAlive, Generations
<1> QED
  BY <1>1, <1>2, <1>3, ReleaseKeepsInv, CallbackEndsKeepsInv, TornDownKeepsInv,
     ServerExitsKeepsInv, SweepKeepsInv DEF PoolNext

\* The invariant of every behaviour of the pool.
LEMMA PoolInvAlways == PoolSpec => []PoolInv
BY PoolInvInit, PoolInvNext, PTL DEF PoolSpec

-----------------------------------------------------------------------------
(* What callers may rely on *)

\* The variables of the pool keep their types.
THEOREM PoolTypeCorrect == PoolSpec => []PoolTypeOK
<1>1. PoolInv => PoolTypeOK
  BY DEF PoolInv
<1> QED
  BY <1>1, PoolInvAlways, PTL

\* The count of the pooled server is the number of its sessions, whatever
\* late, repeated or foreign releases it meets.
THEOREM PoolCountIsHolders == PoolSpec => []CountIsHolders
<1>1. PoolInv => CountIsHolders
  BY DEF PoolInv
<1> QED
  BY <1>1, PoolInvAlways, PTL

LEMMA OneServerFollows == PoolInv => OneServer
BY DEF PoolInv, PoolTypeOK, WhoIsAlive, OneServer, Generations, Free

\* A project never has two server processes.
THEOREM PoolOneServer == PoolSpec => []OneServer
BY OneServerFollows, PoolInvAlways, PTL

-----------------------------------------------------------------------------
(* The pool implements the shared server: only the end of a spawn, a reuse *)
(* or a release of the pooled server, its death and its teardown are steps *)
(* of it; whatever happens under the mutex happens to nobody's server.     *)

LEMMA InitMapsToShared == PoolInit => Shared!Init
BY DEF PoolInit, Shared!Init, ServerState, Leases

\* A step that leaves the entry and its record alone is a stutter.
LEMMA Unseen ==
    ASSUME entry' = entry, entry # 0 => server'[entry] = server[entry]
    PROVE  UNCHANGED <<ServerState, Leases>>
BY DEF ServerState, Leases

LEMMA AcquireMaps ==
    ASSUME PoolInv, NEW s \in Sessions, Acquire(s)
    PROVE  \/ UNCHANGED <<ServerState, Leases>>
           \/ Shared!Start(s) \/ Shared!Lease(s)
<1>0. server \in Seq(Server) /\ (mutex.by # "free" => entry = 0 /\ mutex.gen \in Generations)
  BY EntryType DEF PoolInv, PoolTypeOK, WhoIsAlive
<1>1. CASE Reuse(s)
  <2> DEFINE n == server[entry].refCount + 1
             H == server[entry].holders \cup {s}
             new == UsedBy(entry, n, H, FALSE)
  <2>1. entry \in Generations /\ server[entry] \in Server /\ entry # 0
    BY <1>1, EntryType DEF PoolInv, Reuse
  <2>2. n \in Nat /\ H \in SUBSET Sessions
    BY <2>1 DEF Server
  <2>3. server' = [server EXCEPT ![entry] = new] /\ entry' = entry
    BY <1>1 DEF Reuse
  <2> HIDE DEF n, H
  <2>4. new \in Server /\ new.alive = server[entry].alive /\ new.holders = H
    BY <2>1, <2>2, UsersUpdate
  <2> HIDE DEF new
  <2>5. server'[entry] = new
    BY <1>0, <2>1, <2>3, <2>4, ServerUpdate
  <2>6. Shared!Lease(s)
    BY <2>1, <2>3, <2>4, <2>5 DEF Shared!Lease, ServerState, Leases, H
  <2> QED
    BY <2>6
<1>2. CASE Spawn(s)
  BY <1>2 DEF Spawn, ServerState, Leases
<1>3. CASE SpawnSucceeds(s)
  <2> DEFINE new == [Spawning EXCEPT !.alive = TRUE, !.refCount = 1, !.holders = {s}]
  <2>1. entry = 0 /\ mutex.gen \in Generations
    BY <1>0, <1>3 DEF SpawnSucceeds
  <2>2. new \in Server /\ new.alive /\ new.holders = {s}
    BY DEF Spawning, Server
  <2>3. entry' = mutex.gen /\ server' = [server EXCEPT ![mutex.gen] = new]
    BY <1>3 DEF SpawnSucceeds
  <2> HIDE DEF new
  <2>4. server'[mutex.gen] = new
    BY <1>0, <2>1, <2>2, <2>3, ServerUpdate
  <2>5. Shared!Start(s)
    BY <2>1, <2>2, <2>3, <2>4 DEF Shared!Start, ServerState, Leases, Generations
  <2> QED
    BY <2>5
<1>4. CASE SpawnFails(s)
  BY <1>0, <1>4 DEF SpawnFails, ServerState, Leases
<1> QED
  BY <1>1, <1>2, <1>3, <1>4 DEF Acquire

LEMMA ReleaseMaps ==
    ASSUME PoolInv, NEW s \in Sessions, Release(s)
    PROVE  Shared!Return(s)
<1>1. CASE entry = 0
  BY <1>1 DEF Release, Released, Shared!Return, ServerState, Leases
<1>2. CASE entry # 0
  <2> DEFINE n == server[entry].refCount
                    - (IF s \in server[entry].holders /\ server[entry].refCount > 0 THEN 1 ELSE 0)
             H == server[entry].holders \ {s}
             i == server[entry].idle \/ n = 0
             new == UsedBy(entry, n, H, i)
  <2>1. entry \in Generations /\ server[entry] \in Server /\ server \in Seq(Server)
    BY <1>2, EntryType DEF PoolInv, PoolTypeOK
  <2>2. n \in Nat /\ H \in SUBSET Sessions
    BY <2>1 DEF Server
  <2>3. i \in BOOLEAN
    BY Zenon
  <2>4. server' = [server EXCEPT ![entry] = new] /\ entry' = entry
    BY <1>2 DEF Release, Released
  <2> HIDE DEF n, H, i
  <2>5. new \in Server /\ new.alive = server[entry].alive /\ new.holders = H
    BY <2>1, <2>2, <2>3, UsersUpdate
  <2> HIDE DEF new
  <2>6. server'[entry] = new
    BY <2>1, <2>4, <2>5, ServerUpdate
  <2> QED
    BY <1>2, <2>4, <2>5, <2>6 DEF Shared!Return, ServerState, Leases, H
<1> QED
  BY <1>1, <1>2

LEMMA ExitMaps ==
    ASSUME PoolInv, NEW g \in Generations, ServerExits(g)
    PROVE  UNCHANGED <<ServerState, Leases>> \/ Shared!Fail
<1>1. /\ ~server'[g].alive /\ server'[g].holders = server[g].holders
      /\ \A h \in Generations \ {g} : server'[h] = server[h]
      /\ server[g].alive /\ entry' = entry /\ (entry # 0 => entry \in Generations)
  BY Dies, EntryType DEF PoolInv, ServerExits
<1>2. CASE entry = g
  BY <1>1, <1>2 DEF Shared!Fail, ServerState, Leases, Generations
<1>3. CASE entry # g
  BY <1>1, <1>3, Unseen
<1> QED
  BY <1>2, <1>3

\* The end of a dead server, or of one nobody uses.
LEMMA TearDownMaps ==
    ASSUME PoolInv, entry # 0, TearDown(entry), ~server[entry].alive \/ IsIdle(entry)
    PROVE  Shared!Lose \/ Shared!Retire
<1>1. entry' = 0
  BY DEF TearDown
<1>2. CASE ~server[entry].alive
  BY <1>1, <1>2 DEF Shared!Lose, ServerState, Leases
<1>3. CASE server[entry].alive /\ IsIdle(entry)
  <2>1. server[entry].holders = {}
    BY <1>3, FS_EmptySet DEF PoolInv, CountIsHolders, IsIdle
  <2> QED
    BY <1>1, <1>3, <2>1 DEF Shared!Retire, ServerState, Leases
<1> QED
  BY <1>2, <1>3

\* Every step of the pool is one of the shared server or leaves it as it is.
LEMMA StepMapsToShared ==
    ASSUME PoolInv, [PoolNext]_poolVars
    PROVE  [Shared!Next]_<<ServerState, Leases>>
<1>1. ASSUME NEW s \in Sessions, Acquire(s)
      PROVE  [Shared!Next]_<<ServerState, Leases>>
  BY <1>1, AcquireMaps DEF Shared!Next
<1>2. ASSUME NEW s \in Sessions, Release(s)
      PROVE  [Shared!Next]_<<ServerState, Leases>>
  BY <1>2, ReleaseMaps DEF Shared!Next
<1>3. ASSUME NEW g \in Generations, ServerExits(g)
      PROVE  [Shared!Next]_<<ServerState, Leases>>
  BY <1>3, ExitMaps DEF Shared!Next
<1>4. ASSUME NEW g \in Generations, CrashNoticed(g)
      PROVE  [Shared!Next]_<<ServerState, Leases>>
  BY <1>4, TearDownMaps DEF CrashNoticed, Shared!Next, Generations
<1>5. ASSUME NEW w \in Sweepers, SweepEvicts(w)
      PROVE  [Shared!Next]_<<ServerState, Leases>>
  BY <1>5, TearDownMaps DEF SweepEvicts, Shared!Next
<1>6. CASE TornDown
  BY <1>6 DEF TornDown, PoolInv, WhoIsAlive, ServerState, Leases
<1>7. ASSUME UNCHANGED <<entry, server>>
      PROVE  [Shared!Next]_<<ServerState, Leases>>
  BY <1>7, Unseen
<1> QED
  BY <1>1, <1>2, <1>3, <1>4, <1>5, <1>6, <1>7 DEF PoolNext, poolVars, Sweep, SweepBegins, SweepRetains

\* For any callers the pool is a shared server: no sweep, no spawn and no end
\* of another session takes a lease away.
THEOREM PoolImplementsSharedServer == PoolSpec => ImplementsSharedServer
<1>1. PoolInv /\ [PoolNext]_poolVars => [Shared!Next]_<<ServerState, Leases>>
  BY StepMapsToShared
<1> QED
  BY <1>1, InitMapsToShared, PoolInvAlways, PTL
     DEF PoolSpec, ImplementsSharedServer, Shared!Spec, Shared!vars
=============================================================================
