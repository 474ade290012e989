--------------------------- MODULE ProClaudeSlots ---------------------------
(***************************************************************************)
(* The Pro Claude slots of the agent bridge: ProClaudeSlotManager gives a  *)
(* thread one of SlotCap slots, each with a process of its own, evicting   *)
(* another thread when it must; admission may refuse; DrainHandler and the *)
(* signal handler of main evict every slot before the bridge exits.        *)
(*                                                                         *)
(* bind and evictAll are asynchronous calls that run one after the other   *)
(* on a promise chain; between two awaits of the running call processes    *)
(* exit, further calls arrive and the bridge may be told to stop.          *)
(*                                                                         *)
(* The states active (nothing in the bridge sends send_start), evicted     *)
(* (left by the reset that follows at once) and the times lastUseAt (set   *)
(* by send_complete only, so always 0) are left out. Slot processes are    *)
(* detached: they outlive the bridge.                                      *)
(***************************************************************************)
EXTENDS Naturals, Sequences, FiniteSets, SequencesExt, Functions

CONSTANTS
    SlotCap,       \* proClaudeSlotCap: 1 or 3
    WarmCacheSize, \* min(2, SlotCap)
    Threads,
    MaxCalls,      \* bound on the number of calls of bind and evictAll
    Admissions,    \* the admissions the manager may be made with: for each, the
                   \* slot states it counts against the cap
    SignalFaults,  \* how signals may fail: see SignalDenied and KillTimesOut
    None

ASSUME SlotsAssumption ==
    /\ SlotCap \in Nat \ {0}
    /\ WarmCacheSize \in 1 .. SlotCap
    /\ Admissions \subseteq SUBSET {"warming", "warm", "evicting"}
    /\ SignalFaults \subseteq {"ignored", "denied"}
    /\ MaxCalls \in Nat
    /\ None \notin Threads \cup (1 .. MaxCalls)

Slots == 1 .. SlotCap
Calls == 1 .. MaxCalls   \* numbered in the order they are made

\* The composition of RuntimeControlLayer counts every slot that is not empty.
ComposedAdmission == {"warming", "warm", "evicting"}

VARIABLES
    slots,         \* the machines: state, thread and process of each slot
    warmCacheLru,  \* the threads last bound, the most recent one last
    chain,         \* the calls that have not ended, in the order they run
    call,          \* where each call stands and what it was answered
    procs,         \* the threads of the processes spawned so far; pids are indices
    alive,         \* the processes that have not exited
    draining,      \* DrainHandler's flag
    shutdown,      \* the signal handler's progress, and the drain it waits for
    lateBind,      \* history: bind was called after a drain began
    timedOut,      \* history: the drain of the shutdown ran out of time
    escaped,       \* history: processes alive when their eviction gave them up
    capCounts      \* the admission the manager was made with

vars == <<slots, warmCacheLru, chain, call, procs, alive, draining, shutdown,
          lateBind, timedOut, escaped, capCounts>>

Empty == [state |-> "empty", thread |-> None, pid |-> 0]
NotCalled == [kind |-> "none", thread |-> None, at |-> "idle", slot |-> 0,
              answer |-> "none"]

Init ==
    /\ slots = [s \in Slots |-> Empty]
    /\ warmCacheLru = <<>>
    /\ chain = <<>>
    /\ call = [c \in Calls |-> NotCalled]
    /\ procs = <<>>
    /\ alive = {}
    /\ draining = FALSE
    /\ shutdown = [phase |-> "up", drain |-> None]
    /\ lateBind = FALSE
    /\ timedOut = FALSE
    /\ escaped = {}
    /\ capCounts \in Admissions

-----------------------------------------------------------------------------
(***************************************************************************)
(* Helpers of the manager.                                                 *)
(***************************************************************************)
Warm(s) == slots[s].state = "warm"

Least(S) == CHOOSE s \in S : \A t \in S : s <= t

\* touchWarmCache: the thread moves to the end, the oldest ones fall out.
TouchWarmCache(t) ==
    LET touched == Append(RemoveFirst(warmCacheLru, t), t)
        excess == IF Len(touched) > WarmCacheSize THEN Len(touched) - WarmCacheSize ELSE 0
    IN  SubSeq(touched, excess + 1, Len(touched))

IsMostRecent(t) == warmCacheLru = <<>> \/ Last(warmCacheLru) = t

\* Mutant: the most recent thread is not passed over.
PickSlotForBind_Any ==
    LET empty == {s \in Slots : slots[s].state = "empty"}
    IN  IF empty # {} THEN Least(empty) ELSE 1

\* pickSlotForBind, when all times of last use are equal.
PickSlotForBind ==
    LET empty == {s \in Slots : slots[s].state = "empty"}
        older == {s \in Slots : Warm(s) /\ ~IsMostRecent(slots[s].thread)}
    IN  IF empty # {} THEN Least(empty)
        ELSE IF older # {} THEN Least(older) ELSE 1

\* Mutant: calls are not chained, each runs when it comes.
Running_AtOnce(c) == shutdown.phase # "down" /\ c \in ToSet(chain)

\* The call at the head of the chain runs, as long as the bridge does.
Running(c) == shutdown.phase # "down" /\ chain # <<>> /\ Head(chain) = c

At(c, place) == Running(c) /\ call[c].at = place
Go(c, place) == call' = [call EXCEPT ![c].at = place]
GoTo(c, place, s) == call' = [call EXCEPT ![c].at = place, ![c].slot = s]

Answer(c, answer) ==
    /\ call' = [call EXCEPT ![c].at = "done", ![c].answer = answer]
    /\ chain' = Tail(chain)

Bridge == <<draining, shutdown, lateBind, timedOut, capCounts>>

-----------------------------------------------------------------------------
(***************************************************************************)
(* Calls arrive. The bind route is served until the bridge is gone; drain  *)
(* evicts once only, whoever asks for it.                                  *)
(***************************************************************************)
Enqueue(c, kind, t) ==
    /\ call[c] = NotCalled /\ \A d \in Calls : d < c => call[d] # NotCalled
    /\ call' = [call EXCEPT ![c].kind = kind, ![c].thread = t, ![c].at = "queued"]
    /\ chain' = Append(chain, c)

Bind(c, t) ==
    /\ shutdown.phase # "down"
    /\ Enqueue(c, "bind", t)
    /\ lateBind' = (lateBind \/ draining)
    /\ UNCHANGED <<slots, warmCacheLru, procs, alive, draining, shutdown, timedOut, escaped, capCounts>>

DrainRoute(c) ==
    /\ shutdown.phase # "down"
    /\ ~draining
    /\ draining' = TRUE
    /\ Enqueue(c, "evictAll", None)
    /\ UNCHANGED <<slots, warmCacheLru, procs, alive, shutdown, lateBind, timedOut, escaped, capCounts>>

\* The signal handler waits for the drain it starts; a drain that was asked
\* for before answers it at once.
Sigterm(c) ==
    /\ shutdown.phase = "up"
    /\ IF draining
       THEN /\ shutdown' = [phase |-> "exiting", drain |-> None]
            /\ UNCHANGED <<call, chain, draining>>
       ELSE /\ shutdown' = [phase |-> "draining", drain |-> c]
            /\ draining' = TRUE
            /\ Enqueue(c, "evictAll", None)
    /\ UNCHANGED <<slots, warmCacheLru, procs, alive, lateBind, timedOut, escaped, capCounts>>

\* Mutant: the drain is started but not awaited.
DrainEnds_AtOnce ==
    /\ shutdown.phase = "draining"
    /\ shutdown' = [shutdown EXCEPT !.phase = "exiting"]
    /\ UNCHANGED <<slots, warmCacheLru, chain, call, procs, alive, draining, lateBind, timedOut, escaped, capCounts>>

DrainEnds ==
    /\ shutdown.phase = "draining"
    /\ call[shutdown.drain].at = "done"
    /\ shutdown' = [shutdown EXCEPT !.phase = "exiting"]
    /\ UNCHANGED <<slots, warmCacheLru, chain, call, procs, alive, draining, lateBind, timedOut, escaped, capCounts>>

\* inflightTimeoutMs: the race is lost after 30 s.
DrainTimesOut ==
    /\ shutdown.phase = "draining"
    /\ call[shutdown.drain].at # "done"
    /\ shutdown' = [shutdown EXCEPT !.phase = "exiting"]
    /\ timedOut' = TRUE
    /\ UNCHANGED <<slots, warmCacheLru, chain, call, procs, alive, draining, lateBind, escaped, capCounts>>

Exit ==
    /\ shutdown.phase = "exiting"
    /\ shutdown' = [shutdown EXCEPT !.phase = "down"]
    /\ UNCHANGED <<slots, warmCacheLru, chain, call, procs, alive, draining, lateBind, timedOut, escaped, capCounts>>

-----------------------------------------------------------------------------
(***************************************************************************)
(* bindLocked.                                                             *)
(***************************************************************************)
HasSlot(t) == \E s \in Slots : slots[s].thread = t /\ Warm(s)

BindWarm(c) ==
    /\ At(c, "queued") /\ call[c].kind = "bind" /\ HasSlot(call[c].thread)
    /\ warmCacheLru' = TouchWarmCache(call[c].thread)
    /\ Answer(c, "warm")
    /\ UNCHANGED <<slots, procs, alive, escaped, Bridge>>

NeedsAdmission(c) ==
    At(c, "queued") /\ call[c].kind = "bind" /\ ~HasSlot(call[c].thread)

CapReached == Cardinality({s \in Slots : slots[s].state \in capCounts}) >= SlotCap

\* Red health, memory pressure or no headroom: whatever the slots are.
AdmissionRefuses(c) ==
    /\ NeedsAdmission(c)
    /\ Answer(c, "refused")
    /\ UNCHANGED <<slots, warmCacheLru, procs, alive, escaped, Bridge>>

AdmissionTierCap(c) ==
    /\ NeedsAdmission(c) /\ CapReached
    /\ Answer(c, "tierCap")
    /\ UNCHANGED <<slots, warmCacheLru, procs, alive, escaped, Bridge>>

Admitted(c) ==
    /\ NeedsAdmission(c) /\ ~CapReached
    /\ GoTo(c, IF Warm(PickSlotForBind) THEN "saving" ELSE "loading", PickSlotForBind)
    /\ UNCHANGED <<slots, warmCacheLru, chain, procs, alive, escaped, Bridge>>

\* The resume id was loaded, or could not be.
Load(c) ==
    LET s == call[c].slot IN
    /\ At(c, "loading")
    /\ slots' = [slots EXCEPT ![s] = [state |-> "warming", thread |-> call[c].thread, pid |-> 0]]
    /\ Go(c, "spawning")
    /\ UNCHANGED <<warmCacheLru, chain, procs, alive, escaped, Bridge>>

Hydrate(c) ==
    LET s == call[c].slot IN
    /\ At(c, "spawning")
    /\ procs' = Append(procs, call[c].thread)
    /\ alive' = alive \cup {Len(procs')}
    /\ slots' = [slots EXCEPT ![s].state = "warm", ![s].pid = Len(procs')]
    /\ warmCacheLru' = TouchWarmCache(call[c].thread)
    /\ Answer(c, "bound")
    /\ UNCHANGED <<escaped, Bridge>>

\* Mutant: the slot of a failed spawn is not reset.
SpawnFails_KeepsThread(c) ==
    LET s == call[c].slot IN
    /\ At(c, "spawning")
    /\ slots' = [slots EXCEPT ![s].state = "empty"]
    /\ Answer(c, "spawnFailed")
    /\ UNCHANGED <<warmCacheLru, procs, alive, escaped, Bridge>>

SpawnFails(c) ==
    LET s == call[c].slot IN
    /\ At(c, "spawning")
    /\ slots' = [slots EXCEPT ![s] = Empty]
    /\ Answer(c, "spawnFailed")
    /\ UNCHANGED <<warmCacheLru, procs, alive, escaped, Bridge>>

-----------------------------------------------------------------------------
(***************************************************************************)
(* evictSlot, on behalf of a bind or of evictAll.                          *)
(***************************************************************************)
Pid(c) == slots[call[c].slot].pid

\* The session was saved, or could not be: the process gets its SIGTERM.
Save(c) ==
    LET s == call[c].slot IN
    /\ At(c, "saving")
    /\ slots' = [slots EXCEPT ![s].state = "evicting"]
    /\ Go(c, "terminating")
    /\ UNCHANGED <<warmCacheLru, chain, procs, alive, escaped, Bridge>>

\* Mutant: a process that ignores SIGTERM is given up.
TermTimesOut_GivesUp(c) ==
    /\ At(c, "terminating") /\ Pid(c) \in alive
    /\ slots' = [slots EXCEPT ![call[c].slot] = Empty]
    /\ warmCacheLru' = RemoveFirst(warmCacheLru, slots[call[c].slot].thread)
    /\ Go(c, IF call[c].kind = "bind" THEN "loading" ELSE "sweeping")
    /\ UNCHANGED <<chain, procs, alive, escaped, Bridge>>

\* killTimeoutMs: after 10 s it gets a SIGKILL.
TermTimesOut(c) ==
    /\ At(c, "terminating") /\ Pid(c) \in alive
    /\ Go(c, "killing")
    /\ UNCHANGED <<slots, warmCacheLru, chain, procs, alive, escaped, Bridge>>

\* Mutant: an evicted thread stays in the warm cache.
Evicted_StaysCached(c) ==
    LET s == call[c].slot IN
    /\ slots' = [slots EXCEPT ![s] = Empty]
    /\ Go(c, IF call[c].kind = "bind" THEN "loading" ELSE "sweeping")
    /\ escaped' = escaped \cup (alive \cap {slots[s].pid})
    /\ UNCHANGED <<warmCacheLru, chain, procs, alive, Bridge>>

Evicted(c) ==
    LET s == call[c].slot IN
    /\ slots' = [slots EXCEPT ![s] = Empty]
    /\ warmCacheLru' = RemoveFirst(warmCacheLru, slots[s].thread)
    /\ Go(c, IF call[c].kind = "bind" THEN "loading" ELSE "sweeping")
    /\ escaped' = escaped \cup (alive \cap {slots[s].pid})
    /\ UNCHANGED <<chain, procs, alive, Bridge>>

Exited(c) ==
    /\ At(c, "terminating") \/ At(c, "killing")
    /\ Pid(c) \notin alive
    /\ Evicted(c)

\* waitExit takes any failure of kill(pid, 0) for an exit, EPERM included: the
\* pid is that of sudo, which the service user may not be allowed to signal.
SignalDenied(c) ==
    /\ "denied" \in SignalFaults
    /\ At(c, "terminating") \/ At(c, "killing")
    /\ Pid(c) \in alive
    /\ Evicted(c)

\* Mutant: the wait after SIGKILL has no limit.
KillTimesOut_Never(c) ==
    /\ At(c, "killing") /\ Pid(c) \notin alive
    /\ Evicted(c)

\* After 5 s more the slot is free whether the process is gone or, having
\* ignored even SIGKILL, not.
KillTimesOut(c) ==
    /\ "ignored" \in SignalFaults
    /\ At(c, "killing") /\ Pid(c) \in alive
    /\ Evicted(c)

\* evictAll looks at the slots once, in their order.
Sweep(c) ==
    LET next == {s \in Slots : s > call[c].slot /\ slots[s].state \in {"warm", "warming"}}
    IN  /\ At(c, "queued") \/ At(c, "sweeping")
        /\ call[c].kind = "evictAll"
        /\ IF next # {}
           THEN GoTo(c, "saving", Least(next)) /\ UNCHANGED chain
           ELSE Answer(c, "evicted")
        /\ UNCHANGED <<slots, warmCacheLru, procs, alive, escaped, Bridge>>

\* A process ends by itself or by a signal; nobody tells the manager.
ProcessExit(p) ==
    /\ p \in alive
    /\ alive' = alive \ {p}
    /\ UNCHANGED <<slots, warmCacheLru, chain, call, procs, escaped, Bridge>>

-----------------------------------------------------------------------------
Step(c) ==
    \/ BindWarm(c) \/ AdmissionRefuses(c) \/ AdmissionTierCap(c) \/ Admitted(c)
    \/ Load(c) \/ Hydrate(c) \/ SpawnFails(c)
    \/ Save(c) \/ TermTimesOut(c) \/ Exited(c) \/ KillTimesOut(c) \/ Sweep(c)

\* A call's own steps: every await of the code settles, by a timeout if need be.
Steps == \E c \in Calls : Step(c)

\* The process a SIGKILL was sent to, where SIGKILL can be relied on.
KilledExits ==
    "ignored" \notin SignalFaults /\ \E c \in Calls : At(c, "killing") /\ ProcessExit(Pid(c))

Next ==
    \/ \E c \in Calls, t \in Threads : Bind(c, t)
    \/ \E c \in Calls : DrainRoute(c) \/ Sigterm(c) \/ SignalDenied(c)
    \/ Steps
    \/ \E p \in alive : ProcessExit(p)
    \/ DrainEnds \/ DrainTimesOut \/ Exit

Spec == Init /\ [][Next]_vars /\ WF_vars(Steps) /\ WF_vars(KilledExits)

-----------------------------------------------------------------------------
TypeOK ==
    /\ \A s \in Slots :
         /\ slots[s].state \in {"empty", "warming", "warm", "evicting"}
         /\ slots[s].thread \in Threads \cup {None}
         /\ slots[s].pid \in 0 .. Len(procs)
         /\ (slots[s].thread = None) <=> (slots[s].state = "empty")
         /\ (slots[s].pid # 0) <=> (slots[s].state \in {"warm", "evicting"})
    /\ alive \subseteq 1 .. Len(procs) /\ escaped \subseteq 1 .. Len(procs)
    /\ \A c \in Calls :
         /\ call[c].kind \in {"none", "bind", "evictAll"}
         /\ call[c].at \in {"idle", "queued", "saving", "terminating", "killing",
                            "loading", "spawning", "sweeping", "done"}
         /\ call[c].slot \in 0 .. SlotCap
    /\ shutdown.phase \in {"up", "draining", "exiting", "down"}

(***************************************************************************)
(* A thread never has two slots, and no process is lost: every live one is *)
(* in a slot, under the thread it was spawned for, unless it survived the  *)
(* signals of its eviction. So there are never more than the cap, with     *)
(* evictions, failed spawns and processes that ignore SIGTERM.             *)
(***************************************************************************)
EveryProcessHasItsSlot ==
    /\ \A s, t \in Slots : slots[s].thread = slots[t].thread /\ s # t => slots[s] = Empty
    /\ \A p \in alive \ escaped : \E s \in Slots : slots[s].pid = p /\ slots[s].thread = procs[p]

(***************************************************************************)
(* The warm cache names threads that have a slot, each of them once: it is *)
(* what keeps admission from evicting them and the switch from picking     *)
(* them.                                                                   *)
(***************************************************************************)
CacheIsBound ==
    /\ IsInjective(warmCacheLru)
    /\ Len(warmCacheLru) <= WarmCacheSize
    /\ \A i \in DOMAIN warmCacheLru : \E s \in Slots : slots[s].thread = warmCacheLru[i]

(***************************************************************************)
(* With more than one slot, the thread bound last keeps its slot when      *)
(* another one is bound.                                                   *)
(***************************************************************************)
MostRecentSurvives ==
    [][\A s \in Slots :
         /\ SlotCap > 1 /\ slots[s].state = "warm" /\ slots'[s].state = "evicting"
         /\ call[Head(chain)].kind = "bind"
         => ~IsMostRecent(slots[s].thread)]_vars

(***************************************************************************)
(* When evictAll ends, every slot is empty: a bind that came before it has *)
(* ended, and one that came after it has not begun.                        *)
(***************************************************************************)
EvictAllEmpties ==
    [][\A c \in Calls : call'[c].answer = "evicted" /\ call[c].answer # "evicted"
         => \A s \in Slots : slots'[s] = Empty]_vars

(***************************************************************************)
(* A shutdown that drains by itself and in time leaves no slot process     *)
(* behind but those no signal ended, unless a bind came after the drain    *)
(* began.                                                                  *)
(***************************************************************************)
CleanShutdownLeavesNothing ==
    shutdown.phase = "down" /\ shutdown.drain # None /\ ~timedOut /\ ~lateBind => alive \subseteq escaped

(***************************************************************************)
(* "evictAll drains every slot during bridge shutdown"                     *)
(* (06-pro-claude-slots.md): a shutdown in time leaves no slot process.    *)
(***************************************************************************)
ShutdownDrainsEverySlot == shutdown.phase = "down" /\ ~timedOut => alive = {}

(***************************************************************************)
(* "the manager can never broadcast a slot as warm without a live process  *)
(* pid" (06-pro-claude-slots.md).                                          *)
(***************************************************************************)
WarmIsLive == \A s \in Slots : Warm(s) => slots[s].pid \in alive

(***************************************************************************)
(* "AdmissionService surfaces this code only when the cap is hit, not the  *)
(* cache" (ERR_ADMISSION_TIER_CAP.md): a bind is not refused for the cap   *)
(* while an idle warm slot could be switched to its thread.                *)
(***************************************************************************)
SwitchEvicts ==
    [][\A c \in Calls : call'[c].answer = "tierCap" /\ call[c].answer # "tierCap"
         => \A s \in Slots : ~Warm(s)]_vars

(***************************************************************************)
(* Every bind and every evictAll ends unless the bridge exits: no call,    *)
(* however its process behaves, holds up the chain for ever. A run has     *)
(* MaxCalls calls, so all of them end if the chain empties.                *)
(***************************************************************************)
EveryCallEnds == chain # <<>> ~> chain = <<>> \/ shutdown.phase = "down"
=============================================================================
