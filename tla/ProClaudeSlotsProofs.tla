------------------------ MODULE ProClaudeSlotsProofs ------------------------
(***************************************************************************)
(* What the slot manager guarantees for every number of slots, threads and *)
(* calls, every admission and every way signals may fail. The invariant    *)
(* says that one call at a time is under way, that every slot it does not  *)
(* work on is empty or holds the process of its thread, and what the call  *)
(* knows of the slot it works on at each of its awaits. Beside it there is *)
(* one of the warm cache: whom it names, and that a thread bound last has  *)
(* no reason to be evicted by a bind.                                      *)
(***************************************************************************)
EXTENDS ProClaudeSlots, WellFoundedInduction, TLAPS

Places == {"idle", "queued", "saving", "terminating", "killing", "loading", "spawning",
           "sweeping", "done"}
UnderWay == Places \ {"idle", "queued", "done"}

Slot == [state : {"empty", "warming", "warm", "evicting"}, thread : Threads \cup {None}, pid : Nat]
Call == [kind : {"none", "bind", "evictAll"}, thread : Threads \cup {None}, at : Places,
         slot : 0 .. SlotCap,
         answer : {"none", "warm", "refused", "tierCap", "bound", "spawnFailed", "evicted"}]

Typed ==
    /\ slots \in [Slots -> Slot]
    /\ call \in [Calls -> Call]
    /\ chain \in Seq(Calls)
    /\ procs \in Seq(Threads)
    /\ alive \subseteq 1 .. Len(procs) /\ escaped \subseteq 1 .. Len(procs)
    /\ shutdown \in [phase : {"up", "draining", "exiting", "down"}, drain : Calls \cup {None}]
    /\ draining \in BOOLEAN /\ lateBind \in BOOLEAN /\ timedOut \in BOOLEAN

\* The chain holds the calls that were made and have not ended, and only the
\* first of them is under way.
OneAtATime ==
    /\ \A i, j \in 1 .. Len(chain) : chain[i] = chain[j] => i = j
    /\ \A i \in 1 .. Len(chain) : call[chain[i]].at \notin {"idle", "done"}
    /\ \A c \in Calls : call[c].at \in UnderWay => Len(chain) > 0 /\ c = chain[1]

\* What a call is, and where it can be.
CallShape ==
    \A c \in Calls :
        /\ call[c].at = "idle" => call[c] = NotCalled
        /\ call[c].at # "idle" => call[c].kind \in {"bind", "evictAll"}
        /\ call[c].kind = "bind" => call[c].thread \in Threads
        /\ call[c].at = "queued" => call[c].slot = 0
        /\ call[c].at \in {"loading", "spawning"} => call[c].kind = "bind"
        /\ call[c].at = "sweeping" => call[c].kind = "evictAll"

\* An empty slot is blank, a process is kept with the thread it was spawned for.
SlotShape ==
    \A s \in Slots :
        /\ slots[s].state = "empty" => slots[s] = Empty
        /\ slots[s].state # "empty" => slots[s].thread # None
        /\ slots[s].state \in {"empty", "warming"} => slots[s].pid = 0
        /\ slots[s].state \in {"warm", "evicting"} =>
             slots[s].pid \in 1 .. Len(procs) /\ slots[s].thread = procs[slots[s].pid]

\* The slots no call works on are empty or warm.
OthersRest ==
    \A s \in Slots :
        \/ slots[s].state \in {"empty", "warm"}
        \/ \E c \in Calls :
             call[c].at \in {"terminating", "killing", "spawning"} /\ call[c].slot = s

\* What a call knows of its slot; the thread it binds has no other.
CallKnows ==
    \A c \in Calls :
        LET s == call[c].slot IN
        /\ call[c].at \in UnderWay \ {"sweeping"} => s \in Slots
        /\ call[c].at = "saving" => slots[s].state = "warm"
        /\ call[c].at \in {"terminating", "killing"} => slots[s].state = "evicting"
        /\ call[c].at = "loading" => slots[s] = Empty
        /\ call[c].at = "spawning" => slots[s].state = "warming" /\ slots[s].thread = call[c].thread
        /\ call[c].kind = "bind" /\ call[c].at \in UnderWay =>
             \A t \in Slots : slots[t].thread = call[c].thread => call[c].at = "spawning" /\ t = s

ThreadsOnce ==
    \A s, t \in Slots : slots[s].thread = slots[t].thread /\ s # t => slots[s] = Empty

LiveInSlots == \A p \in alive \ escaped : \E s \in Slots : slots[s].pid = p

SlotsInv ==
    Typed /\ OneAtATime /\ CallShape /\ SlotShape /\ OthersRest /\ CallKnows /\ ThreadsOnce
    /\ LiveInSlots

\* evictAll leaves empty slots behind it.
SweptAreEmpty ==
    \A c \in Calls : call[c].kind = "evictAll" =>
        /\ call[c].at = "sweeping" => \A s \in 1 .. call[c].slot : slots[s] = Empty
        /\ call[c].at \in {"saving", "terminating", "killing"} =>
             \A s \in 1 .. call[c].slot : s # call[c].slot => slots[s] = Empty

\* The drain the signal handler waits for is the last call, unless a bind came
\* late; when it has ended nothing is left.
DrainIsLast ==
    /\ shutdown.phase = "up" => shutdown.drain = None
    /\ shutdown.phase = "draining" => shutdown.drain # None
    /\ shutdown.drain # None =>
         /\ draining
         /\ call[shutdown.drain].kind = "evictAll"
         /\ call[shutdown.drain].at # "idle"
         /\ shutdown.phase # "draining" /\ ~timedOut => call[shutdown.drain].at = "done"
         /\ ~lateBind /\ call[shutdown.drain].at # "done" =>
              Len(chain) > 0 /\ chain[Len(chain)] = shutdown.drain
         /\ ~lateBind /\ call[shutdown.drain].at = "done" =>
              chain = <<>> /\ \A s \in Slots : slots[s] = Empty

ShutdownInv == SlotsInv /\ SweptAreEmpty /\ DrainIsLast

-----------------------------------------------------------------------------
(* Calls, the chain and the slots *)

\* A nonempty set of numbers has a least one.
LEMMA LeastIsLeast ==
    ASSUME NEW S \in SUBSET Nat, S # {}
    PROVE  Least(S) \in S /\ \A t \in S : Least(S) <= t
<1>1. PICK x \in S : \A y \in S : ~(<<y, x>> \in OpToRel(<, Nat))
  BY WFMin, NatLessThanWellFounded
<1>2. ASSUME NEW y \in S, y < x PROVE FALSE
  <2>1. <<y, x>> \in Nat \X Nat /\ <<y, x>>[1] < <<y, x>>[2]
    BY <1>2
  <2> QED
    BY <1>1, <2>1 DEF OpToRel
<1>3. \A y \in S : x <= y
  BY <1>2
<1> QED
  BY <1>3 DEF Least

\* The slot a bind takes is one of the slots.
LEMMA PickIsSlot == PickSlotForBind \in Slots
<1> DEFINE empty == {s \in Slots : slots[s].state = "empty"}
           older == {s \in Slots : Warm(s) /\ ~IsMostRecent(slots[s].thread)}
<1>1. empty \in SUBSET Nat /\ older \in SUBSET Nat /\ 1 \in Slots
  BY SlotsAssumption DEF Slots
<1>2. (empty # {} => Least(empty) \in empty) /\ (older # {} => Least(older) \in older)
  BY <1>1, LeastIsLeast
<1>3. PickSlotForBind =
        IF empty # {} THEN Least(empty) ELSE IF older # {} THEN Least(older) ELSE 1
  BY DEF PickSlotForBind
<1>4. empty \subseteq Slots /\ older \subseteq Slots
  OBVIOUS
<1> HIDE DEF empty, older
<1> QED
  BY <1>1, <1>2, <1>3, <1>4

\* Call c goes to a place and a slot, the other calls stay where they are.
Moves(c, place, s) ==
    /\ call' \in [Calls -> Call]
    /\ call'[c].at = place /\ call'[c].slot = s
    /\ call'[c].kind = call[c].kind /\ call'[c].thread = call[c].thread
    /\ place # "done" => call'[c].answer = call[c].answer
    /\ \A d \in Calls \ {c} : call'[d] = call[d]

LEMMA GoMoves ==
    ASSUME Typed, NEW c \in Calls, NEW place \in Places \ {"done"}, Go(c, place)
    PROVE  Moves(c, place, call[c].slot)
BY DEF Typed, Go, Moves, Call

LEMMA GoToMoves ==
    ASSUME Typed, NEW c \in Calls, NEW place \in Places \ {"done"}, NEW s \in Slots,
           GoTo(c, place, s)
    PROVE  Moves(c, place, s)
<1>1. call[c] \in Call /\ s \in 0 .. SlotCap
  BY DEF Typed, Slots
<1>2. DEFINE r == [[call[c] EXCEPT !.at = place] EXCEPT !.slot = s]
<1>3. /\ r \in Call /\ r.at = place /\ r.slot = s
      /\ r.kind = call[c].kind /\ r.thread = call[c].thread /\ r.answer = call[c].answer
  BY <1>1 DEF Call
<1>4. call' = [call EXCEPT ![c] = r]
  BY DEF GoTo, Typed
<1> HIDE DEF r
<1> QED
  BY <1>3, <1>4 DEF Typed, Moves

LEMMA AnswerMoves ==
    ASSUME Typed, NEW c \in Calls, NEW a, Answer(c, a),
           a \in {"warm", "refused", "tierCap", "bound", "spawnFailed", "evicted"}
    PROVE  Moves(c, "done", call[c].slot) /\ call'[c].answer = a /\ chain' = Tail(chain)
BY DEF Typed, Answer, Moves, Call, Places

\* The running call is the first of the chain; no other one is under way.
LEMMA OneRuns ==
    ASSUME Typed, OneAtATime, NEW c \in Calls, Running(c)
    PROVE  /\ Len(chain) > 0 /\ chain[1] = c
           /\ call[c].at \notin {"idle", "done"}
           /\ \A d \in Calls \ {c} : call[d].at \notin UnderWay
BY DEF Typed, OneAtATime, Running

\* A call that goes on stays the one under way.
LEMMA GoingOn ==
    ASSUME Typed, OneAtATime, NEW c \in Calls, Running(c), NEW place \in UnderWay, NEW s,
           Moves(c, place, s), chain' = chain
    PROVE  OneAtATime'
<1>1. Len(chain) > 0 /\ chain[1] = c /\ chain \in Seq(Calls)
      /\ \A d \in Calls \ {c} : call[d].at \notin UnderWay
  BY OneRuns DEF Typed
<1>2. place \notin {"idle", "done"}
  BY DEF UnderWay
<1> QED
  BY <1>1, <1>2 DEF Moves, OneAtATime

\* A call that ends leaves the chain, and none is under way.
LEMMA Ending ==
    ASSUME Typed, OneAtATime, NEW c \in Calls, Running(c), NEW s,
           Moves(c, "done", s), chain' = Tail(chain)
    PROVE  OneAtATime' /\ chain' \in Seq(Calls) /\ \A d \in Calls : call'[d].at \notin UnderWay
<1>1. Len(chain) > 0 /\ chain[1] = c /\ chain \in Seq(Calls)
      /\ \A d \in Calls \ {c} : call[d].at \notin UnderWay
  BY OneRuns DEF Typed
<1>2. /\ chain' \in Seq(Calls) /\ Len(chain') = Len(chain) - 1
      /\ \A i \in 1 .. Len(chain') : chain'[i] = chain[i + 1] /\ i + 1 \in 1 .. Len(chain)
  BY <1>1
<1>3. \A i \in 1 .. Len(chain') : chain'[i] # c /\ chain'[i] \in Calls
  BY <1>1, <1>2 DEF OneAtATime
<1>4. \A d \in Calls : call'[d].at \notin UnderWay
  BY <1>1 DEF Moves, UnderWay
<1>5. \A i \in 1 .. Len(chain') : call'[chain'[i]] = call[chain[i + 1]]
  BY <1>2, <1>3 DEF Moves
<1> QED
  BY <1>2, <1>3, <1>4, <1>5 DEF OneAtATime

\* A slot's record is replaced.
Changes(s, r) ==
    /\ slots' \in [Slots -> Slot]
    /\ slots'[s] = r
    /\ \A t \in Slots \ {s} : slots'[t] = slots[t]

LEMMA SlotChanges ==
    ASSUME Typed, NEW s \in Slots, NEW r \in Slot, slots' = [slots EXCEPT ![s] = r]
    PROVE  Changes(s, r)
BY DEF Typed, Changes

LEMMA SlotRecords ==
    /\ Empty \in Slot /\ Empty.state = "empty" /\ Empty.thread = None /\ Empty.pid = 0
    /\ NotCalled \in Call
    /\ 1 \in Slots
BY SlotsAssumption DEF Empty, Slot, NotCalled, Call, Places, Slots

-----------------------------------------------------------------------------
(* The running call works on a slot *)

\* What the running call may leave in slot k, and where it may go then.
Fits(c, place, k, r) ==
    /\ call[c].at \notin {"queued", "sweeping"} => call[c].slot = k
    /\ place \in {"loading", "spawning"} => call[c].kind = "bind"
    /\ place = "sweeping" => call[c].kind = "evictAll"
    /\ place = "saving" => r.state = "warm"
    /\ place \in {"terminating", "killing"} => r.state = "evicting"
    /\ place = "loading" => r = Empty
    /\ place = "spawning" => r.state = "warming" /\ r.thread = call[c].thread
    /\ place \in {"sweeping", "done"} => r.state \in {"empty", "warm"}
    /\ r.state = "empty" => r = Empty
    /\ r.state # "empty" => r.thread # None
    /\ r.state \in {"empty", "warming"} => r.pid = 0
    /\ r.state \in {"warm", "evicting"} =>
         r.pid \in 1 .. Len(procs') /\ r.thread = procs'[r.pid]
    /\ \/ r.thread \in {None, slots[k].thread}
       \/ \A t \in Slots \ {k} : slots[t].thread # r.thread
    /\ call[c].kind = "bind" /\ place # "done" =>
         /\ \A t \in Slots \ {k} : slots[t].thread # call[c].thread
         /\ place # "spawning" => r.thread # call[c].thread
    /\ \A p \in alive' \ escaped' :
         p = r.pid \/ (p \in alive \ escaped /\ p # slots[k].pid)

\* Processes are only added.
Grow ==
    /\ procs' \in Seq(Threads) /\ Len(procs) <= Len(procs')
    /\ \A p \in 1 .. Len(procs) : procs'[p] = procs[p]
    /\ alive' \subseteq 1 .. Len(procs') /\ escaped' \subseteq 1 .. Len(procs')

LEMMA CallWorks ==
    ASSUME SlotsInv, NEW c \in Calls, Running(c), NEW k \in Slots, NEW r \in Slot,
           NEW place \in (UnderWay \cup {"done"}), Moves(c, place, k), Changes(k, r),
           chain' = IF place = "done" THEN Tail(chain) ELSE chain,
           Fits(c, place, k, r), Grow, UNCHANGED Bridge
    PROVE  SlotsInv'
<1>1. /\ Typed /\ OneAtATime /\ CallShape /\ SlotShape /\ OthersRest /\ CallKnows
      /\ ThreadsOnce /\ LiveInSlots
  BY DEF SlotsInv
<1>2. \A d \in Calls \ {c} : call[d].at \notin UnderWay /\ call'[d] = call[d]
  BY <1>1, OneRuns DEF Moves
<1>3. call'[c].at = place /\ call'[c].slot = k /\ call'[c].kind = call[c].kind
      /\ call'[c].thread = call[c].thread
  BY DEF Moves
<1>4. OneAtATime' /\ chain' \in Seq(Calls)
  BY <1>1, GoingOn, Ending DEF Typed
<1>5. Typed'
  BY <1>1, <1>4 DEF Typed, Moves, Changes, Grow, Bridge
<1>6. place # "queued" /\ place # "idle" /\ call[c].at # "idle"
  BY <1>1, OneRuns DEF UnderWay
<1>7. CallShape'
  BY <1>1, <1>2, <1>3, <1>6 DEF CallShape, Fits
<1>8. SlotShape'
  BY <1>1 DEF SlotShape, Changes, Fits, Grow, Typed
<1>9. \A s \in Slots \ {k} : slots'[s] = slots[s] /\ slots[s].state \in {"empty", "warm"}
  BY <1>1, <1>2 DEF OthersRest, Changes, Fits, UnderWay, Places
<1>10. OthersRest'
  <2>1. place \in {"terminating", "killing", "spawning"} \/ r.state \in {"empty", "warm"}
    BY SlotRecords DEF Fits, UnderWay, Places
  <2> QED
    BY <1>3, <1>9, <2>1 DEF OthersRest, Changes
<1>11. CallKnows'
  BY <1>2, <1>3, <1>6, <1>9 DEF CallKnows, Changes, Fits, UnderWay, Places
<1>12. ThreadsOnce'
  <2>1. r.thread = None => r = Empty
    BY SlotRecords DEF Fits
  <2>2. \A s \in Slots : slots[s].thread = None => slots[s] = Empty
    BY <1>1 DEF SlotShape
  <2>3. \/ r.thread \in {None, slots[k].thread}
        \/ \A t \in Slots \ {k} : slots[t].thread # r.thread
    BY DEF Fits
  <2>4. \A t \in Slots \ {k} : slots[t].thread = r.thread => slots[t] = Empty /\ r = Empty
    BY <1>1, <2>1, <2>2, <2>3, SlotRecords DEF ThreadsOnce
  <2> QED
    BY <1>1, <1>9, <2>4 DEF ThreadsOnce, Changes
<1>13. LiveInSlots'
  BY <1>1 DEF LiveInSlots, Changes, Fits
<1> QED
  BY <1>4, <1>5, <1>7, <1>8, <1>10, <1>11, <1>12, <1>13 DEF SlotsInv

\* A step of the running call, as the chain and the drain see it: an evictAll
\* ends, and is answered, when every slot is empty.
Worked(c) ==
    \E place \in UnderWay \cup {"done"}, s \in 0 .. SlotCap :
        /\ Moves(c, place, s)
        /\ chain' = IF place = "done" THEN Tail(chain) ELSE chain
        /\ place = "done" /\ (call[c].kind = "evictAll" \/ call'[c].answer = "evicted") =>
             \A t \in Slots : slots'[t] = Empty

\* An evictAll that works on slot k has emptied those before it.
LEMMA SweepsOn ==
    ASSUME SlotsInv, NEW c \in Calls, Running(c), NEW k \in Slots, NEW r \in Slot,
           NEW place \in UnderWay, Moves(c, place, k), Changes(k, r),
           call[c].kind = "evictAll" =>
             /\ \A s \in 1 .. k : s # k => slots[s] = Empty
             /\ place = "sweeping" => r = Empty
    PROVE  SweptAreEmpty'
<1>1. \A d \in Calls \ {c} : call[d].at \notin UnderWay /\ call'[d] = call[d]
  BY OneRuns DEF SlotsInv, Moves
<1>2. \A d \in Calls \ {c} :
        call'[d].at \notin {"sweeping", "saving", "terminating", "killing"}
  BY <1>1 DEF UnderWay, Places
<1>3. call'[c].slot = k /\ call'[c].at = place /\ call'[c].kind = call[c].kind
  BY DEF Moves
<1>4. \A s \in 1 .. k : s \in Slots /\ (s # k => slots'[s] = slots[s])
  BY SlotsAssumption DEF Changes, Slots
<1> QED
  BY <1>2, <1>3, <1>4 DEF SweptAreEmpty, Changes

\* A bind, or the end of a call, leaves no evictAll under way.
LEMMA NoneSweeps ==
    ASSUME SlotsInv, NEW c \in Calls, Running(c), NEW place, NEW s, Moves(c, place, s),
           call[c].kind = "bind" \/ place = "done"
    PROVE  SweptAreEmpty'
<1>1. \A d \in Calls \ {c} : call[d].at \notin UnderWay /\ call'[d] = call[d]
  BY OneRuns DEF SlotsInv, Moves
<1> QED
  BY <1>1 DEF SweptAreEmpty, UnderWay, Places, Moves

\* A call that ends without touching a slot.
LEMMA CallEnds ==
    ASSUME SlotsInv, NEW c \in Calls, Running(c), call[c].at \in {"queued", "sweeping"},
           Moves(c, "done", call[c].slot), chain' = Tail(chain),
           UNCHANGED <<slots, procs, alive, escaped, Bridge>>
    PROVE  SlotsInv'
<1>1. /\ Typed /\ OneAtATime /\ CallShape /\ SlotShape /\ OthersRest /\ CallKnows
      /\ ThreadsOnce /\ LiveInSlots
  BY DEF SlotsInv
<1>2. \A d \in Calls \ {c} : call[d].at \notin UnderWay /\ call'[d] = call[d]
  BY <1>1, OneRuns DEF Moves
<1>3. call'[c].at = "done" /\ call'[c].kind = call[c].kind /\ call'[c].thread = call[c].thread
  BY DEF Moves
<1>4. OneAtATime' /\ chain' \in Seq(Calls)
  BY <1>1, Ending DEF Typed
<1>5. Typed'
  BY <1>1, <1>4 DEF Typed, Moves, Bridge
<1>6. CallShape'
  BY <1>1, <1>2, <1>3 DEF CallShape
<1>7. SlotShape' /\ ThreadsOnce' /\ LiveInSlots'
  BY <1>1 DEF SlotShape, ThreadsOnce, LiveInSlots
<1>8. OthersRest'
  BY <1>1, <1>2 DEF OthersRest, UnderWay, Places
<1>9. CallKnows'
  BY <1>1, <1>2, <1>3 DEF CallKnows, UnderWay, Places
<1> QED
  BY <1>4, <1>5, <1>6, <1>7, <1>8, <1>9 DEF SlotsInv

-----------------------------------------------------------------------------
(* Steps of the running call *)

\* A slot that is not touched is replaced by itself.
LEMMA SlotStays ==
    ASSUME Typed, NEW k \in Slots, UNCHANGED slots
    PROVE  slots[k] \in Slot /\ Changes(k, slots[k])
BY DEF Typed, Changes

LEMMA NoProcessStarts ==
    ASSUME Typed, UNCHANGED <<procs, alive, escaped>>
    PROVE  Grow
BY DEF Typed, Grow

\* While a call at "queued" or "sweeping" runs, every slot is empty or warm.
LEMMA AllRest ==
    ASSUME SlotsInv, NEW c \in Calls, Running(c), call[c].at \in {"queued", "sweeping"}
    PROVE  \A s \in Slots : slots[s].state \in {"empty", "warm"}
BY OneRuns DEF SlotsInv, OthersRest, UnderWay, Places

LEMMA AdmittedStep ==
    ASSUME SlotsInv, NEW c \in Calls, Admitted(c)
    PROVE  SlotsInv' /\ Worked(c) /\ (SweptAreEmpty => SweptAreEmpty')
<1> DEFINE k == PickSlotForBind
           place == IF Warm(k) THEN "saving" ELSE "loading"
<1>1. Typed /\ SlotShape
  BY DEF SlotsInv
<1>2. Running(c) /\ call[c].at = "queued" /\ call[c].kind = "bind" /\ ~HasSlot(call[c].thread)
      /\ chain' = chain /\ UNCHANGED <<slots, procs, alive, escaped, Bridge>>
  BY DEF Admitted, NeedsAdmission, At
<1>3. k \in Slots /\ place \in {"saving", "loading"}
  BY PickIsSlot
<1>4. GoTo(c, place, k)
  BY DEF Admitted
<1>5. \A s \in Slots : slots[s].state \in {"empty", "warm"}
  BY <1>2, AllRest
<1>6. \A s \in Slots : slots[s].thread # call[c].thread
  BY <1>1, <1>2, <1>5, SlotRecords, SlotsAssumption
     DEF SlotShape, HasSlot, Warm, SlotsInv, CallShape
<1>7. /\ place = "saving" => slots[k].state = "warm"
      /\ place = "loading" => slots[k].state = "empty"
  BY <1>3, <1>5 DEF Warm
<1> HIDE DEF k, place
<1>8. Moves(c, place, k)
  BY <1>1, <1>3, <1>4, GoToMoves DEF Places
<1>9. slots[k] \in Slot /\ Changes(k, slots[k]) /\ Grow
  BY <1>1, <1>2, <1>3, SlotStays, NoProcessStarts
<1>10. \A p \in alive' \ escaped' : p = slots[k].pid \/ (p \in alive \ escaped /\ p # slots[k].pid)
  BY <1>2
<1>11. Fits(c, place, k, slots[k])
  BY <1>1, <1>2, <1>3, <1>6, <1>7, <1>10 DEF Fits, SlotShape
<1>20. SlotsInv'
  BY <1>2, <1>3, <1>8, <1>9, <1>11, CallWorks DEF UnderWay, Places
<1>21. Worked(c)
  BY <1>2, <1>3, <1>8 DEF Worked, UnderWay, Places, Slots
<1>22. ASSUME SweptAreEmpty PROVE SweptAreEmpty'
  BY <1>2, <1>8, NoneSweeps
<1> QED
  BY <1>20, <1>21, <1>22

LEMMA LoadStep ==
    ASSUME SlotsInv, NEW c \in Calls, Load(c)
    PROVE  SlotsInv' /\ Worked(c) /\ (SweptAreEmpty => SweptAreEmpty')
<1> DEFINE k == call[c].slot
           r == [state |-> "warming", thread |-> call[c].thread, pid |-> 0]
<1>1. Typed /\ CallShape /\ CallKnows
  BY DEF SlotsInv
<1>2. Running(c) /\ call[c].at = "loading" /\ chain' = chain
      /\ UNCHANGED <<procs, alive, escaped, Bridge>>
  BY DEF Load, At
<1>3. /\ call[c].kind = "bind" /\ call[c].thread \in Threads
      /\ k \in Slots /\ slots[k] = Empty /\ \A t \in Slots : slots[t].thread # call[c].thread
  BY <1>1, <1>2 DEF CallShape, CallKnows, UnderWay, Places
<1>4. Moves(c, "spawning", k)
  BY <1>1, GoMoves DEF Load, Places
<1>5. r \in Slot /\ r.state = "warming" /\ r.thread = call[c].thread /\ r.pid = 0
      /\ slots' = [slots EXCEPT ![k] = r]
  BY <1>3 DEF Slot, Load
<1> HIDE DEF k, r
<1>6. Changes(k, r) /\ Grow
  BY <1>1, <1>2, <1>3, <1>5, SlotChanges, NoProcessStarts
<1>7. \A p \in alive' \ escaped' : p \in alive \ escaped /\ p # slots[k].pid
  BY <1>1, <1>2, <1>3, SlotRecords DEF Typed
<1>8. Fits(c, "spawning", k, r)
  BY <1>2, <1>3, <1>5, <1>7, SlotsAssumption DEF Fits, k
<1>20. SlotsInv'
  BY <1>2, <1>3, <1>4, <1>5, <1>6, <1>8, CallWorks DEF UnderWay, Places
<1>21. Worked(c)
  BY <1>2, <1>3, <1>4 DEF Worked, UnderWay, Places, Slots
<1>22. ASSUME SweptAreEmpty PROVE SweptAreEmpty'
  BY <1>2, <1>3, <1>4, NoneSweeps
<1> QED
  BY <1>20, <1>21, <1>22

LEMMA HydrateStep ==
    ASSUME SlotsInv, NEW c \in Calls, Hydrate(c)
    PROVE  SlotsInv' /\ Worked(c) /\ (SweptAreEmpty => SweptAreEmpty')
<1> DEFINE k == call[c].slot
           n == Len(procs) + 1
           r == [[slots[k] EXCEPT !.state = "warm"] EXCEPT !.pid = n]
<1>1. Typed /\ CallShape /\ SlotShape /\ CallKnows
  BY DEF SlotsInv
<1>2. Running(c) /\ call[c].at = "spawning" /\ UNCHANGED <<escaped, Bridge>>
  BY DEF Hydrate, At
<1>3. /\ call[c].kind = "bind" /\ call[c].thread \in Threads
      /\ k \in Slots /\ slots[k].state = "warming" /\ slots[k].thread = call[c].thread
      /\ slots[k].pid = 0
  BY <1>1, <1>2 DEF CallShape, CallKnows, SlotShape, UnderWay, Places
<1>4. procs' = Append(procs, call[c].thread) /\ procs' \in Seq(Threads) /\ Len(procs') = n
      /\ procs'[n] = call[c].thread /\ \A p \in 1 .. Len(procs) : procs'[p] = procs[p]
  BY <1>1, <1>3 DEF Hydrate, Typed
<1>5. alive' = alive \cup {n} /\ n \in Nat /\ n # 0 /\ n \in 1 .. n
  BY <1>1, <1>4 DEF Hydrate, Typed
<1>6. Moves(c, "done", k) /\ call'[c].answer = "bound" /\ chain' = Tail(chain)
  BY <1>1, AnswerMoves DEF Hydrate
<1>7. r \in Slot /\ r.state = "warm" /\ r.thread = call[c].thread /\ r.pid = n
  <2>1. slots[k] \in Slot
    BY <1>1, <1>3 DEF Typed
  <2> QED
    BY <1>3, <1>5, <2>1 DEF Slot
<1>8. slots' = [slots EXCEPT ![k] = r]
  BY <1>1, <1>4 DEF Hydrate, Typed
<1> HIDE DEF k, n, r
<1>9. Changes(k, r)
  BY <1>1, <1>3, <1>7, <1>8, SlotChanges
<1>10. Grow
  <2>1. Len(procs) \in Nat /\ n = Len(procs) + 1
    BY <1>1 DEF Typed, n
  <2>2. alive \subseteq 1 .. Len(procs) /\ escaped' \subseteq 1 .. Len(procs)
    BY <1>1, <1>2 DEF Typed
  <2>3. 1 .. Len(procs) \subseteq 1 .. n
    BY <2>1
  <2>4. alive' \subseteq 1 .. n /\ escaped' \subseteq 1 .. n
    BY <1>5, <2>2, <2>3, Zenon
  <2> QED
    BY <1>4, <2>1, <2>4 DEF Grow
<1>11. \A p \in alive' \ escaped' : p = r.pid \/ (p \in alive \ escaped /\ p # slots[k].pid)
  BY <1>1, <1>2, <1>3, <1>5, <1>7 DEF Typed
<1>12. Fits(c, "done", k, r)
  BY <1>2, <1>3, <1>4, <1>5, <1>7, <1>11, SlotsAssumption DEF Fits, k
<1>20. SlotsInv'
  BY <1>2, <1>3, <1>6, <1>7, <1>9, <1>10, <1>12, CallWorks
<1>21. Worked(c)
  <2>1. k \in 0 .. SlotCap
    BY <1>3 DEF Slots
  <2> QED
    BY <1>3, <1>6, <2>1 DEF Worked
<1>22. ASSUME SweptAreEmpty PROVE SweptAreEmpty'
  BY <1>2, <1>6, NoneSweeps
<1> QED
  BY <1>20, <1>21, <1>22

LEMMA SpawnFailsStep ==
    ASSUME SlotsInv, NEW c \in Calls, SpawnFails(c)
    PROVE  SlotsInv' /\ Worked(c) /\ (SweptAreEmpty => SweptAreEmpty')
<1> DEFINE k == call[c].slot
<1>1. Typed /\ CallShape /\ SlotShape /\ CallKnows
  BY DEF SlotsInv
<1>2. Running(c) /\ call[c].at = "spawning" /\ UNCHANGED <<procs, alive, escaped, Bridge>>
  BY DEF SpawnFails, At
<1>3. call[c].kind = "bind" /\ k \in Slots /\ slots[k].pid = 0
  BY <1>1, <1>2 DEF CallShape, CallKnows, SlotShape, UnderWay, Places
<1>4. Moves(c, "done", k) /\ call'[c].answer = "spawnFailed" /\ chain' = Tail(chain)
  BY <1>1, AnswerMoves DEF SpawnFails
<1>5. slots' = [slots EXCEPT ![k] = Empty]
  BY DEF SpawnFails
<1> HIDE DEF k
<1>6. Changes(k, Empty) /\ Grow
  BY <1>1, <1>2, <1>3, <1>5, SlotChanges, NoProcessStarts, SlotRecords
<1>7. \A p \in alive' \ escaped' : p \in alive \ escaped /\ p # slots[k].pid
  BY <1>1, <1>2, <1>3 DEF Typed
<1>8. Fits(c, "done", k, Empty)
  BY <1>2, <1>3, <1>7, SlotRecords DEF Fits, k
<1>20. SlotsInv'
  BY <1>2, <1>3, <1>4, <1>6, <1>8, SlotRecords, CallWorks
<1>21. Worked(c)
  <2>1. k \in 0 .. SlotCap
    BY <1>3 DEF Slots
  <2> QED
    BY <1>3, <1>4, <2>1 DEF Worked
<1>22. ASSUME SweptAreEmpty PROVE SweptAreEmpty'
  BY <1>2, <1>4, NoneSweeps
<1> QED
  BY <1>20, <1>21, <1>22

LEMMA SaveStep ==
    ASSUME SlotsInv, NEW c \in Calls, Save(c)
    PROVE  SlotsInv' /\ Worked(c) /\ (SweptAreEmpty => SweptAreEmpty')
<1> DEFINE k == call[c].slot
           r == [slots[k] EXCEPT !.state = "evicting"]
<1>1. Typed /\ SlotShape /\ CallKnows
  BY DEF SlotsInv
<1>2. Running(c) /\ call[c].at = "saving" /\ chain' = chain
      /\ UNCHANGED <<procs, alive, escaped, Bridge>>
  BY DEF Save, At
<1>3. /\ k \in Slots /\ slots[k].state = "warm" /\ slots[k] \in Slot
      /\ slots[k].pid \in 1 .. Len(procs) /\ slots[k].thread = procs[slots[k].pid]
      /\ slots[k].thread # None
      /\ call[c].kind = "bind" => \A t \in Slots : slots[t].thread # call[c].thread
  BY <1>1, <1>2 DEF CallKnows, SlotShape, Typed, UnderWay, Places
<1>4. Moves(c, "terminating", k)
  BY <1>1, GoMoves DEF Save, Places
<1>5. /\ r \in Slot /\ r.state = "evicting" /\ r.thread = slots[k].thread
      /\ r.pid = slots[k].pid /\ slots' = [slots EXCEPT ![k] = r]
  BY <1>3 DEF Slot, Save
<1> HIDE DEF k, r
<1>6. Changes(k, r) /\ Grow
  BY <1>1, <1>2, <1>3, <1>5, SlotChanges, NoProcessStarts
<1>7. \A p \in alive' \ escaped' : p = r.pid \/ (p \in alive \ escaped /\ p # slots[k].pid)
  BY <1>2, <1>5
<1>8. Fits(c, "terminating", k, r)
  BY <1>2, <1>3, <1>5, <1>7 DEF Fits, k
<1>20. SlotsInv'
  BY <1>2, <1>3, <1>4, <1>5, <1>6, <1>8, CallWorks DEF UnderWay, Places
<1>21. Worked(c)
  BY <1>2, <1>3, <1>4 DEF Worked, UnderWay, Places, Slots
<1>22. ASSUME SweptAreEmpty PROVE SweptAreEmpty'
  <2>1. call[c].kind = "evictAll" => \A s \in 1 .. k : s # k => slots[s] = Empty
    BY <1>2, <1>22 DEF SweptAreEmpty, k
  <2> QED
    BY <1>2, <1>3, <1>4, <1>5, <1>6, <2>1, SweepsOn DEF UnderWay, Places
<1> QED
  BY <1>20, <1>21, <1>22

LEMMA TermTimesOutStep ==
    ASSUME SlotsInv, NEW c \in Calls, TermTimesOut(c)
    PROVE  SlotsInv' /\ Worked(c) /\ (SweptAreEmpty => SweptAreEmpty')
<1> DEFINE k == call[c].slot
<1>1. Typed /\ SlotShape /\ CallKnows
  BY DEF SlotsInv
<1>2. Running(c) /\ call[c].at = "terminating" /\ chain' = chain
      /\ UNCHANGED <<slots, procs, alive, escaped, Bridge>>
  BY DEF TermTimesOut, At
<1>3. /\ k \in Slots /\ slots[k].state = "evicting"
      /\ slots[k].pid \in 1 .. Len(procs) /\ slots[k].thread = procs[slots[k].pid]
      /\ slots[k].thread # None
      /\ call[c].kind = "bind" => \A t \in Slots : slots[t].thread # call[c].thread
  BY <1>1, <1>2 DEF CallKnows, SlotShape, UnderWay, Places
<1>4. Moves(c, "killing", k)
  BY <1>1, GoMoves DEF TermTimesOut, Places
<1> HIDE DEF k
<1>5. slots[k] \in Slot /\ Changes(k, slots[k]) /\ Grow
  BY <1>1, <1>2, <1>3, SlotStays, NoProcessStarts
<1>6. \A p \in alive' \ escaped' :
        p = slots[k].pid \/ (p \in alive \ escaped /\ p # slots[k].pid)
  BY <1>2
<1>7. Fits(c, "killing", k, slots[k])
  BY <1>2, <1>3, <1>6 DEF Fits, k
<1>20. SlotsInv'
  BY <1>2, <1>3, <1>4, <1>5, <1>7, CallWorks DEF UnderWay, Places
<1>21. Worked(c)
  BY <1>2, <1>3, <1>4 DEF Worked, UnderWay, Places, Slots
<1>22. ASSUME SweptAreEmpty PROVE SweptAreEmpty'
  <2>1. call[c].kind = "evictAll" => \A s \in 1 .. k : s # k => slots[s] = Empty
    BY <1>2, <1>22 DEF SweptAreEmpty, k
  <2> QED
    BY <1>2, <1>3, <1>4, <1>5, <2>1, SweepsOn DEF UnderWay, Places
<1> QED
  BY <1>20, <1>21, <1>22

LEMMA EvictedStep ==
    ASSUME SlotsInv, NEW c \in Calls, Running(c), call[c].at \in {"terminating", "killing"},
           Evicted(c)
    PROVE  SlotsInv' /\ Worked(c) /\ (SweptAreEmpty => SweptAreEmpty')
<1> DEFINE k == call[c].slot
           place == IF call[c].kind = "bind" THEN "loading" ELSE "sweeping"
<1>1. Typed /\ CallShape /\ SlotShape /\ CallKnows
  BY DEF SlotsInv
<1>2. chain' = chain /\ UNCHANGED <<procs, alive, Bridge>>
  BY DEF Evicted
<1>3. /\ k \in Slots /\ slots[k].pid \in 1 .. Len(procs)
      /\ call[c].kind \in {"bind", "evictAll"}
      /\ call[c].kind = "bind" => call[c].thread \in Threads
      /\ call[c].kind = "bind" => \A t \in Slots : slots[t].thread # call[c].thread
  BY <1>1 DEF CallShape, CallKnows, SlotShape, UnderWay, Places
<1>4. Moves(c, place, k)
  BY <1>1, GoMoves DEF Evicted, Places
<1>5. slots' = [slots EXCEPT ![k] = Empty] /\ escaped' = escaped \cup (alive \cap {slots[k].pid})
  BY DEF Evicted
<1>6. /\ place \in UnderWay \cup {"done"} /\ place # "done"
      /\ place \notin {"saving", "terminating", "killing", "spawning"}
      /\ place = "loading" => call[c].kind = "bind"
      /\ place = "sweeping" => call[c].kind = "evictAll"
  BY <1>3 DEF UnderWay, Places
<1> HIDE DEF k, place
<1>7. Changes(k, Empty)
  BY <1>1, <1>3, <1>5, SlotChanges, SlotRecords
<1>8. Grow
  <2>1. procs \in Seq(Threads) /\ Len(procs) <= Len(procs)
    BY <1>1 DEF Typed
  <2>2. alive \subseteq 1 .. Len(procs) /\ escaped \subseteq 1 .. Len(procs)
    BY <1>1 DEF Typed
  <2>3. escaped' \subseteq 1 .. Len(procs)
    BY <1>5, <2>2, Zenon
  <2> QED
    BY <1>2, <2>1, <2>2, <2>3, Zenon DEF Grow
<1>9. \A p \in alive' \ escaped' : p \in alive \ escaped /\ p # slots[k].pid
  BY <1>2, <1>5
<1>10. Fits(c, place, k, Empty)
  BY <1>3, <1>6, <1>9, SlotRecords, SlotsAssumption DEF Fits, k
<1>20. SlotsInv'
  BY <1>2, <1>3, <1>4, <1>6, <1>7, <1>8, <1>10, SlotRecords, CallWorks
<1>21. Worked(c)
  BY <1>2, <1>3, <1>4, <1>6 DEF Worked, UnderWay, Places, Slots
<1>22. ASSUME SweptAreEmpty PROVE SweptAreEmpty'
  <2>1. call[c].kind = "evictAll" => \A s \in 1 .. k : s # k => slots[s] = Empty
    BY <1>22 DEF SweptAreEmpty, k
  <2> QED
    BY <1>3, <1>4, <1>6, <1>7, <2>1, SlotRecords, SweepsOn
<1> QED
  BY <1>20, <1>21, <1>22

LEMMA SweepStep ==
    ASSUME SlotsInv, NEW c \in Calls, Sweep(c)
    PROVE  SlotsInv' /\ (SweptAreEmpty => Worked(c) /\ SweptAreEmpty')
<1> DEFINE next == {s \in Slots : s > call[c].slot /\ slots[s].state \in {"warm", "warming"}}
           k == Least(next)
<1>1. Typed /\ CallShape /\ SlotShape
  BY DEF SlotsInv
<1>2. /\ Running(c) /\ call[c].at \in {"queued", "sweeping"} /\ call[c].kind = "evictAll"
      /\ UNCHANGED <<slots, procs, alive, escaped, Bridge>>
      /\ IF next # {} THEN GoTo(c, "saving", k) /\ chain' = chain ELSE Answer(c, "evicted")
  BY DEF Sweep, At
<1>3. \A s \in Slots : slots[s].state \in {"empty", "warm"}
  BY <1>2, AllRest
<1>4. next \in SUBSET Nat
  BY DEF Slots
<1>5. ASSUME SweptAreEmpty, NEW s \in Slots, next = {} \/ s < k
      PROVE  slots[s] = Empty
  <2>1. s \notin next
    BY <1>4, <1>5, LeastIsLeast DEF Slots
  <2>2. CASE s > call[c].slot
    BY <1>1, <1>3, <2>1, <2>2 DEF SlotShape
  <2>3. CASE s \in 1 .. call[c].slot
    <3>1. call[c].at = "sweeping"
      BY <1>1, <1>2, <2>3 DEF CallShape
    <3> QED
      BY <1>2, <1>5, <2>3, <3>1 DEF SweptAreEmpty
  <2>4. s \in 1 .. call[c].slot \/ s > call[c].slot
    BY <1>1, SlotsAssumption DEF Typed, Call, Slots
  <2> QED
    BY <2>2, <2>3, <2>4
<1>6. CASE next # {}
  <2>1. k \in next
    BY <1>4, <1>6, LeastIsLeast
  <2>2. k \in Slots /\ slots[k].state = "warm"
    BY <1>3, <2>1
  <2> HIDE DEF next, k
  <2>3. Moves(c, "saving", k) /\ chain' = chain
    BY <1>1, <1>2, <1>6, <2>2, GoToMoves DEF Places
  <2>4. slots[k] \in Slot /\ Changes(k, slots[k]) /\ Grow
    BY <1>1, <1>2, <2>2, SlotStays, NoProcessStarts
  <2>5. \A p \in alive' \ escaped' :
          p = slots[k].pid \/ (p \in alive \ escaped /\ p # slots[k].pid)
    BY <1>2
  <2>6. Fits(c, "saving", k, slots[k])
    BY <1>1, <1>2, <2>2, <2>5 DEF Fits, SlotShape
  <2>7. SlotsInv'
    BY <1>2, <2>2, <2>3, <2>4, <2>6, CallWorks DEF UnderWay, Places
  <2>8. Worked(c)
    BY <2>2, <2>3 DEF Worked, UnderWay, Places, Slots
  <2>9. ASSUME SweptAreEmpty PROVE SweptAreEmpty'
    <3>1. \A s \in 1 .. k : s # k => s \in Slots /\ s < k
      BY <2>2, SlotsAssumption DEF Slots
    <3>2. \A s \in 1 .. k : s # k => slots[s] = Empty
      BY <1>5, <2>9, <3>1
    <3> QED
      BY <1>2, <2>2, <2>3, <2>4, <3>2, SweepsOn DEF UnderWay, Places
  <2> QED
    BY <2>7, <2>8, <2>9
<1>7. CASE next = {}
  <2>1. Moves(c, "done", call[c].slot) /\ chain' = Tail(chain)
    BY <1>1, <1>2, <1>7, AnswerMoves
  <2>2. SlotsInv'
    BY <1>2, <2>1, CallEnds
  <2>3. ASSUME SweptAreEmpty PROVE Worked(c)
    <3>1. \A t \in Slots : slots'[t] = Empty
      BY <1>2, <1>5, <1>7, <2>3
    <3>2. call[c].slot \in 0 .. SlotCap
      BY <1>1 DEF Typed, Call
    <3> QED
      BY <2>1, <3>1, <3>2 DEF Worked
  <2>4. SweptAreEmpty'
    BY <1>2, <2>1, NoneSweeps
  <2> QED
    BY <2>2, <2>3, <2>4
<1> QED
  BY <1>6, <1>7

\* The answers of a bind that leave the slots as they are.
LEMMA BindAnsweredStep ==
    ASSUME SlotsInv, NEW c \in Calls,
           BindWarm(c) \/ AdmissionRefuses(c) \/ AdmissionTierCap(c)
    PROVE  SlotsInv' /\ Worked(c) /\ (SweptAreEmpty => SweptAreEmpty')
<1>1. PICK a \in {"warm", "refused", "tierCap"} : Answer(c, a)
  BY DEF BindWarm, AdmissionRefuses, AdmissionTierCap
<1>2. /\ Running(c) /\ call[c].at = "queued" /\ call[c].kind = "bind"
      /\ UNCHANGED <<slots, procs, alive, escaped, Bridge>>
  BY DEF BindWarm, AdmissionRefuses, AdmissionTierCap, NeedsAdmission, At
<1>3. /\ Moves(c, "done", call[c].slot) /\ call'[c].answer = a /\ chain' = Tail(chain)
      /\ call[c].slot \in 0 .. SlotCap
  BY <1>1, AnswerMoves DEF SlotsInv, Typed, Call
<1>4. SlotsInv'
  BY <1>2, <1>3, CallEnds
<1>5. Worked(c)
  BY <1>2, <1>3 DEF Worked
<1>6. SweptAreEmpty'
  BY <1>2, <1>3, NoneSweeps
<1> QED
  BY <1>4, <1>5, <1>6

-----------------------------------------------------------------------------
(* Steps of the others *)

\* A process ends.
LEMMA ProcessExitStep ==
    ASSUME SlotsInv, NEW p, ProcessExit(p)
    PROVE  SlotsInv'
BY DEF ProcessExit, Bridge, SlotsInv, Typed, OneAtATime, CallShape, SlotShape, OthersRest,
       CallKnows, ThreadsOnce, LiveInSlots

\* The bridge's own variables do not matter to the slots.
LEMMA ShutdownStep ==
    ASSUME SlotsInv, DrainEnds \/ DrainTimesOut \/ Exit
    PROVE  SlotsInv'
<1>1. Typed'
  BY DEF SlotsInv, Typed, DrainEnds, DrainTimesOut, Exit
<1> QED
  BY <1>1 DEF DrainEnds, DrainTimesOut, Exit, SlotsInv, OneAtATime, CallShape, SlotShape,
              OthersRest, CallKnows, ThreadsOnce, LiveInSlots

\* A new call waits at the end of the chain.
LEMMA EnqueueStep ==
    ASSUME SlotsInv, NEW c \in Calls, NEW kind \in {"bind", "evictAll"},
           NEW t \in Threads \cup {None}, kind = "bind" => t \in Threads,
           Enqueue(c, kind, t), UNCHANGED <<slots, procs, alive, escaped>>,
           shutdown' \in [phase : {"up", "draining", "exiting", "down"}, drain : Calls \cup {None}],
           draining' \in BOOLEAN, lateBind' \in BOOLEAN, timedOut' \in BOOLEAN
    PROVE  SlotsInv' /\ call'[c].at = "queued" /\ call'[c].kind = kind
           /\ call'[c].answer = call[c].answer
           /\ \A d \in Calls \ {c} : call'[d] = call[d]
<1> DEFINE r == [[[call[c] EXCEPT !.kind = kind] EXCEPT !.thread = t] EXCEPT !.at = "queued"]
<1>1. /\ Typed /\ OneAtATime /\ CallShape /\ SlotShape /\ OthersRest /\ CallKnows
      /\ ThreadsOnce /\ LiveInSlots
  BY DEF SlotsInv
<1>2. call[c] = NotCalled /\ call[c] \in Call /\ call[c].at = "idle" /\ call[c].slot = 0
  BY <1>1 DEF Enqueue, Typed, NotCalled
<1>3. /\ r \in Call /\ r.at = "queued" /\ r.kind = kind /\ r.thread = t /\ r.slot = 0
      /\ r.answer = call[c].answer
  BY <1>2 DEF Call, Places
<1>4. call' = [call EXCEPT ![c] = r] /\ chain' = Append(chain, c)
  BY DEF Enqueue
<1> HIDE DEF r
<1>5. /\ call' \in [Calls -> Call] /\ call'[c] = r
      /\ \A d \in Calls \ {c} : call'[d] = call[d]
  BY <1>1, <1>3, <1>4 DEF Typed
<1>6. /\ chain' \in Seq(Calls) /\ Len(chain') = Len(chain) + 1 /\ chain'[Len(chain')] = c
      /\ \A i \in 1 .. Len(chain) : chain'[i] = chain[i] /\ chain[i] \in Calls \ {c}
  BY <1>1, <1>2, <1>4 DEF Typed, OneAtATime
<1>7. Typed'
  BY <1>1, <1>5, <1>6 DEF Typed
<1>8. OneAtATime'
  <2>1. \A i \in 1 .. Len(chain') : i \in 1 .. Len(chain) \/ i = Len(chain')
    BY <1>1, <1>6 DEF Typed
  <2>2. \A i \in 1 .. Len(chain') : call'[chain'[i]].at \notin {"idle", "done"}
    BY <1>1, <1>3, <1>5, <1>6, <2>1 DEF OneAtATime
  <2>3. \A i, j \in 1 .. Len(chain') : chain'[i] = chain'[j] => i = j
    BY <1>1, <1>6, <2>1 DEF OneAtATime
  <2>4. \A d \in Calls : call'[d].at \in UnderWay => d # c /\ call[d].at \in UnderWay
    BY <1>3, <1>5 DEF UnderWay
  <2>5. Len(chain) > 0 => Len(chain') > 0 /\ chain'[1] = chain[1]
    BY <1>1, <1>6 DEF Typed
  <2> QED
    BY <1>1, <2>2, <2>3, <2>4, <2>5 DEF OneAtATime
<1>9. CallShape' /\ SlotShape'
  BY <1>1, <1>3, <1>5 DEF CallShape, SlotShape
<1>10. OthersRest' /\ CallKnows'
  BY <1>1, <1>2, <1>3, <1>5 DEF OthersRest, CallKnows, UnderWay
<1>11. ThreadsOnce' /\ LiveInSlots'
  BY <1>1 DEF ThreadsOnce, LiveInSlots
<1> QED
  BY <1>3, <1>5, <1>7, <1>8, <1>9, <1>10, <1>11 DEF SlotsInv

-----------------------------------------------------------------------------
(* The invariant *)

LEMMA SlotsInit == Init => ShutdownInv
<1> SUFFICES ASSUME Init PROVE ShutdownInv
  OBVIOUS
<1> USE SlotRecords, SlotsAssumption DEF Init
<1>1. \A s \in Slots : slots[s] = Empty
  OBVIOUS
<1>2. \A c \in Calls : call[c] = NotCalled
  OBVIOUS
<1>3. NotCalled.at = "idle" /\ NotCalled.kind = "none"
  BY DEF NotCalled
<1>4. Typed
  <2>1. slots \in [Slots -> Slot] /\ call \in [Calls -> Call]
    OBVIOUS
  <2>2. chain \in Seq(Calls) /\ procs \in Seq(Threads) /\ alive = {} /\ escaped = {}
    OBVIOUS
  <2>3. /\ shutdown = [phase |-> "up", drain |-> None]
        /\ draining = FALSE /\ lateBind = FALSE /\ timedOut = FALSE
    OBVIOUS
  <2> QED
    BY ONLY <2>1, <2>2, <2>3 DEF Typed
<1>5. OneAtATime
  BY <1>2, <1>3 DEF OneAtATime, UnderWay
<1>6. CallShape /\ CallKnows
  BY <1>2, <1>3 DEF CallShape, CallKnows, UnderWay
<1>7. SlotShape /\ OthersRest /\ ThreadsOnce /\ LiveInSlots
  BY <1>1 DEF SlotShape, OthersRest, ThreadsOnce, LiveInSlots
<1>8. SweptAreEmpty /\ DrainIsLast
  BY <1>2, <1>3 DEF SweptAreEmpty, DrainIsLast
<1> QED
  BY <1>4, <1>5, <1>6, <1>7, <1>8 DEF ShutdownInv, SlotsInv

\* Steps of calls, whoever makes them.
LEMMA CallStep ==
    ASSUME SlotsInv, NEW c \in Calls, Step(c) \/ SignalDenied(c)
    PROVE  SlotsInv' /\ Running(c) /\ UNCHANGED Bridge
           /\ (SweptAreEmpty => Worked(c) /\ SweptAreEmpty')
<1>1. CASE BindWarm(c) \/ AdmissionRefuses(c) \/ AdmissionTierCap(c)
  BY <1>1, BindAnsweredStep DEF BindWarm, AdmissionRefuses, AdmissionTierCap, NeedsAdmission, At
<1>2. CASE Admitted(c)
  BY <1>2, AdmittedStep DEF Admitted, NeedsAdmission, At
<1>3. CASE Load(c)
  BY <1>3, LoadStep DEF Load, At
<1>4. CASE Hydrate(c)
  BY <1>4, HydrateStep DEF Hydrate, At
<1>5. CASE SpawnFails(c)
  BY <1>5, SpawnFailsStep DEF SpawnFails, At
<1>6. CASE Save(c)
  BY <1>6, SaveStep DEF Save, At
<1>7. CASE TermTimesOut(c)
  BY <1>7, TermTimesOutStep DEF TermTimesOut, At
<1>8. CASE Exited(c) \/ KillTimesOut(c) \/ SignalDenied(c)
  <2>1. Running(c) /\ call[c].at \in {"terminating", "killing"} /\ Evicted(c)
    BY <1>8 DEF Exited, KillTimesOut, SignalDenied, At
  <2> QED
    BY <2>1, EvictedStep DEF Evicted
<1>9. CASE Sweep(c)
  BY <1>9, SweepStep DEF Sweep, At
<1> QED
  BY <1>1, <1>2, <1>3, <1>4, <1>5, <1>6, <1>7, <1>8, <1>9 DEF Step

\* The drain of the shutdown stays the last call until it ends.
LEMMA DrainGoesOn ==
    ASSUME ShutdownInv, NEW c \in Calls, Running(c), Worked(c), UNCHANGED Bridge
    PROVE  DrainIsLast'
<1> DEFINE d == shutdown.drain
<1>1. Typed /\ OneAtATime /\ DrainIsLast /\ UNCHANGED <<draining, shutdown, lateBind, timedOut>>
  BY DEF ShutdownInv, SlotsInv, Bridge
<1>2. PICK place \in UnderWay \cup {"done"}, s \in 0 .. SlotCap :
        /\ Moves(c, place, s)
        /\ chain' = IF place = "done" THEN Tail(chain) ELSE chain
        /\ place = "done" /\ (call[c].kind = "evictAll" \/ call'[c].answer = "evicted") =>
             \A t \in Slots : slots'[t] = Empty
  BY DEF Worked
<1>3. Len(chain) > 0 /\ chain[1] = c /\ call[c].at \notin {"idle", "done"} /\ chain \in Seq(Calls)
  BY <1>1, OneRuns DEF Typed
<1>4. CASE d = None
  BY <1>1, <1>4 DEF DrainIsLast
<1>5. CASE d # None /\ (lateBind \/ d = c)
  <2>1. d \in Calls /\ call'[d].kind = "evictAll" /\ call'[d].at # "idle"
    BY <1>1, <1>2, <1>5 DEF Typed, DrainIsLast, Moves, UnderWay
  <2>2. shutdown.phase # "draining" /\ ~timedOut => call'[d].at = "done"
    BY <1>1, <1>2, <1>3, <1>5, <2>1 DEF DrainIsLast, Moves
  <2>3. ~lateBind => d = c /\ chain[Len(chain)] = c
    BY <1>1, <1>3, <1>5 DEF DrainIsLast
  <2>4. ~lateBind => Len(chain) = 1
    <3>1. 1 \in 1 .. Len(chain) /\ Len(chain) \in 1 .. Len(chain)
      BY <1>3
    <3> QED
      BY <1>1, <1>3, <2>3, <3>1 DEF OneAtATime
  <2>5. ~lateBind /\ call'[d].at # "done" => chain' = chain
    BY <1>2, <2>3 DEF Moves
  <2>6. ~lateBind /\ call'[d].at = "done" => chain' = <<>> /\ \A t \in Slots : slots'[t] = Empty
    BY <1>1, <1>2, <1>3, <1>5, <2>3, <2>4 DEF Moves, DrainIsLast
  <2> HIDE DEF d
  <2> QED
    BY <1>1, <1>3, <1>5, <2>1, <2>2, <2>3, <2>5, <2>6 DEF DrainIsLast, d
<1>6. CASE d # None /\ ~lateBind /\ d # c
  <2>1. d \in Calls /\ call'[d] = call[d]
    BY <1>1, <1>2, <1>6 DEF Typed, DrainIsLast, Moves
  <2>2. call[d].at # "done" /\ chain[Len(chain)] = d
    BY <1>1, <1>3, <1>6 DEF DrainIsLast
  <2>3. Len(chain) > 1
    BY <1>3, <1>6, <2>2
  <2>4. Len(chain') > 0 /\ chain'[Len(chain')] = d
    BY <1>2, <1>3, <2>2, <2>3
  <2> QED
    BY <1>1, <1>6, <2>1, <2>2, <2>4 DEF DrainIsLast
<1> QED
  BY <1>4, <1>5, <1>6

\* A call that arrives starts no sweep.
LEMMA ArrivalSweepsNothing ==
    ASSUME SweptAreEmpty, NEW c \in Calls, call'[c].at = "queued", UNCHANGED slots,
           \A d \in Calls \ {c} : call'[d] = call[d]
    PROVE  SweptAreEmpty'
BY DEF SweptAreEmpty

LEMMA BindArrives ==
    ASSUME ShutdownInv, NEW c \in Calls, NEW t \in Threads, Bind(c, t)
    PROVE  ShutdownInv' /\ call'[c].answer = call[c].answer
           /\ \A d \in Calls \ {c} : call'[d] = call[d]
<1>1. /\ Enqueue(c, "bind", t) /\ lateBind' = (lateBind \/ draining)
      /\ UNCHANGED <<slots, procs, alive, draining, shutdown, timedOut, escaped>>
  BY DEF Bind
<1>2. SlotsInv /\ Typed /\ SweptAreEmpty /\ DrainIsLast /\ call[c] = NotCalled
  BY <1>1 DEF ShutdownInv, SlotsInv, Enqueue
<1>3. /\ SlotsInv' /\ call'[c].at = "queued" /\ call'[c].answer = call[c].answer
      /\ \A d \in Calls \ {c} : call'[d] = call[d]
  BY <1>1, <1>2, EnqueueStep DEF Typed
<1>4. SweptAreEmpty'
  BY <1>1, <1>2, <1>3, ArrivalSweepsNothing
<1>5. DrainIsLast'
  <2>1. CASE shutdown.drain = None
    BY <1>1, <1>2, <2>1 DEF DrainIsLast
  <2>2. CASE shutdown.drain # None
    <3>1. lateBind'
      BY <1>1, <1>2, <2>2 DEF DrainIsLast
    <3>2. shutdown.drain \in Calls \ {c}
      BY <1>2, <2>2 DEF DrainIsLast, Typed, NotCalled
    <3> QED
      BY <1>1, <1>2, <1>3, <2>2, <3>1, <3>2 DEF DrainIsLast
  <2> QED
    BY <2>1, <2>2
<1> QED
  BY <1>3, <1>4, <1>5 DEF ShutdownInv

LEMMA DrainArrives ==
    ASSUME ShutdownInv, NEW c \in Calls, DrainRoute(c)
    PROVE  ShutdownInv' /\ call'[c].answer = call[c].answer
           /\ \A d \in Calls \ {c} : call'[d] = call[d]
<1>1. /\ Enqueue(c, "evictAll", None) /\ ~draining /\ draining' = TRUE
      /\ UNCHANGED <<slots, procs, alive, shutdown, lateBind, timedOut, escaped>>
  BY DEF DrainRoute
<1>2. SlotsInv /\ Typed /\ SweptAreEmpty /\ DrainIsLast
  BY DEF ShutdownInv, SlotsInv
<1>3. /\ SlotsInv' /\ call'[c].at = "queued" /\ call'[c].answer = call[c].answer
      /\ \A d \in Calls \ {c} : call'[d] = call[d]
  BY <1>1, <1>2, EnqueueStep DEF Typed
<1>4. SweptAreEmpty'
  BY <1>1, <1>2, <1>3, ArrivalSweepsNothing
<1>5. DrainIsLast'
  BY <1>1, <1>2 DEF DrainIsLast
<1> QED
  BY <1>3, <1>4, <1>5 DEF ShutdownInv

LEMMA SigtermArrives ==
    ASSUME ShutdownInv, NEW c \in Calls, Sigterm(c)
    PROVE  ShutdownInv' /\ \A d \in Calls : call'[d].answer = call[d].answer
<1>1. SlotsInv /\ Typed /\ SweptAreEmpty /\ DrainIsLast /\ shutdown.phase = "up"
      /\ UNCHANGED <<slots, procs, alive, lateBind, timedOut, escaped>>
  BY DEF ShutdownInv, SlotsInv, Sigterm
<1>2. CASE draining
  <2>1. shutdown' = [phase |-> "exiting", drain |-> None] /\ UNCHANGED <<call, chain, draining>>
    BY <1>2 DEF Sigterm
  <2>2. SlotsInv'
    <3>1. Typed'
      BY <1>1, <2>1 DEF Typed
    <3> QED
      BY <1>1, <2>1, <3>1 DEF SlotsInv, OneAtATime, CallShape, SlotShape, OthersRest, CallKnows,
                            ThreadsOnce, LiveInSlots
  <2>3. SweptAreEmpty' /\ DrainIsLast'
    BY <1>1, <2>1 DEF SweptAreEmpty, DrainIsLast
  <2> QED
    BY <2>1, <2>2, <2>3 DEF ShutdownInv
<1>3. CASE ~draining
  <2>1. /\ shutdown' = [phase |-> "draining", drain |-> c] /\ draining' = TRUE
        /\ Enqueue(c, "evictAll", None)
    BY <1>3 DEF Sigterm
  <2>2. shutdown' \in [phase : {"up", "draining", "exiting", "down"}, drain : Calls \cup {None}]
    BY <2>1
  <2>3. /\ SlotsInv' /\ call'[c].at = "queued" /\ call'[c].kind = "evictAll"
        /\ call'[c].answer = call[c].answer
        /\ \A d \in Calls \ {c} : call'[d] = call[d]
    BY <1>1, <2>1, <2>2, EnqueueStep DEF Typed
  <2>4. SweptAreEmpty'
    BY <1>1, <2>3, ArrivalSweepsNothing
  <2>5. Len(chain') > 0 /\ chain'[Len(chain')] = c
    BY <1>1, <2>1 DEF Enqueue, Typed
  <2>6. c # None
    BY SlotsAssumption DEF Calls
  <2>7. DrainIsLast'
    BY <2>1, <2>3, <2>5, <2>6 DEF DrainIsLast
  <2> QED
    BY <2>3, <2>4, <2>7 DEF ShutdownInv
<1> QED
  BY <1>2, <1>3

LEMMA ShutdownGoesOn ==
    ASSUME ShutdownInv, DrainEnds \/ DrainTimesOut \/ Exit
    PROVE  ShutdownInv' /\ UNCHANGED call
<1>1. SlotsInv' /\ UNCHANGED <<call, slots, chain, draining, lateBind>>
  BY ShutdownStep DEF ShutdownInv, DrainEnds, DrainTimesOut, Exit
<1>2. SweptAreEmpty /\ DrainIsLast /\ Typed
  BY DEF ShutdownInv, SlotsInv
<1>3. shutdown'.drain = shutdown.drain
  BY <1>2 DEF DrainEnds, DrainTimesOut, Exit, Typed
<1>4. DrainIsLast'
  <2>1. CASE DrainEnds
    <3>1. shutdown'.phase = "exiting" /\ call[shutdown.drain].at = "done" /\ timedOut' = timedOut
      BY <1>2, <2>1 DEF DrainEnds, Typed
    <3> QED
      BY <1>1, <1>2, <1>3, <3>1 DEF DrainIsLast
  <2>2. CASE DrainTimesOut
    <3>1. shutdown'.phase = "exiting" /\ timedOut'
      BY <1>2, <2>2 DEF DrainTimesOut, Typed
    <3> QED
      BY <1>1, <1>2, <1>3, <3>1 DEF DrainIsLast
  <2>3. CASE Exit
    <3>1. shutdown'.phase = "down" /\ shutdown.phase = "exiting" /\ timedOut' = timedOut
      BY <1>2, <2>3 DEF Exit, Typed
    <3> QED
      BY <1>1, <1>2, <1>3, <3>1 DEF DrainIsLast
  <2> QED
    BY <2>1, <2>2, <2>3
<1> QED
  BY <1>1, <1>2, <1>4 DEF ShutdownInv, SweptAreEmpty

\* Every step keeps the invariant, and an evictAll is answered when every slot
\* is empty.
LEMMA SlotsNext ==
    ASSUME ShutdownInv, [Next]_vars
    PROVE  /\ ShutdownInv'
           /\ \A d \in Calls : call'[d].answer = "evicted" /\ call[d].answer # "evicted"
                => \A s \in Slots : slots'[s] = Empty
<1>1. SlotsInv /\ SweptAreEmpty /\ DrainIsLast
  BY DEF ShutdownInv
<1>2. ASSUME NEW c \in Calls, NEW t \in Threads, Bind(c, t)
      PROVE  ShutdownInv' /\ \A d \in Calls : call'[d].answer = call[d].answer
  BY <1>2, BindArrives
<1>3. ASSUME NEW c \in Calls, DrainRoute(c)
      PROVE  ShutdownInv' /\ \A d \in Calls : call'[d].answer = call[d].answer
  BY <1>3, DrainArrives
<1>4. ASSUME NEW c \in Calls, Sigterm(c)
      PROVE  ShutdownInv' /\ \A d \in Calls : call'[d].answer = call[d].answer
  BY <1>4, SigtermArrives
<1>5. ASSUME NEW c \in Calls, Step(c) \/ SignalDenied(c)
      PROVE  /\ ShutdownInv'
             /\ \A d \in Calls : call'[d].answer = "evicted" /\ call[d].answer # "evicted"
                  => \A s \in Slots : slots'[s] = Empty
  <2>1. SlotsInv' /\ Running(c) /\ UNCHANGED Bridge /\ Worked(c) /\ SweptAreEmpty'
    BY <1>1, <1>5, CallStep
  <2>2. DrainIsLast'
    BY <2>1, DrainGoesOn
  <2> QED
    BY <2>1, <2>2 DEF ShutdownInv, Worked, Moves
<1>6. ASSUME NEW p, ProcessExit(p)
      PROVE  ShutdownInv' /\ UNCHANGED call
  <2>1. SlotsInv' /\ UNCHANGED <<call, slots, chain, Bridge>>
    BY <1>1, <1>6, ProcessExitStep DEF ProcessExit
  <2>2. SweptAreEmpty' /\ DrainIsLast'
    BY <1>1, <2>1 DEF SweptAreEmpty, DrainIsLast, Bridge
  <2> QED
    BY <2>1, <2>2 DEF ShutdownInv
<1>7. CASE DrainEnds \/ DrainTimesOut \/ Exit
  BY <1>7, ShutdownGoesOn
<1>8. CASE UNCHANGED vars
  <2>1. Typed'
    BY <1>1, <1>8 DEF vars, SlotsInv, Typed
  <2> QED
    BY <1>1, <1>8, <2>1 DEF vars, ShutdownInv, SlotsInv, OneAtATime, CallShape, SlotShape,
       OthersRest, CallKnows, ThreadsOnce, LiveInSlots, SweptAreEmpty, DrainIsLast
<1> QED
  BY <1>2, <1>3, <1>4, <1>5, <1>6, <1>7, <1>8 DEF Next, Steps

LEMMA AlwaysInv == Spec => []ShutdownInv
<1>1. ShutdownInv /\ [Next]_vars => ShutdownInv'
  BY SlotsNext
<1> QED
  BY SlotsInit, <1>1, PTL DEF Spec

-----------------------------------------------------------------------------
(* The warm cache *)

\* The cache names threads that have a slot, each once. A thread that is being
\* spawned has its slot already and is not in the cache yet.
CacheNames ==
    /\ warmCacheLru \in Seq(Threads) /\ Len(warmCacheLru) <= WarmCacheSize
    /\ \A i, j \in 1 .. Len(warmCacheLru) : warmCacheLru[i] = warmCacheLru[j] => i = j
    /\ \A i \in 1 .. Len(warmCacheLru) : \E s \in Slots : slots[s].thread = warmCacheLru[i]
    /\ \A c \in Calls : call[c].at = "spawning" =>
         \A i \in 1 .. Len(warmCacheLru) : warmCacheLru[i] # call[c].thread

Evicting == {"saving", "terminating", "killing"}

\* Where there is a choice, some thread is the most recent one as long as a slot
\* is warm, unless an evictAll is under way, and a bind evicts another one.
MostRecentIsKept ==
    SlotCap > 1 =>
        /\ \A s \in Slots : Warm(s) =>
             \/ Len(warmCacheLru) > 0
             \/ \E c \in Calls : call[c].kind = "evictAll" /\ call[c].at \in UnderWay
        /\ \A c \in Calls : call[c].kind = "bind" /\ call[c].at \in Evicting =>
             /\ Len(warmCacheLru) > 0
             /\ warmCacheLru[Len(warmCacheLru)] # slots[call[c].slot].thread

CacheInv == CacheNames /\ MostRecentIsKept

\* RemoveFirst takes out one place, where the element is, or nothing.
LEMMA OneRemoved ==
    ASSUME NEW T, NEW s \in Seq(T), NEW t
    PROVE  \/ RemoveFirst(s, t) = s /\ \A i \in 1 .. Len(s) : s[i] # t
           \/ \E k \in 1 .. Len(s) :
                /\ s[k] = t
                /\ RemoveFirst(s, t) \in Seq(T) /\ Len(RemoveFirst(s, t)) = Len(s) - 1
                /\ \A i \in 1 .. Len(s) - 1 :
                     RemoveFirst(s, t)[i] = IF i < k THEN s[i] ELSE s[i + 1]
<1> DEFINE I == {i \in 1 .. Len(s) : s[i] = t}
           k == Min(I)
<1>1. CASE I = {}
  BY <1>1 DEF RemoveFirst
<1>2. CASE I # {}
  <2>1. I \in SUBSET Nat /\ Min(I) = Least(I)
    BY DEF Min, Least
  <2>2. k \in 1 .. Len(s) /\ s[k] = t
    BY <1>2, <2>1, LeastIsLeast
  <2>3. SelectInSeq(s, LAMBDA v : v = t) = k
    BY <1>2 DEF SelectInSeq
  <2>4. RemoveFirst(s, t) = RemoveAt(s, k)
    BY <1>2, <2>3 DEF RemoveFirst
  <2> HIDE DEF k
  <2> DEFINE a == SubSeq(s, 1, k - 1)
             b == SubSeq(s, k + 1, Len(s))
  <2>5. RemoveFirst(s, t) = a \o b
    BY <2>4 DEF RemoveAt
  <2>6. a \in Seq(T) /\ Len(a) = k - 1 /\ \A i \in 1 .. k - 1 : a[i] = s[i]
    BY <2>2
  <2>7. b \in Seq(T) /\ Len(b) = Len(s) - k /\ \A i \in 1 .. Len(s) - k : b[i] = s[k + i]
    BY <2>2
  <2> HIDE DEF a, b
  <2>8. /\ a \o b \in Seq(T) /\ Len(a \o b) = Len(a) + Len(b)
        /\ \A i \in 1 .. Len(a) + Len(b) :
             (a \o b)[i] = IF i <= Len(a) THEN a[i] ELSE b[i - Len(a)]
    <3>1. a \in Seq(T) /\ b \in Seq(T)
      BY <2>6, <2>7
    <3> QED
      BY ONLY <3>1
  <2>9. Len(a) + Len(b) = Len(s) - 1
    BY <2>2, <2>6, <2>7
  <2>10. ASSUME NEW i \in 1 .. Len(s) - 1
         PROVE  (a \o b)[i] = IF i < k THEN s[i] ELSE s[i + 1]
    <3>1. CASE i < k
      BY <2>2, <2>6, <2>8, <2>9, <3>1
    <3>2. CASE ~(i < k)
      <4>1. /\ i - (k - 1) \in 1 .. Len(s) - k /\ k + (i - (k - 1)) = i + 1
            /\ ~(i <= k - 1)
        BY <2>2, <3>2
      <4>2. (a \o b)[i] = b[i - (k - 1)]
        BY <2>6, <2>8, <2>9, <4>1
      <4> QED
        BY <2>7, <3>2, <4>1, <4>2
    <3> QED
      BY <3>1, <3>2
  <2> QED
    BY <2>2, <2>5, <2>8, <2>9, <2>10
<1> QED
  BY <1>1, <1>2

\* Removing a thread from a list that has it once.
LEMMA Forgotten ==
    ASSUME NEW s \in Seq(Threads), NEW t,
           \A i, j \in 1 .. Len(s) : s[i] = s[j] => i = j
    PROVE  /\ RemoveFirst(s, t) \in Seq(Threads) /\ Len(RemoveFirst(s, t)) <= Len(s)
           /\ \A i, j \in 1 .. Len(RemoveFirst(s, t)) :
                RemoveFirst(s, t)[i] = RemoveFirst(s, t)[j] => i = j
           /\ \A i \in 1 .. Len(RemoveFirst(s, t)) :
                RemoveFirst(s, t)[i] # t /\ \E j \in 1 .. Len(s) : s[j] = RemoveFirst(s, t)[i]
           /\ Len(s) > 0 /\ s[Len(s)] # t =>
                Len(RemoveFirst(s, t)) > 0 /\ RemoveFirst(s, t)[Len(RemoveFirst(s, t))] = s[Len(s)]
<1> DEFINE r == RemoveFirst(s, t)
<1>1. CASE r = s /\ \A i \in 1 .. Len(s) : s[i] # t
  BY <1>1
<1>2. CASE \E k \in 1 .. Len(s) :
             /\ s[k] = t
             /\ r \in Seq(Threads) /\ Len(r) = Len(s) - 1
             /\ \A i \in 1 .. Len(s) - 1 : r[i] = IF i < k THEN s[i] ELSE s[i + 1]
  <2>1. PICK k \in 1 .. Len(s) :
             /\ s[k] = t
             /\ r \in Seq(Threads) /\ Len(r) = Len(s) - 1
             /\ \A i \in 1 .. Len(s) - 1 : r[i] = IF i < k THEN s[i] ELSE s[i + 1]
    BY <1>2
  <2> HIDE DEF r
  <2>2. \A i \in 1 .. Len(r) : \E j \in 1 .. Len(s) : j = (IF i < k THEN i ELSE i + 1) /\ j # k /\ r[i] = s[j]
    BY <2>1
  <2>3. ASSUME NEW i \in 1 .. Len(r) PROVE r[i] # t /\ \E j \in 1 .. Len(s) : s[j] = r[i]
    <3>1. PICK j \in 1 .. Len(s) : j # k /\ r[i] = s[j]
      BY <2>2
    <3>2. s[j] # t
      BY <2>1, <3>1
    <3> QED
      BY <3>1, <3>2
  <2>4. \A i, j \in 1 .. Len(r) : r[i] = r[j] => i = j
    <3>1. \A i, j \in 1 .. Len(r) : r[i] = r[j] =>
            (IF i < k THEN i ELSE i + 1) = (IF j < k THEN j ELSE j + 1)
      BY <2>2
    <3>2. \A i, j \in Nat : (IF i < k THEN i ELSE i + 1) = (IF j < k THEN j ELSE j + 1) => i = j
      OBVIOUS
    <3> QED
      BY <3>1, <3>2
  <2>5. ASSUME Len(s) > 0, s[Len(s)] # t PROVE Len(r) > 0 /\ r[Len(r)] = s[Len(s)]
    <3>1. k < Len(s)
      BY <2>1, <2>5
    <3>2. Len(r) > 0 /\ Len(r) \in 1 .. Len(s) - 1 /\ ~(Len(r) < k) /\ Len(r) + 1 = Len(s)
      BY <2>1, <3>1
    <3> QED
      BY <2>1, <3>2
  <2>6. Len(r) <= Len(s)
    BY <2>1
  <2> QED
    BY <2>1, <2>3, <2>4, <2>5, <2>6 DEF r
<1> QED
  BY <1>1, <1>2, OneRemoved

\* A thread that is touched is the most recent one, and no thread comes in beside it.
LEMMA Touched ==
    ASSUME CacheNames, NEW t \in Threads
    PROVE  LET r == TouchWarmCache(t)
           IN  /\ r \in Seq(Threads) /\ Len(r) > 0 /\ Len(r) <= WarmCacheSize
               /\ \A i, j \in 1 .. Len(r) : r[i] = r[j] => i = j
               /\ \A i \in 1 .. Len(r) :
                    r[i] = t \/ \E j \in 1 .. Len(warmCacheLru) : warmCacheLru[j] = r[i]
<1> DEFINE f == RemoveFirst(warmCacheLru, t)
           a == Append(f, t)
           n == Len(a)
           e == IF n > WarmCacheSize THEN n - WarmCacheSize ELSE 0
           r == SubSeq(a, e + 1, n)
<1>1. /\ f \in Seq(Threads)
      /\ \A i, j \in 1 .. Len(f) : f[i] = f[j] => i = j
      /\ \A i \in 1 .. Len(f) : f[i] # t /\ \E j \in 1 .. Len(warmCacheLru) : warmCacheLru[j] = f[i]
  BY Forgotten DEF CacheNames
<1>2. TouchWarmCache(t) = r
  BY DEF TouchWarmCache
<1>3. WarmCacheSize \in Nat /\ WarmCacheSize > 0
  BY SlotsAssumption
<1> HIDE DEF f
<1>4. /\ a \in Seq(Threads) /\ n = Len(f) + 1 /\ n \in Nat /\ a[n] = t
      /\ \A i \in 1 .. n : i # n => i \in 1 .. Len(f) /\ a[i] = f[i]
  BY <1>1
<1> HIDE DEF a, n
<1>5. ASSUME NEW i \in 1 .. n, NEW j \in 1 .. n, a[i] = a[j] PROVE i = j
  <2>1. CASE i # n /\ j # n
    BY <1>1, <1>4, <1>5, <2>1
  <2>2. i = n <=> j = n
    BY <1>1, <1>4, <1>5
  <2> QED
    BY <2>1, <2>2
<1>6. \A i \in 1 .. n : a[i] = t \/ \E j \in 1 .. Len(warmCacheLru) : warmCacheLru[j] = a[i]
  BY <1>1, <1>4
<1>7. e \in Nat /\ e < n /\ n - e <= WarmCacheSize
  BY <1>1, <1>3, <1>4
<1> HIDE DEF e
<1>8. /\ r \in Seq(Threads) /\ Len(r) = n - e
      /\ \A i \in 1 .. n - e : r[i] = a[e + i]
  BY <1>4, <1>7 DEF n
<1> HIDE DEF r
<1>9. \A i \in 1 .. n - e : e + i \in 1 .. n
  BY <1>4, <1>7
<1>10. \A i, j \in 1 .. Len(r) : r[i] = r[j] => i = j
  <2>1. \A i, j \in 1 .. Len(r) : r[i] = r[j] => e + i = e + j
    BY <1>5, <1>8, <1>9
  <2>2. \A i, j \in Nat : e + i = e + j => i = j
    BY <1>7
  <2> QED
    BY <1>8, <2>1, <2>2
<1>11. \A i \in 1 .. Len(r) : r[i] = t \/ \E j \in 1 .. Len(warmCacheLru) : warmCacheLru[j] = r[i]
  BY <1>6, <1>8, <1>9
<1>12. Len(r) > 0 /\ Len(r) <= WarmCacheSize
  BY <1>4, <1>7, <1>8
<1> QED
  BY <1>2, <1>8, <1>10, <1>11, <1>12

\* Only what calls under way see of the cache and the slots matters.
LEMMA CacheUnseen ==
    ASSUME CacheInv, UNCHANGED <<slots, warmCacheLru>>,
           \A d \in Calls : call[d].at \in UnderWay \/ call'[d].at \in UnderWay => call'[d] = call[d]
    PROVE  CacheInv'
<1>1. "spawning" \in UnderWay /\ Evicting \subseteq UnderWay
  BY DEF UnderWay, Places, Evicting
<1>2. CacheNames'
  BY <1>1 DEF CacheInv, CacheNames
<1>3. MostRecentIsKept'
  BY <1>1 DEF CacheInv, MostRecentIsKept, Warm
<1> QED
  BY <1>2, <1>3 DEF CacheInv

\* What the running call does to the cache.
LEMMA CacheGoesOn ==
    ASSUME SlotsInv, NEW c \in Calls, Running(c), NEW place \in UnderWay \cup {"done"}, NEW k,
           Moves(c, place, k),
           warmCacheLru' \in Seq(Threads), Len(warmCacheLru') <= WarmCacheSize,
           \A i, j \in 1 .. Len(warmCacheLru') : warmCacheLru'[i] = warmCacheLru'[j] => i = j,
           \A i \in 1 .. Len(warmCacheLru') : \E s \in Slots : slots'[s].thread = warmCacheLru'[i],
           place = "spawning" =>
             \A i \in 1 .. Len(warmCacheLru') : warmCacheLru'[i] # call[c].thread,
           SlotCap > 1 =>
             /\ \A s \in Slots : slots'[s].state = "warm" =>
                  Len(warmCacheLru') > 0 \/ (call[c].kind = "evictAll" /\ place # "done")
             /\ call[c].kind = "bind" /\ place \in Evicting =>
                  /\ Len(warmCacheLru') > 0
                  /\ warmCacheLru'[Len(warmCacheLru')] # slots'[k].thread
    PROVE  CacheInv'
<1>1. \A d \in Calls \ {c} : call[d].at \notin UnderWay /\ call'[d] = call[d]
  BY OneRuns DEF SlotsInv, Moves
<1>2. call'[c].at = place /\ call'[c].slot = k /\ call'[c].kind = call[c].kind
      /\ call'[c].thread = call[c].thread
  BY DEF Moves
<1>3. "spawning" \in UnderWay /\ Evicting \subseteq UnderWay /\ "done" \notin UnderWay
  BY DEF UnderWay, Places, Evicting
<1>4. CacheNames'
  BY <1>1, <1>2, <1>3 DEF CacheNames
<1>5. MostRecentIsKept'
  BY <1>1, <1>2, <1>3 DEF MostRecentIsKept, Warm
<1> QED
  BY <1>4, <1>5 DEF CacheInv

\* Outside of evictAll a warm slot means that some thread is the most recent one.
LEMMA SomeAreRecent ==
    ASSUME SlotsInv, CacheInv, NEW c \in Calls, Running(c), call[c].kind = "bind", SlotCap > 1,
           NEW s \in Slots, Warm(s)
    PROVE  Len(warmCacheLru) > 0
<1>1. \A d \in Calls \ {c} : call[d].at \notin UnderWay
  BY OneRuns DEF SlotsInv
<1> QED
  BY <1>1 DEF CacheInv, MostRecentIsKept

\* A bind that is admitted picks an empty slot or, where it can, an older thread.
LEMMA PicksAnOlderOne ==
    ASSUME SlotsInv, CacheInv, NEW c \in Calls, Running(c), call[c].kind = "bind",
           call[c].at = "queued", SlotCap > 1, Warm(PickSlotForBind)
    PROVE  /\ Len(warmCacheLru) > 0
           /\ warmCacheLru[Len(warmCacheLru)] # slots[PickSlotForBind].thread
<1> DEFINE empty == {s \in Slots : slots[s].state = "empty"}
           older == {s \in Slots : Warm(s) /\ ~IsMostRecent(slots[s].thread)}
<1>1. empty \in SUBSET Nat /\ older \in SUBSET Nat /\ 1 \in Slots /\ 2 \in Slots
  BY SlotsAssumption DEF Slots
<1>2. PickSlotForBind =
        IF empty # {} THEN Least(empty) ELSE IF older # {} THEN Least(older) ELSE 1
  BY DEF PickSlotForBind
<1>3. empty = {}
  <2>1. empty # {} => Least(empty) \in empty
    BY <1>1, LeastIsLeast
  <2> HIDE DEF older
  <2> QED
    BY <1>2, <2>1 DEF Warm
<1>4. \A s \in Slots : Warm(s)
  BY <1>3, AllRest DEF Warm
<1>5. Len(warmCacheLru) > 0
  BY <1>1, <1>4, SomeAreRecent
<1>6. \A x : IsMostRecent(x) <=> warmCacheLru[Len(warmCacheLru)] = x
  BY <1>5 DEF IsMostRecent, Last, CacheInv, CacheNames
<1>7. older # {}
  <2>1. slots[1].thread # slots[2].thread
    <3>1. slots[1] # Empty
      BY <1>1, <1>4, SlotRecords DEF Warm
    <3> QED
      BY <1>1, <3>1 DEF SlotsInv, ThreadsOnce
  <2> QED
    BY <1>1, <1>4, <1>6, <2>1
<1>8. Least(older) \in older
  BY <1>1, <1>7, LeastIsLeast
<1> QED
  BY <1>2, <1>3, <1>5, <1>6, <1>7, <1>8

LEMMA BindKeepsCache ==
    ASSUME SlotsInv, CacheInv, NEW c \in Calls,
           BindWarm(c) \/ AdmissionRefuses(c) \/ AdmissionTierCap(c) \/ Admitted(c)
    PROVE  CacheInv'
<1>1. Typed /\ CallShape /\ SlotShape /\ CacheNames /\ MostRecentIsKept
  BY DEF SlotsInv, CacheInv
<1>2. /\ Running(c) /\ call[c].at = "queued" /\ call[c].kind = "bind"
      /\ call[c].thread \in Threads /\ UNCHANGED slots
  BY <1>1 DEF BindWarm, AdmissionRefuses, AdmissionTierCap, Admitted, NeedsAdmission, At,
              CallShape
<1>3. SlotCap > 1 => \A s \in Slots : slots[s].state = "warm" => Len(warmCacheLru) > 0
  BY <1>2, SomeAreRecent DEF Warm
<1>4. CASE BindWarm(c)
  <2>1. Moves(c, "done", call[c].slot) /\ warmCacheLru' = TouchWarmCache(call[c].thread)
    BY <1>1, <1>4, AnswerMoves DEF BindWarm
  <2>2. PICK s \in Slots : slots[s].thread = call[c].thread
    BY <1>4 DEF BindWarm, HasSlot
  <2>3. /\ warmCacheLru' \in Seq(Threads)
        /\ Len(warmCacheLru') > 0 /\ Len(warmCacheLru') <= WarmCacheSize
        /\ \A i, j \in 1 .. Len(warmCacheLru') : warmCacheLru'[i] = warmCacheLru'[j] => i = j
        /\ \A i \in 1 .. Len(warmCacheLru') :
             \/ warmCacheLru'[i] = call[c].thread
             \/ \E j \in 1 .. Len(warmCacheLru) : warmCacheLru[j] = warmCacheLru'[i]
    BY <1>1, <1>2, <2>1, Touched
  <2>4. \A i \in 1 .. Len(warmCacheLru') : \E u \in Slots : slots'[u].thread = warmCacheLru'[i]
    BY <1>1, <1>2, <2>2, <2>3 DEF CacheNames
  <2> QED
    BY <1>2, <2>1, <2>3, <2>4, CacheGoesOn DEF Evicting
<1>5. CASE AdmissionRefuses(c) \/ AdmissionTierCap(c)
  <2>1. UNCHANGED warmCacheLru /\ Moves(c, "done", call[c].slot)
    BY <1>1, <1>5, AnswerMoves DEF AdmissionRefuses, AdmissionTierCap
  <2>2. /\ \A i \in 1 .. Len(warmCacheLru') : \E s \in Slots : slots'[s].thread = warmCacheLru'[i]
        /\ \A i, j \in 1 .. Len(warmCacheLru') : warmCacheLru'[i] = warmCacheLru'[j] => i = j
        /\ warmCacheLru' \in Seq(Threads) /\ Len(warmCacheLru') <= WarmCacheSize
        /\ SlotCap > 1 => \A s \in Slots : slots'[s].state = "warm" => Len(warmCacheLru') > 0
    BY <1>1, <1>2, <1>3, <2>1 DEF CacheNames
  <2>3. "done" \notin Evicting
    BY DEF Evicting
  <2> QED
    BY <1>2, <2>1, <2>2, <2>3, CacheGoesOn
<1>6. CASE Admitted(c)
  <2> DEFINE k == PickSlotForBind
             place == IF Warm(k) THEN "saving" ELSE "loading"
  <2>1. k \in Slots /\ place \in {"saving", "loading"} /\ UNCHANGED warmCacheLru
    BY <1>6, PickIsSlot DEF Admitted
  <2>2. GoTo(c, place, k)
    BY <1>6 DEF Admitted
  <2>3. Moves(c, place, k)
    BY <1>1, <2>1, <2>2, GoToMoves DEF Places
  <2>4. SlotCap > 1 /\ place \in Evicting =>
          Len(warmCacheLru) > 0 /\ warmCacheLru[Len(warmCacheLru)] # slots[k].thread
    BY <1>2, PicksAnOlderOne DEF Evicting
  <2> HIDE DEF k, place
  <2>5. place \in UnderWay \cup {"done"} /\ place # "spawning"
    BY <2>1 DEF UnderWay, Places
  <2> QED
    BY <1>1, <1>2, <1>3, <2>1, <2>3, <2>4, <2>5, CacheGoesOn DEF CacheNames
<1> QED
  BY <1>4, <1>5, <1>6

LEMMA SpawnKeepsCache ==
    ASSUME SlotsInv, CacheInv, NEW c \in Calls, Load(c) \/ Hydrate(c) \/ SpawnFails(c)
    PROVE  CacheInv'
<1> DEFINE k == call[c].slot
<1>1. Typed /\ CallShape /\ SlotShape /\ CallKnows /\ ThreadsOnce /\ CacheNames
  BY DEF SlotsInv, CacheInv
<1>2. Running(c) /\ call[c].at \in {"loading", "spawning"}
  BY DEF Load, Hydrate, SpawnFails, At
<1>3. call[c].kind = "bind" /\ call[c].thread \in Threads /\ k \in Slots
  BY <1>1, <1>2 DEF CallShape, CallKnows, UnderWay, Places
<1>4. SlotCap > 1 => \A s \in Slots : slots[s].state = "warm" => Len(warmCacheLru) > 0
  BY <1>2, <1>3, SomeAreRecent DEF Warm
<1>5. CASE Load(c)
  <2>1. Moves(c, "spawning", k) /\ UNCHANGED warmCacheLru /\ call[c].at = "loading"
    BY <1>1, <1>5, GoMoves DEF Load, At, Places
  <2>2. /\ slots[k] = Empty /\ \A t \in Slots : slots[t].thread # call[c].thread
        /\ slots' = [slots EXCEPT ![k] = [state |-> "warming", thread |-> call[c].thread, pid |-> 0]]
    BY <1>1, <1>3, <1>5, <2>1 DEF CallKnows, UnderWay, Places, Load
  <2>3. /\ slots'[k].state # "warm" /\ slots[k].thread = None
        /\ \A s \in Slots \ {k} : slots'[s] = slots[s]
    BY <1>1, <1>3, <2>2, SlotRecords DEF Typed
  <2>4. \A i \in 1 .. Len(warmCacheLru) :
          warmCacheLru[i] # call[c].thread /\ warmCacheLru[i] # None
    BY <1>1, <2>2, SlotsAssumption DEF CacheNames
  <2>5. \A i \in 1 .. Len(warmCacheLru) : \E s \in Slots : slots'[s].thread = warmCacheLru[i]
    BY <1>1, <2>3, <2>4 DEF CacheNames
  <2>6. "spawning" \in UnderWay \cup {"done"} /\ "spawning" \notin Evicting
    BY DEF UnderWay, Places, Evicting
  <2>7. SlotCap > 1 => \A s \in Slots : slots'[s].state = "warm" => Len(warmCacheLru) > 0
    BY <1>4, <2>3
  <2> HIDE DEF k
  <2> QED
    BY <1>1, <1>2, <2>1, <2>4, <2>5, <2>6, <2>7, CacheGoesOn DEF CacheNames
<1>6. CASE Hydrate(c)
  <2>1. /\ Moves(c, "done", k) /\ warmCacheLru' = TouchWarmCache(call[c].thread)
        /\ call[c].at = "spawning"
    BY <1>1, <1>6, AnswerMoves DEF Hydrate, At
  <2>2. slots[k].thread = call[c].thread
    BY <1>1, <2>1 DEF CallKnows, UnderWay, Places
  <2>3. \A s \in Slots : slots'[s].thread = slots[s].thread
    BY <1>1, <1>3, <1>6 DEF Hydrate, Typed, Slot
  <2>4. /\ warmCacheLru' \in Seq(Threads)
        /\ Len(warmCacheLru') > 0 /\ Len(warmCacheLru') <= WarmCacheSize
        /\ \A i, j \in 1 .. Len(warmCacheLru') : warmCacheLru'[i] = warmCacheLru'[j] => i = j
        /\ \A i \in 1 .. Len(warmCacheLru') :
             \/ warmCacheLru'[i] = call[c].thread
             \/ \E j \in 1 .. Len(warmCacheLru) : warmCacheLru[j] = warmCacheLru'[i]
    BY <1>1, <1>3, <2>1, Touched
  <2>5. \A i \in 1 .. Len(warmCacheLru') : \E s \in Slots : slots'[s].thread = warmCacheLru'[i]
    BY <1>1, <1>3, <2>2, <2>3, <2>4 DEF CacheNames
  <2> HIDE DEF k
  <2> QED
    BY <1>2, <2>1, <2>4, <2>5, CacheGoesOn DEF Evicting
<1>7. CASE SpawnFails(c)
  <2>1. Moves(c, "done", k) /\ UNCHANGED warmCacheLru /\ call[c].at = "spawning"
    BY <1>1, <1>7, AnswerMoves DEF SpawnFails, At
  <2>2. slots[k].thread = call[c].thread /\ slots' = [slots EXCEPT ![k] = Empty]
    BY <1>1, <1>7, <2>1 DEF CallKnows, UnderWay, Places, SpawnFails
  <2>3. slots'[k].state # "warm" /\ \A s \in Slots \ {k} : slots'[s] = slots[s]
    BY <1>1, <1>3, <2>2, SlotRecords DEF Typed
  <2>4. \A i \in 1 .. Len(warmCacheLru) : warmCacheLru[i] # call[c].thread
    BY <1>1, <2>1 DEF CacheNames
  <2>5. \A i \in 1 .. Len(warmCacheLru) : \E s \in Slots : slots'[s].thread = warmCacheLru[i]
    BY <1>1, <2>2, <2>3, <2>4 DEF CacheNames
  <2>6. SlotCap > 1 => \A s \in Slots : slots'[s].state = "warm" => Len(warmCacheLru) > 0
    BY <1>4, <2>3
  <2> HIDE DEF k
  <2> QED
    BY <1>1, <1>2, <2>1, <2>5, <2>6, CacheGoesOn DEF CacheNames, Evicting
<1> QED
  BY <1>5, <1>6, <1>7

LEMMA EvictionKeepsCache ==
    ASSUME SlotsInv, CacheInv, NEW c \in Calls,
           Save(c) \/ TermTimesOut(c) \/ Exited(c) \/ KillTimesOut(c) \/ SignalDenied(c)
    PROVE  CacheInv'
<1> DEFINE k == call[c].slot
<1>1. Typed /\ CallShape /\ SlotShape /\ CallKnows /\ CacheNames /\ MostRecentIsKept
  BY DEF SlotsInv, CacheInv
<1>2. Running(c) /\ call[c].at \in Evicting
  BY DEF Save, TermTimesOut, Exited, KillTimesOut, SignalDenied, At, Evicting
<1>3. k \in Slots /\ call[c].kind \in {"bind", "evictAll"}
  BY <1>1, <1>2 DEF CallShape, CallKnows, UnderWay, Places, Evicting
<1>4. SlotCap > 1 /\ call[c].kind = "bind" =>
        Len(warmCacheLru) > 0 /\ warmCacheLru[Len(warmCacheLru)] # slots[k].thread
  BY <1>1, <1>2 DEF MostRecentIsKept
<1>5. CASE Save(c) \/ TermTimesOut(c)
  <2>1. PICK place \in {"terminating", "killing"} : Go(c, place)
    BY <1>5 DEF Save, TermTimesOut
  <2>2. /\ Moves(c, place, k) /\ UNCHANGED warmCacheLru /\ place \in UnderWay \cup {"done"}
        /\ place # "spawning" /\ place # "done"
    BY <1>1, <1>5, <2>1, GoMoves DEF Save, TermTimesOut, Places, UnderWay
  <2>3. \A s \in Slots : slots'[s].thread = slots[s].thread
    BY <1>1, <1>3, <1>5 DEF Save, TermTimesOut, Typed, Slot
  <2>4. \A i \in 1 .. Len(warmCacheLru) : \E s \in Slots : slots'[s].thread = warmCacheLru[i]
    BY <1>1, <2>3 DEF CacheNames
  <2> HIDE DEF k
  <2> QED
    BY <1>1, <1>2, <1>3, <1>4, <2>2, <2>3, <2>4, CacheGoesOn DEF CacheNames
<1>6. CASE Exited(c) \/ KillTimesOut(c) \/ SignalDenied(c)
  <2> DEFINE place == IF call[c].kind = "bind" THEN "loading" ELSE "sweeping"
             w == RemoveFirst(warmCacheLru, slots[k].thread)
  <2>1. Evicted(c)
    BY <1>6 DEF Exited, KillTimesOut, SignalDenied
  <2>2. Moves(c, place, k) /\ warmCacheLru' = w /\ slots' = [slots EXCEPT ![k] = Empty]
    BY <1>1, <2>1, GoMoves DEF Evicted, Places
  <2>3. place \in UnderWay \cup {"done"} /\ place \notin Evicting /\ place # "spawning" /\ place # "done"
    BY DEF UnderWay, Places, Evicting
  <2>4. /\ w \in Seq(Threads) /\ Len(w) <= Len(warmCacheLru)
        /\ \A i, j \in 1 .. Len(w) : w[i] = w[j] => i = j
        /\ \A i \in 1 .. Len(w) :
             w[i] # slots[k].thread /\ \E j \in 1 .. Len(warmCacheLru) : warmCacheLru[j] = w[i]
        /\ Len(warmCacheLru) > 0 /\ warmCacheLru[Len(warmCacheLru)] # slots[k].thread => Len(w) > 0
    BY <1>1, Forgotten DEF CacheNames
  <2> HIDE DEF place, w
  <2>5. \A s \in Slots \ {k} : slots'[s] = slots[s]
    BY <1>1, <2>2 DEF Typed
  <2>6. \A i \in 1 .. Len(w) : \E s \in Slots : slots'[s].thread = w[i]
    BY <1>1, <2>4, <2>5 DEF CacheNames
  <2>7. Len(w) <= WarmCacheSize
    BY <1>1, <2>4, SlotsAssumption DEF CacheNames
  <2>8. SlotCap > 1 => Len(w) > 0 \/ call[c].kind = "evictAll"
    BY <1>3, <1>4, <2>4
  <2> HIDE DEF k
  <2>9. /\ warmCacheLru' \in Seq(Threads) /\ Len(warmCacheLru') <= WarmCacheSize
        /\ \A i, j \in 1 .. Len(warmCacheLru') : warmCacheLru'[i] = warmCacheLru'[j] => i = j
        /\ \A i \in 1 .. Len(warmCacheLru') : \E s \in Slots : slots'[s].thread = warmCacheLru'[i]
        /\ SlotCap > 1 => Len(warmCacheLru') > 0 \/ call[c].kind = "evictAll"
    BY <2>2, <2>4, <2>6, <2>7, <2>8
  <2> QED
    BY <1>2, <2>2, <2>3, <2>9, CacheGoesOn
<1> QED
  BY <1>5, <1>6

LEMMA SweepKeepsCache ==
    ASSUME SlotsInv, SweptAreEmpty, CacheInv, NEW c \in Calls, Sweep(c)
    PROVE  CacheInv'
<1>1. Typed /\ CacheNames
  BY DEF SlotsInv, CacheInv
<1>2. /\ Running(c) /\ call[c].kind = "evictAll" /\ UNCHANGED <<slots, warmCacheLru, Bridge>>
  BY DEF Sweep, At
<1>3. Worked(c)
  BY SweepStep
<1>4. PICK place \in UnderWay \cup {"done"}, k \in 0 .. SlotCap :
        /\ Moves(c, place, k)
        /\ place = "done" => \A t \in Slots : slots'[t] = Empty
  BY <1>2, <1>3 DEF Worked
<1>5. place # "spawning"
  BY <1>2, SweepStep, <1>4 DEF SlotsInv, CallShape, Moves
<1>6. \A s \in Slots : slots'[s].state = "warm" => place # "done"
  BY <1>4, SlotRecords
<1> QED
  BY <1>1, <1>2, <1>4, <1>5, <1>6, CacheGoesOn DEF CacheNames

LEMMA CacheNext ==
    ASSUME ShutdownInv, CacheInv, [Next]_vars
    PROVE  CacheInv'
<1>1. SlotsInv /\ SweptAreEmpty /\ Typed
  BY DEF ShutdownInv, SlotsInv
<1>2. ASSUME NEW c \in Calls, NEW kind, NEW t, Enqueue(c, kind, t), UNCHANGED <<slots, warmCacheLru>>
      PROVE  CacheInv'
  <2>1. call[c].at = "idle" /\ call'[c].at = "queued" /\ \A d \in Calls \ {c} : call'[d] = call[d]
    BY <1>1, <1>2 DEF Enqueue, NotCalled, Typed, Call
  <2> QED
    BY <1>2, <2>1, CacheUnseen DEF UnderWay
<1>3. ASSUME UNCHANGED <<slots, warmCacheLru, call>>
      PROVE  CacheInv'
  BY <1>3, CacheUnseen
<1>4. ASSUME NEW c \in Calls, NEW t \in Threads, Bind(c, t) PROVE CacheInv'
  BY <1>2, <1>4 DEF Bind
<1>5. ASSUME NEW c \in Calls, DrainRoute(c) PROVE CacheInv'
  BY <1>2, <1>5 DEF DrainRoute
<1>6. ASSUME NEW c \in Calls, Sigterm(c) PROVE CacheInv'
  BY <1>2, <1>3, <1>6 DEF Sigterm
<1>7. ASSUME NEW c \in Calls, Step(c) \/ SignalDenied(c) PROVE CacheInv'
  BY <1>1, <1>7, BindKeepsCache, SpawnKeepsCache, EvictionKeepsCache, SweepKeepsCache DEF Step
<1>8. ASSUME NEW p, ProcessExit(p) PROVE CacheInv'
  BY <1>3, <1>8 DEF ProcessExit
<1>9. CASE DrainEnds \/ DrainTimesOut \/ Exit
  BY <1>3, <1>9 DEF DrainEnds, DrainTimesOut, Exit
<1>10. CASE UNCHANGED vars
  BY <1>3, <1>10 DEF vars
<1> QED
  BY <1>4, <1>5, <1>6, <1>7, <1>8, <1>9, <1>10 DEF Next, Steps

LEMMA AlwaysCache == Spec => [](ShutdownInv /\ CacheInv)
<1>1. Init => CacheInv
  BY SlotRecords, SlotsAssumption
     DEF Init, CacheInv, CacheNames, MostRecentIsKept, NotCalled, Warm, UnderWay, Evicting
<1>2. ShutdownInv /\ CacheInv /\ [Next]_vars => CacheInv'
  BY CacheNext
<1> QED
  BY AlwaysInv, <1>1, <1>2, PTL DEF Spec

-----------------------------------------------------------------------------
(* Theorems *)

\* Slots, processes, calls and the shutdown have their types: a slot is bound to
\* a thread exactly while it is not empty, and has a process exactly while it is
\* warm or being evicted.
THEOREM SlotsTypeCorrect == Spec => []TypeOK
<1>1. ShutdownInv => TypeOK
  <2> SUFFICES ASSUME ShutdownInv PROVE TypeOK
    OBVIOUS
  <2>1. Typed /\ SlotShape
    BY DEF ShutdownInv, SlotsInv
  <2>2. \A s \in Slots :
          /\ slots[s].state \in {"empty", "warming", "warm", "evicting"}
          /\ slots[s].thread \in Threads \cup {None}
    BY <2>1 DEF Typed, Slot
  <2>3. \A s \in Slots :
          /\ slots[s].pid \in 0 .. Len(procs)
          /\ (slots[s].thread = None) <=> (slots[s].state = "empty")
          /\ (slots[s].pid # 0) <=> (slots[s].state \in {"warm", "evicting"})
    BY <2>1, <2>2, SlotRecords DEF Typed, SlotShape
  <2>4. \A c \in Calls :
          /\ call[c].kind \in {"none", "bind", "evictAll"}
          /\ call[c].at \in Places /\ call[c].slot \in 0 .. SlotCap
    BY <2>1 DEF Typed, Call
  <2>5. shutdown.phase \in {"up", "draining", "exiting", "down"}
    BY <2>1 DEF Typed
  <2> QED
    BY <2>1, <2>2, <2>3, <2>4, <2>5 DEF TypeOK, Places, Typed
<1> QED
  BY AlwaysInv, <1>1, PTL

\* For any number of slots, threads and calls, whatever fails: no thread has two
\* slots, and every live process the manager did not give up is in a slot, under
\* the thread it was spawned for.
THEOREM ProcessesHaveSlots == Spec => []EveryProcessHasItsSlot
<1>1. ShutdownInv => EveryProcessHasItsSlot
  <2> SUFFICES ASSUME ShutdownInv PROVE EveryProcessHasItsSlot
    OBVIOUS
  <2>1. Typed /\ SlotShape /\ ThreadsOnce /\ LiveInSlots
    BY DEF ShutdownInv, SlotsInv
  <2>2. ASSUME NEW p \in alive \ escaped
        PROVE  \E s \in Slots : slots[s].pid = p /\ slots[s].thread = procs[p]
    <3>1. PICK s \in Slots : slots[s].pid = p
      BY <2>1 DEF LiveInSlots
    <3>2. p # 0 /\ slots[s].state \in {"empty", "warming", "warm", "evicting"}
      BY <2>1 DEF Typed, Slot
    <3> QED
      BY <2>1, <3>1, <3>2 DEF SlotShape
  <2> QED
    BY <2>1, <2>2 DEF EveryProcessHasItsSlot, ThreadsOnce
<1> QED
  BY AlwaysInv, <1>1, PTL

\* When evictAll is answered every slot is empty, however binds and evictions
\* were interleaved with it.
THEOREM EvictAllLeavesNoSlot == Spec => EvictAllEmpties
<1>1. ShutdownInv /\ [Next]_vars =>
        [\A c \in Calls : call'[c].answer = "evicted" /\ call[c].answer # "evicted"
           => \A s \in Slots : slots'[s] = Empty]_vars
  BY SlotsNext
<1> QED
  BY AlwaysInv, <1>1, PTL DEF Spec, EvictAllEmpties

\* A shutdown whose drain ends in time leaves no process behind but those no
\* signal ended, unless a bind came after the drain began.
THEOREM ShutdownLeavesNothing == Spec => []CleanShutdownLeavesNothing
<1>1. ShutdownInv => CleanShutdownLeavesNothing
  <2> SUFFICES ASSUME ShutdownInv, shutdown.phase = "down", shutdown.drain # None,
                      ~timedOut, ~lateBind
               PROVE  alive \subseteq escaped
    BY DEF CleanShutdownLeavesNothing
  <2>1. Typed /\ LiveInSlots /\ DrainIsLast
    BY DEF ShutdownInv, SlotsInv
  <2>2. \A s \in Slots : slots[s].pid = 0
    BY <2>1, SlotRecords DEF DrainIsLast
  <2>3. 0 \notin alive
    BY <2>1 DEF Typed
  <2> QED
    BY <2>1, <2>2, <2>3 DEF LiveInSlots
<1> QED
  BY AlwaysInv, <1>1, PTL

\* For any number of slots and any size of the cache, the warm cache names only
\* threads that have a slot, each once, whatever is evicted, fails or dies.
THEOREM CachedThreadsHaveSlots == Spec => []CacheIsBound
<1>1. CacheInv => CacheIsBound
  BY DEF CacheInv, CacheNames, CacheIsBound, IsInjective
<1> QED
  BY AlwaysCache, <1>1, PTL

\* With more than one slot no bind ever evicts the thread bound last, whatever
\* was evicted and failed before it.
THEOREM BindsKeepTheMostRecent == Spec => MostRecentSurvives
<1>1. ASSUME ShutdownInv, CacheInv, Next, NEW s \in Slots, SlotCap > 1,
             slots[s].state = "warm", slots'[s].state = "evicting",
             call[Head(chain)].kind = "bind"
      PROVE  ~IsMostRecent(slots[s].thread)
  <2>1. SlotsInv /\ Typed
    BY <1>1 DEF ShutdownInv, SlotsInv
  <2>2. PICK c \in Calls : Save(c) /\ call[c].slot = s
    <3>1. UNCHANGED slots => FALSE
      BY <1>1
    <3>2. PICK c \in Calls : Step(c) \/ SignalDenied(c)
      BY <1>1, <3>1 DEF Next, Steps, Bind, DrainRoute, Sigterm, ProcessExit, DrainEnds,
                        DrainTimesOut, Exit
    <3>3. Load(c) \/ Hydrate(c) \/ SpawnFails(c) \/ Save(c) \/ Evicted(c)
      BY <3>1, <3>2 DEF Step, SignalDenied, BindWarm, AdmissionRefuses, AdmissionTierCap,
                        Admitted, TermTimesOut, Exited, KillTimesOut, Sweep
    <3>4. Empty.state # "evicting"
      BY SlotRecords
    <3>5. call[c].slot = s
      BY <1>1, <2>1, <3>3 DEF Load, Hydrate, SpawnFails, Save, Evicted, Typed
    <3>6. ~Load(c) /\ ~SpawnFails(c) /\ ~Evicted(c)
      BY <1>1, <2>1, <3>4, <3>5 DEF Load, SpawnFails, Evicted, Typed
    <3>7. ~Hydrate(c)
      BY <1>1, <2>1, <3>5 DEF Hydrate, Typed, Slot
    <3> QED
      BY <3>3, <3>5, <3>6, <3>7
  <2>3. call[c].at = "saving" /\ call[c].kind = "bind"
    BY <1>1, <2>2 DEF Save, At, Running
  <2> QED
    BY <1>1, <2>2, <2>3
       DEF CacheInv, CacheNames, MostRecentIsKept, Evicting, IsMostRecent, Last
<1>2. ShutdownInv /\ CacheInv /\ [Next]_vars =>
        [\A s \in Slots :
           /\ SlotCap > 1 /\ slots[s].state = "warm" /\ slots'[s].state = "evicting"
           /\ call[Head(chain)].kind = "bind"
           => ~IsMostRecent(slots[s].thread)]_vars
  BY <1>1
<1> QED
  BY AlwaysCache, <1>2, PTL DEF Spec, MostRecentSurvives
=============================================================================
