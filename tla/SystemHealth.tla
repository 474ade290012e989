---------------------------- MODULE SystemHealth ----------------------------
(***************************************************************************)
(* The health signal of the agent bridge and what it switches:             *)
(*   - SystemHealth turns the ticks of the metrics collector into green,   *)
(*     yellow or red, through a clock that measures how long the trigger   *)
(*     of the current state has been hit and the state machine             *)
(*     system_health;                                                      *)
(*   - DegradationController is called on every change of state and sets   *)
(*     the red mode of the admission service and the idle threshold of     *)
(*     the previews.                                                       *)
(*                                                                         *)
(* A tick carries the utilisation of the workload slice and its memory     *)
(* pressure. Every condition of the code is a disjunction of two lower     *)
(* bounds or a conjunction of two upper bounds over the same cut points,   *)
(* so a tick is the higher of its two bands, a number of Pressures. Time   *)
(* is counted in a unit that divides the sustained times, up to Horizon:   *)
(* beyond the longest of them the code cannot tell durations apart.        *)
(* The compaction and the sweep of cold pool scopes that entering yellow   *)
(* starts are calls to other components whose failures are swallowed.      *)
(***************************************************************************)
EXTENDS Naturals

CONSTANTS
    YellowEnterSustained,   \* green to yellow (30 s)
    RedEnterSustained,      \* yellow to red (15 s)
    YellowExitSustained,    \* red to yellow (30 s)
    GreenExitSustained,     \* yellow to green (60 s)
    MaxGap,                 \* the longest time between two ticks
    Horizon                 \* where the clocks stop counting

Sustained == {YellowEnterSustained, RedEnterSustained,
              YellowExitSustained, GreenExitSustained}

ASSUME ClockAssumption ==
    /\ Sustained \subseteq Nat \ {0}
    /\ MaxGap \in Nat \ {0}
    /\ Horizon \in Nat
    /\ \A t \in Sustained : t <= Horizon

States == {"green", "yellow", "red"}

(***************************************************************************)
(* The bands that the cut points of SYSTEM_HEALTH_THRESHOLDS leave:        *)
(* 0 below 65 % and 6 %, 1 up to 70 % or 10 %, 2 up to 85 % or 18 %,       *)
(* 3 up to 90 % or 25 %, 4 from there on.                                  *)
(***************************************************************************)
Pressures == 0 .. 4

High(p) == p >= 2           \* yellowEnter: green must leave
Critical(p) == p >= 4       \* redEnter: yellow must leave upwards
Cooled(p) == p < 3          \* yellowExit: red may leave
Calm(p) == p < 1            \* greenExit: yellow may leave downwards

VARIABLES
    health,          \* the state of the machine
    sustained,       \* now() - sustainedSinceMs
    prevTriggerHit,  \* whether the last tick hit the trigger of the state
    lastTick,        \* the last tick
    degradation,     \* what the controller has set
    since,           \* history: time since health last changed
    lasted,          \* history: how long the state the last tick found had lasted
    heldFor,         \* history: for each condition, how long all ticks met it
    beat             \* alternates: a tick is never a stutter, whatever it finds

vars == <<health, sustained, prevTriggerHit, lastTick, degradation, since, lasted, heldFor, beat>>

Conditions == {"high", "critical", "cooled", "calm"}

Meets(c, p) == CASE c = "high" -> High(p)
                 [] c = "critical" -> Critical(p)
                 [] c = "cooled" -> Cooled(p)
                 [] c = "calm" -> Calm(p)

Clock(t) == IF t > Horizon THEN Horizon ELSE t

-----------------------------------------------------------------------------
(***************************************************************************)
(* The machine and the clock.                                              *)
(***************************************************************************)

\* Mutant: yellow has no trigger for the way down.
TriggerForCurrent_OnlyUp(p) ==
    CASE health = "green" -> High(p)
      [] health = "yellow" -> Critical(p)
      [] health = "red" -> Cooled(p)

\* Mutant: yellow has no trigger for the way up.
TriggerForCurrent_OnlyDown(p) ==
    CASE health = "green" -> High(p)
      [] health = "yellow" -> Calm(p)
      [] health = "red" -> Cooled(p)

\* triggerForCurrent: in yellow the way up and the way down share one trigger.
TriggerForCurrent(p) ==
    CASE health = "green" -> High(p)
      [] health = "yellow" -> Critical(p) \/ Calm(p)
      [] health = "red" -> Cooled(p)

\* The transitions of system_health for a metrics event, in their order.
MetricsEvent(p, ms) ==
    CASE health = "green" /\ High(p) /\ ms >= YellowEnterSustained -> "yellow"
      [] health = "yellow" /\ Critical(p) /\ ms >= RedEnterSustained -> "red"
      [] health = "red" /\ Cooled(p) /\ ms >= YellowExitSustained -> "yellow"
      [] health = "yellow" /\ Calm(p) /\ ms >= GreenExitSustained -> "green"
      [] OTHER -> health

-----------------------------------------------------------------------------
(***************************************************************************)
(* The degradation controller: a change of state runs onExit, then onEnter.*)
(***************************************************************************)
\* Mutant: red mode is cleared on entering green only.
OnExit_KeepsRedMode(state, d) ==
    IF state = "yellow" THEN [d EXCEPT !.previewIdle = "default"] ELSE d

OnExit(state, d) ==
    CASE state = "red" -> [d EXCEPT !.redMode = FALSE]
      [] state = "yellow" -> [d EXCEPT !.previewIdle = "default"]
      [] OTHER -> d

\* Mutant: green asks for an idle time nobody configured.
OnEnter_Unset(state, d) ==
    CASE state = "yellow" -> [d EXCEPT !.previewIdle = "short"]
      [] state = "red" -> [d EXCEPT !.redMode = TRUE]
      [] OTHER -> [previewIdle |-> "undefined", redMode |-> FALSE]

OnEnter(state, d) ==
    CASE state = "yellow" -> [d EXCEPT !.previewIdle = "short"]
      [] state = "red" -> [d EXCEPT !.redMode = TRUE]
      [] OTHER -> [previewIdle |-> "default", redMode |-> FALSE]

-----------------------------------------------------------------------------
(***************************************************************************)
(* A tick that comes gap after the one before it. When the machine changes *)
(* state, fire() restarts the clock, forgets the trigger and calls the     *)
(* controller.                                                             *)
(***************************************************************************)
Observe(p, gap) ==
    /\ lastTick' = p
    /\ heldFor' = [c \in Conditions |->
                     IF Meets(c, p) /\ Meets(c, lastTick)
                     THEN Clock(heldFor[c] + gap) ELSE 0]
    /\ lasted' = Clock(since + gap)
    /\ since' = IF health' = health THEN lasted' ELSE 0
    /\ beat' = ~beat

\* Mutant: a change of state does not restart the clock.
Tick_KeepsClock(p, gap) ==
    LET hit == TriggerForCurrent(p)
        clock == IF hit /\ ~prevTriggerHit THEN 0 ELSE Clock(sustained + gap)
        next == MetricsEvent(p, IF hit THEN clock ELSE 0)
    IN  /\ health' = next
        /\ IF next = health
           THEN UNCHANGED degradation
           ELSE degradation' = OnEnter(next, OnExit(health, degradation))
        /\ sustained' = clock
        /\ prevTriggerHit' = hit
        /\ Observe(p, gap)

\* Mutant: the clock is not restarted when the trigger is hit anew.
Tick_NeverRestarts(p, gap) ==
    LET hit == TriggerForCurrent(p)
        clock == Clock(sustained + gap)
        next == MetricsEvent(p, IF hit THEN clock ELSE 0)
    IN  /\ health' = next
        /\ IF next = health
           THEN /\ sustained' = clock
                /\ prevTriggerHit' = hit
                /\ UNCHANGED degradation
           ELSE /\ sustained' = 0
                /\ prevTriggerHit' = FALSE
                /\ degradation' = OnEnter(next, OnExit(health, degradation))
        /\ Observe(p, gap)

Tick(p, gap) ==
    LET hit == TriggerForCurrent(p)
        clock == IF hit /\ ~prevTriggerHit THEN 0 ELSE Clock(sustained + gap)
        next == MetricsEvent(p, IF hit THEN clock ELSE 0)
    IN  /\ health' = next
        /\ IF next = health
           THEN /\ sustained' = clock
                /\ prevTriggerHit' = hit
                /\ UNCHANGED degradation
           ELSE /\ sustained' = 0
                /\ prevTriggerHit' = FALSE
                /\ degradation' = OnEnter(next, OnExit(health, degradation))
        /\ Observe(p, gap)

Init ==
    /\ health = "green"
    /\ sustained = 0
    /\ prevTriggerHit = FALSE
    /\ lastTick = 0
    /\ degradation = [redMode |-> FALSE, previewIdle |-> "default"]
    /\ since = 0
    /\ lasted = 0
    /\ heldFor = [c \in Conditions |-> 0]
    /\ beat = FALSE

Next == \E p \in Pressures, gap \in 1 .. MaxGap : Tick(p, gap)

\* The collector ticks from an interval timer for as long as the bridge runs.
Spec == Init /\ [][Next]_vars /\ WF_vars(Next)

-----------------------------------------------------------------------------
TypeOK ==
    /\ health \in States
    /\ sustained \in 0 .. Horizon
    /\ prevTriggerHit \in BOOLEAN
    /\ lastTick \in Pressures
    /\ degradation \in [redMode : BOOLEAN, previewIdle : {"default", "short"}]
    /\ since \in 0 .. Horizon
    /\ lasted \in 0 .. Horizon
    /\ heldFor \in [Conditions -> 0 .. Horizon]
    /\ beat \in BOOLEAN

(***************************************************************************)
(* What the controller has set is what the current state asks for, after   *)
(* any history of changes: admission is closed exactly in red, and the     *)
(* previews have the short idle time exactly in yellow (red gives them the *)
(* default back).                                                          *)
(***************************************************************************)
DegradationFollowsHealth ==
    /\ degradation.redMode <=> health = "red"
    /\ degradation.previewIdle = "short" <=> health = "yellow"

(***************************************************************************)
(* The signal does not flap: a state is left only after it has lasted the  *)
(* sustained time of the transition that leaves it, and red and green are  *)
(* never neighbours. This is what restarting the clock on a change buys.   *)
(***************************************************************************)
NoFlapping ==
    [][/\ health = "green" => health' \in {"green", "yellow"}
       /\ health = "red" => health' \in {"red", "yellow"}
       /\ health = "green" /\ health' = "yellow" => lasted' >= YellowEnterSustained
       /\ health = "yellow" /\ health' = "red" => lasted' >= RedEnterSustained
       /\ health = "red" /\ health' = "yellow" => lasted' >= YellowExitSustained
       /\ health = "yellow" /\ health' = "green" => lasted' >= GreenExitSustained]_vars

(***************************************************************************)
(* Green and red have one trigger each, and there the clock measures what  *)
(* it should: they are left only when every tick of the whole sustained    *)
(* time asked for it.                                                      *)
(***************************************************************************)
OneTriggerIsSustained ==
    [][/\ health = "green" /\ health' # "green" => heldFor'["high"] >= YellowEnterSustained
       /\ health = "red" /\ health' # "red" => heldFor'["cooled"] >= YellowExitSustained]_vars

(***************************************************************************)
(* "yellow -> red: >= 90% utilization OR PSI avg10 > 25% sustained 15 s"   *)
(* (system-health.machine.ts): red is entered only when the pressure was   *)
(* critical during the whole sustained time.                               *)
(***************************************************************************)
RedIsSustained ==
    [][health = "yellow" /\ health' = "red" => heldFor'["critical"] >= RedEnterSustained]_vars

(***************************************************************************)
(* Pressure that ends for good ends in green with admission open, whatever *)
(* the history: no clock and no flag left behind holds the bridge back.    *)
(***************************************************************************)
CalmRecovers == <>[](lastTick = 0) => <>[](health = "green" /\ ~degradation.redMode)

(***************************************************************************)
(* Pressure that stays critical ends in red with admission closed.         *)
(***************************************************************************)
CriticalTrips == <>[](lastTick = 4) => <>[](health = "red" /\ degradation.redMode)

=============================================================================
