------------------------- MODULE SystemHealthProofs -------------------------
(***************************************************************************)
(* What SystemHealth guarantees for every choice of the sustained times.   *)
(* The inductive invariant relates the one clock of the code to the        *)
(* histories: it never runs ahead of the time spent in the state, and      *)
(* where the state has one trigger, not ahead of the time that trigger has *)
(* been met without interruption.                                          *)
(***************************************************************************)
EXTENDS SystemHealth, TLAPS

ClockFollowsTrigger ==
    /\ sustained <= since
    /\ health = "green" /\ prevTriggerHit => High(lastTick) /\ sustained <= heldFor["high"]
    /\ health = "red" /\ prevTriggerHit => Cooled(lastTick) /\ sustained <= heldFor["cooled"]

HealthInv == TypeOK /\ DegradationFollowsHealth /\ ClockFollowsTrigger

(***************************************************************************)
(* Clocks stay in their range and keep the order of what they measure.     *)
(***************************************************************************)
LEMMA ClockType == \A t \in Nat : Clock(t) \in 0 .. Horizon
BY ClockAssumption DEF Clock

LEMMA ClockMonotonic ==
    \A s, t \in Nat : s <= t => Clock(s) <= Clock(t)
BY ClockAssumption DEF Clock

LEMMA HealthInvInit == Init => HealthInv
<1> SUFFICES ASSUME Init PROVE HealthInv
  OBVIOUS
<1>1. heldFor \in [Conditions -> 0 .. Horizon]
  BY ClockAssumption DEF Init
<1>2. degradation \in [redMode : BOOLEAN, previewIdle : {"default", "short"}]
  BY DEF Init
<1>3. /\ health \in States /\ lastTick \in Pressures
      /\ sustained \in 0 .. Horizon /\ since \in 0 .. Horizon /\ lasted \in 0 .. Horizon
  BY ClockAssumption DEF Init, States, Pressures
<1>5. prevTriggerHit \in BOOLEAN /\ beat \in BOOLEAN
  BY Zenon DEF Init
<1>6. TypeOK
  BY <1>1, <1>2, <1>3, <1>5, Zenon DEF TypeOK
<1>4. DegradationFollowsHealth /\ ClockFollowsTrigger
  BY DEF Init, DegradationFollowsHealth, ClockFollowsTrigger
<1> QED BY <1>4, <1>6 DEF HealthInv

(***************************************************************************)
(* What one tick does to the histories and to the clock.                   *)
(***************************************************************************)
LEMMA ObserveType ==
    ASSUME TypeOK, NEW p \in Pressures, NEW gap \in 1 .. MaxGap, Observe(p, gap)
    PROVE  /\ lastTick' \in Pressures
           /\ since' \in 0 .. Horizon
           /\ lasted' \in 0 .. Horizon
           /\ heldFor' \in [Conditions -> 0 .. Horizon]
<1>1. \A c \in Conditions : heldFor[c] + gap \in Nat
  BY ClockAssumption DEF TypeOK
<1>2. heldFor' \in [Conditions -> 0 .. Horizon]
  BY <1>1, ClockType, ClockAssumption DEF Observe
<1>3. lasted' \in 0 .. Horizon /\ since' \in 0 .. Horizon
  BY ClockType, ClockAssumption DEF Observe, TypeOK
<1> QED BY <1>2, <1>3 DEF Observe

LEMMA TickClock ==
    ASSUME HealthInv, NEW p \in Pressures, NEW gap \in 1 .. MaxGap, Tick(p, gap),
           NEW clock, clock = IF TriggerForCurrent(p) /\ ~prevTriggerHit
                              THEN 0 ELSE Clock(sustained + gap)
    PROVE  /\ clock \in 0 .. Horizon
           /\ clock <= Clock(since + gap)
           /\ health = "green" /\ High(p) => clock <= heldFor'["high"]
           /\ health = "red" /\ Cooled(p) => clock <= heldFor'["cooled"]
<1>1. sustained + gap \in Nat /\ since + gap \in Nat
  BY ClockAssumption DEF HealthInv, TypeOK
<1>2. clock \in 0 .. Horizon /\ clock <= Clock(since + gap)
  <2>1. Clock(sustained + gap) <= Clock(since + gap)
    BY <1>1, ClockMonotonic, ClockAssumption DEF HealthInv, ClockFollowsTrigger, TypeOK
  <2>2. Clock(sustained + gap) \in 0 .. Horizon /\ Clock(since + gap) \in 0 .. Horizon
    BY <1>1, ClockType
  <2> QED BY <2>1, <2>2, ClockAssumption
<1>3. ASSUME NEW c \in Conditions,
             Meets(c, p), TriggerForCurrent(p),
             prevTriggerHit => Meets(c, lastTick) /\ sustained <= heldFor[c]
      PROVE  clock <= heldFor'[c]
  <2>1. heldFor[c] \in 0 .. Horizon /\ heldFor[c] + gap \in Nat
    BY ClockAssumption DEF HealthInv, TypeOK
  <2>2. heldFor'[c] = IF Meets(c, lastTick) THEN Clock(heldFor[c] + gap) ELSE 0
    BY <1>3 DEF Tick, Observe
  <2>3. CASE ~prevTriggerHit
    BY <2>1, <2>2, <2>3, <1>3, ClockType, ClockAssumption
  <2>4. CASE prevTriggerHit
    <3>1. Clock(sustained + gap) <= Clock(heldFor[c] + gap)
      BY <2>4, <1>3, <2>1, <1>1, ClockMonotonic, ClockAssumption DEF HealthInv, TypeOK
    <3> QED BY <3>1, <2>2, <2>4, <1>3
  <2> QED BY <2>3, <2>4
<1>4. health = "green" /\ High(p) => clock <= heldFor'["high"]
  BY <1>3 DEF Conditions, Meets, TriggerForCurrent, HealthInv, ClockFollowsTrigger
<1>5. health = "red" /\ Cooled(p) => clock <= heldFor'["cooled"]
  BY <1>3 DEF Conditions, Meets, TriggerForCurrent, HealthInv, ClockFollowsTrigger
<1> QED BY <1>2, <1>4, <1>5

(***************************************************************************)
(* Where a tick can lead, and the clock it needs to lead there.            *)
(***************************************************************************)
LEMMA TickChange ==
    ASSUME HealthInv, NEW p \in Pressures, NEW gap \in 1 .. MaxGap, Tick(p, gap),
           health' # health
    PROVE  \E clock \in 0 .. Horizon :
             /\ clock <= lasted'
             /\ \/ health = "green" /\ health' = "yellow" /\ clock >= YellowEnterSustained
                                    /\ clock <= heldFor'["high"]
                \/ health = "yellow" /\ health' = "red" /\ clock >= RedEnterSustained
                \/ health = "red" /\ health' = "yellow" /\ clock >= YellowExitSustained
                                  /\ clock <= heldFor'["cooled"]
                \/ health = "yellow" /\ health' = "green" /\ clock >= GreenExitSustained
<1> DEFINE clock == IF TriggerForCurrent(p) /\ ~prevTriggerHit
                    THEN 0 ELSE Clock(sustained + gap)
<1>1. /\ clock \in 0 .. Horizon
      /\ clock <= Clock(since + gap)
      /\ health = "green" /\ High(p) => clock <= heldFor'["high"]
      /\ health = "red" /\ Cooled(p) => clock <= heldFor'["cooled"]
  BY TickClock
<1>2. lasted' = Clock(since + gap)
  BY DEF Tick, Observe
<1>3. health' = MetricsEvent(p, IF TriggerForCurrent(p) THEN clock ELSE 0)
  BY DEF Tick
<1> HIDE DEF clock
<1>4. TriggerForCurrent(p) /\ health' = MetricsEvent(p, clock)
  BY <1>3, ClockAssumption DEF MetricsEvent, Sustained
<1>5. \/ health = "green" /\ health' = "yellow" /\ clock >= YellowEnterSustained /\ High(p)
      \/ health = "yellow" /\ health' = "red" /\ clock >= RedEnterSustained
      \/ health = "red" /\ health' = "yellow" /\ clock >= YellowExitSustained /\ Cooled(p)
      \/ health = "yellow" /\ health' = "green" /\ clock >= GreenExitSustained
  BY <1>4 DEF MetricsEvent, HealthInv, TypeOK, States
<1> QED
  BY <1>1, <1>2, <1>5

LEMMA DegradationStep ==
    ASSUME HealthInv, NEW p \in Pressures, NEW gap \in 1 .. MaxGap, Tick(p, gap)
    PROVE  /\ DegradationFollowsHealth'
           /\ health' \in States
           /\ degradation' \in [redMode : BOOLEAN, previewIdle : {"default", "short"}]
<1>1. CASE health' = health
  BY <1>1 DEF Tick, HealthInv, TypeOK, DegradationFollowsHealth
<1>2. CASE health' # health
  <2>1. degradation' = OnEnter(health', OnExit(health, degradation))
    BY <1>2 DEF Tick
  <2>2. \/ health = "green" /\ health' = "yellow"
        \/ health = "yellow" /\ health' = "red"
        \/ health = "red" /\ health' = "yellow"
        \/ health = "yellow" /\ health' = "green"
    BY <1>2, TickChange
  <2> QED
    BY <2>1, <2>2 DEF OnEnter, OnExit, HealthInv, TypeOK, DegradationFollowsHealth, States
<1> QED BY <1>1, <1>2

LEMMA HealthInvStep == HealthInv /\ [Next]_vars => HealthInv'
<1> SUFFICES ASSUME HealthInv, [Next]_vars PROVE HealthInv'
  OBVIOUS
<1>1. CASE UNCHANGED vars
  BY <1>1 DEF vars, HealthInv, TypeOK, DegradationFollowsHealth, ClockFollowsTrigger
<1>2. ASSUME NEW p \in Pressures, NEW gap \in 1 .. MaxGap, Tick(p, gap)
      PROVE  HealthInv'
  <2> DEFINE clock == IF TriggerForCurrent(p) /\ ~prevTriggerHit
                      THEN 0 ELSE Clock(sustained + gap)
  <2>0. Tick(p, gap) BY <1>2
  <2>1. /\ clock \in 0 .. Horizon
        /\ clock <= Clock(since + gap)
        /\ health = "green" /\ High(p) => clock <= heldFor'["high"]
        /\ health = "red" /\ Cooled(p) => clock <= heldFor'["cooled"]
    BY <2>0, TickClock
  <2>2. Observe(p, gap) /\ Clock(since + gap) \in 0 .. Horizon
    BY <2>0, ClockType, ClockAssumption DEF Tick, HealthInv, TypeOK
  <2>3. \/ /\ health' = health
           /\ sustained' = clock
           /\ prevTriggerHit' = TriggerForCurrent(p)
        \/ /\ health' # health
           /\ sustained' = 0
           /\ prevTriggerHit' = FALSE
    BY <2>0 DEF Tick
  <2> HIDE DEF clock
  <2>4. TypeOK'
    <3>1. sustained' \in 0 .. Horizon
      BY <2>1, <2>3, ClockAssumption
    <3>2. health \in States BY DEF HealthInv, TypeOK
    <3>3. TriggerForCurrent(p) \in BOOLEAN
      <4>1. High(p) \in BOOLEAN /\ Cooled(p) \in BOOLEAN
        BY DEF High, Cooled
      <4>2. (Critical(p) \/ Calm(p)) \in BOOLEAN
        OBVIOUS
      <4> QED BY <3>2, <4>1, <4>2 DEF States, TriggerForCurrent
    <3>4. prevTriggerHit' \in BOOLEAN
      BY <2>3, <3>3
    <3>5. /\ lastTick' \in Pressures
          /\ since' \in 0 .. Horizon
          /\ lasted' \in 0 .. Horizon
          /\ heldFor' \in [Conditions -> 0 .. Horizon]
      <4>1. TypeOK BY DEF HealthInv
      <4> QED BY <4>1, <2>2, ObserveType
    <3>6. /\ health' \in States
          /\ degradation' \in [redMode : BOOLEAN, previewIdle : {"default", "short"}]
      BY <2>0, DegradationStep
    <3>7. beat' \in BOOLEAN
      BY <2>2, Zenon DEF Observe
    <3> QED BY <3>1, <3>4, <3>5, <3>6, <3>7, Zenon DEF TypeOK
  <2>5. ClockFollowsTrigger'
    BY <2>1, <2>2, <2>3, ClockAssumption DEF ClockFollowsTrigger, Observe, TriggerForCurrent
  <2> QED BY <2>0, <2>4, <2>5, DegradationStep DEF HealthInv
<1> QED BY <1>1, <1>2 DEF Next

THEOREM HealthInvariant == Spec => []HealthInv
BY HealthInvInit, HealthInvStep, PTL DEF Spec

\* Whatever the metrics and the clock do, the state, its times and the degraded
\* services keep their types.
THEOREM HealthTypeCorrect == Spec => []TypeOK
<1>1. HealthInv => TypeOK BY DEF HealthInv
<1> QED BY <1>1, HealthInvariant, PTL

-----------------------------------------------------------------------------
(***************************************************************************)
(* Red mode and the idle time of the previews are, at every moment, the    *)
(* ones of the current state: no order of changes leaves one behind.       *)
(***************************************************************************)
THEOREM DegradationIsCurrent == Spec => []DegradationFollowsHealth
<1>1. HealthInv => DegradationFollowsHealth BY DEF HealthInv
<1> QED BY <1>1, HealthInvariant, PTL

(***************************************************************************)
(* No state is left before it has lasted the sustained time of the         *)
(* transition that leaves it, and every change is between neighbours.      *)
(***************************************************************************)
THEOREM StatesLast == Spec => NoFlapping
<1> DEFINE A == /\ health = "green" => health' \in {"green", "yellow"}
                /\ health = "red" => health' \in {"red", "yellow"}
                /\ health = "green" /\ health' = "yellow" => lasted' >= YellowEnterSustained
                /\ health = "yellow" /\ health' = "red" => lasted' >= RedEnterSustained
                /\ health = "red" /\ health' = "yellow" => lasted' >= YellowExitSustained
                /\ health = "yellow" /\ health' = "green" => lasted' >= GreenExitSustained
<1>1. HealthInv /\ [Next]_vars => [A]_vars
  <2> SUFFICES ASSUME HealthInv, NEW p \in Pressures, NEW gap \in 1 .. MaxGap, Tick(p, gap)
               PROVE  A
    BY DEF Next
  <2>1. CASE health' = health
    BY <2>1
  <2>2. CASE health' # health
    <3>1. lasted' \in 0 .. Horizon
      BY ObserveType DEF Tick, HealthInv
    <3> QED BY <2>2, <3>1, TickChange, ClockAssumption DEF Sustained
  <2> QED BY <2>1, <2>2
<1> QED BY <1>1, HealthInvariant, PTL DEF Spec, NoFlapping

(***************************************************************************)
(* Green and red are left only when every tick of the sustained time met   *)
(* their trigger.                                                          *)
(***************************************************************************)
THEOREM GreenAndRedAreSustained == Spec => OneTriggerIsSustained
<1> DEFINE A == /\ health = "green" /\ health' # "green"
                     => heldFor'["high"] >= YellowEnterSustained
                /\ health = "red" /\ health' # "red"
                     => heldFor'["cooled"] >= YellowExitSustained
<1>1. HealthInv /\ [Next]_vars => [A]_vars
  <2> SUFFICES ASSUME HealthInv, NEW p \in Pressures, NEW gap \in 1 .. MaxGap, Tick(p, gap)
               PROVE  A
    BY DEF Next
  <2>1. CASE health' = health
    BY <2>1
  <2>2. CASE health' # health
    <3>1. heldFor'["high"] \in 0 .. Horizon /\ heldFor'["cooled"] \in 0 .. Horizon
      BY ObserveType DEF Tick, HealthInv, Conditions
    <3> QED BY <2>2, <3>1, TickChange, ClockAssumption DEF Sustained
  <2> QED BY <2>1, <2>2
<1> QED BY <1>1, HealthInvariant, PTL DEF Spec, OneTriggerIsSustained
=============================================================================
