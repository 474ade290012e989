--------------------------- MODULE ReadModelProofs ---------------------------
(***************************************************************************)
(* The two projections of the event log agree: the read model in memory is,*)
(* between commands, the one the SQL tables hold, and subscribers are given*)
(* the events of the log in order and once, for any commands, failures and *)
(* crashes short of a failed reconciliation.  What the decider rests on the*)
(* read model for follows: ids are created once, a root has one project    *)
(* unless an update moved one there, and a deleted project is left empty.  *)
(* All that where no thread has more plans than the memory keeps: beyond,  *)
(* the two projections differ.                                             *)
(***************************************************************************)
EXTENDS OrchestrationEngineProofs

-----------------------------------------------------------------------------
(* An event in memory and in the tables *)

\* A plan belongs to the thread some command proposes it on.
Proposed(plan, t) ==
  \E c \in Commands : c.type = "thread.proposed-plan.upsert" /\ c.plan = plan /\ c.thread = t

\* An id of a plan names its thread: no two threads propose one.
PlansNameTheirThread ==
  \A plan \in Plans : \A s, t \in Threads : Proposed(plan, s) /\ Proposed(plan, t) => s = t

\* No thread is proposed more plans than the memory keeps of it.
PlansFit ==
  \A t \in Threads :
    LET own == {plan \in Plans : Proposed(plan, t)}
    IN  IsFiniteSet(own) /\ Cardinality(own) <= MaxPlans

\* The tables hold plans of threads they hold.
PlansOwned(tb) ==
  \A plan \in DOMAIN tb.plans :
    tb.plans[plan].thread \in DOMAIN tb.threads /\ Proposed(plan, tb.plans[plan].thread)

\* What the decider ensures of an event before it is appended.
Fitting(known, e) ==
  /\ e.type = "thread.created" => e.thread \notin known
  /\ e.type = "thread.proposed-plan-upserted" => e.thread \in known /\ Proposed(e.plan, e.thread)

\* The threads of a snapshot.
Entries(tb) ==
  [t \in DOMAIN tb.threads |->
     [project |-> tb.threads[t].project, archived |-> tb.threads[t].archived,
      deleted |-> tb.threads[t].deleted,
      plans |-> PlansOf(tb, t)]]

\* The tables after all projectors applied the event.
Projected(tb, e) ==
  Apply("sandbox", Apply("threads", Apply("proposedPlans", Apply("projects", tb, e), e), e), e)

NewProjects(f, e) ==
  CASE e.type = "project.created" -> Put(f, e.project, [root |-> e.root, deleted |-> FALSE])
    [] e.type = "project.meta-updated" /\ e.project \in DOMAIN f ->
         Put(f, e.project, [f[e.project] EXCEPT !.root = IF e.root = None THEN @ ELSE e.root])
    [] e.type = "project.deleted" /\ e.project \in DOMAIN f ->
         Put(f, e.project, [f[e.project] EXCEPT !.deleted = TRUE])
    [] OTHER -> f

NewPlans(f, e) ==
  IF e.type = "thread.proposed-plan-upserted"
  THEN Put(f, e.plan, [thread |-> e.thread, createdAt |-> e.createdAt])
  ELSE f

NewThreads(f, e) ==
  CASE e.type = "thread.created" ->
         Put(f, e.thread, [project |-> e.project, archived |-> FALSE, deleted |-> FALSE])
    [] e.type = "thread.archived" /\ e.thread \in DOMAIN f ->
         Put(f, e.thread, [f[e.thread] EXCEPT !.archived = TRUE])
    [] e.type = "thread.unarchived" /\ e.thread \in DOMAIN f ->
         Put(f, e.thread, [f[e.thread] EXCEPT !.archived = FALSE])
    [] e.type = "thread.deleted" /\ e.thread \in DOMAIN f ->
         Put(f, e.thread, [f[e.thread] EXCEPT !.deleted = TRUE])
    [] OTHER -> f

NewPins(f, e) ==
  CASE e.type = "sandbox.model-pinned" -> Put(f, e.provider, e.model)
    [] e.type = "sandbox.model-unpinned" -> Drop(f, e.provider)
    [] OTHER -> f

\* Each projector changes its own table, by that table and the event alone.
LEMMA ProjectorsOwnTheirTables ==
  ASSUME NEW tb \in Tables, NEW e \in Event
  PROVE  /\ Apply("projects", tb, e) = [tb EXCEPT !.projects = NewProjects(tb.projects, e)]
         /\ Apply("proposedPlans", tb, e) = [tb EXCEPT !.plans = NewPlans(tb.plans, e)]
         /\ Apply("threads", tb, e) = [tb EXCEPT !.threads = NewThreads(tb.threads, e)]
         /\ Apply("sandbox", tb, e) = [tb EXCEPT !.pins = NewPins(tb.pins, e)]
<1>0. /\ tb = [tb EXCEPT !.projects = tb.projects] /\ tb = [tb EXCEPT !.plans = tb.plans]
      /\ tb = [tb EXCEPT !.threads = tb.threads] /\ tb = [tb EXCEPT !.pins = tb.pins]
  BY DEF Tables
<1>1. Apply("projects", tb, e) = [tb EXCEPT !.projects = NewProjects(tb.projects, e)]
  BY <1>0 DEF Apply, ApplyProjectsProjection, NewProjects
<1>2. Apply("proposedPlans", tb, e) = [tb EXCEPT !.plans = NewPlans(tb.plans, e)]
  BY <1>0 DEF Apply, ApplyThreadProposedPlansProjection, NewPlans
<1>3. Apply("threads", tb, e) = [tb EXCEPT !.threads = NewThreads(tb.threads, e)]
  BY <1>0 DEF Apply, ApplyThreadsProjection, NewThreads
<1>4. Apply("sandbox", tb, e) = [tb EXCEPT !.pins = NewPins(tb.pins, e)]
  BY <1>0 DEF Apply, ApplySandboxProjection, NewPins
<1> QED
  BY <1>1, <1>2, <1>3, <1>4

\* The same, field by field.
LEMMA ProjectsFields ==
  ASSUME NEW tb \in Tables, NEW e \in Event
  PROVE  LET a == Apply("projects", tb, e)
         IN  /\ a \in Tables /\ a.projects = NewProjects(tb.projects, e)
             /\ a.plans = tb.plans /\ a.threads = tb.threads /\ a.pins = tb.pins
<1>1. Apply("projects", tb, e) \in Tables
  BY ApplyType DEF Projectors, ProjectorOrder
<1>2. Apply("projects", tb, e) = [tb EXCEPT !.projects = NewProjects(tb.projects, e)]
  BY ProjectorsOwnTheirTables
<1> QED
  BY <1>1, <1>2 DEF Tables

LEMMA PlansFields ==
  ASSUME NEW tb \in Tables, NEW e \in Event
  PROVE  LET a == Apply("proposedPlans", tb, e)
         IN  /\ a \in Tables /\ a.plans = NewPlans(tb.plans, e)
             /\ a.projects = tb.projects /\ a.threads = tb.threads /\ a.pins = tb.pins
<1>1. Apply("proposedPlans", tb, e) \in Tables
  BY ApplyType DEF Projectors, ProjectorOrder
<1>2. Apply("proposedPlans", tb, e) = [tb EXCEPT !.plans = NewPlans(tb.plans, e)]
  BY ProjectorsOwnTheirTables
<1> QED
  BY <1>1, <1>2 DEF Tables

LEMMA ThreadsFields ==
  ASSUME NEW tb \in Tables, NEW e \in Event
  PROVE  LET a == Apply("threads", tb, e)
         IN  /\ a \in Tables /\ a.threads = NewThreads(tb.threads, e)
             /\ a.projects = tb.projects /\ a.plans = tb.plans /\ a.pins = tb.pins
<1>1. Apply("threads", tb, e) \in Tables
  BY ApplyType DEF Projectors, ProjectorOrder
<1>2. Apply("threads", tb, e) = [tb EXCEPT !.threads = NewThreads(tb.threads, e)]
  BY ProjectorsOwnTheirTables
<1> QED
  BY <1>1, <1>2 DEF Tables

LEMMA PinsFields ==
  ASSUME NEW tb \in Tables, NEW e \in Event
  PROVE  LET a == Apply("sandbox", tb, e)
         IN  /\ a \in Tables /\ a.pins = NewPins(tb.pins, e)
             /\ a.projects = tb.projects /\ a.plans = tb.plans /\ a.threads = tb.threads
<1>1. Apply("sandbox", tb, e) \in Tables
  BY ApplyType DEF Projectors, ProjectorOrder
<1>2. Apply("sandbox", tb, e) = [tb EXCEPT !.pins = NewPins(tb.pins, e)]
  BY ProjectorsOwnTheirTables
<1> QED
  BY <1>1, <1>2 DEF Tables

LEMMA ProjectedTables ==
  ASSUME NEW tb \in Tables, NEW e \in Event
  PROVE  /\ Projected(tb, e) \in Tables
         /\ Projected(tb, e).projects = NewProjects(tb.projects, e)
         /\ Projected(tb, e).plans = NewPlans(tb.plans, e)
         /\ Projected(tb, e).threads = NewThreads(tb.threads, e)
         /\ Projected(tb, e).pins = NewPins(tb.pins, e)
<1> DEFINE a == Apply("projects", tb, e)
           b == Apply("proposedPlans", a, e)
           c == Apply("threads", b, e)
           d == Apply("sandbox", c, e)
<1>1. /\ a \in Tables /\ a.projects = NewProjects(tb.projects, e) /\ a.plans = tb.plans
      /\ a.threads = tb.threads /\ a.pins = tb.pins
  BY ProjectsFields
<1> HIDE DEF a
<1>2. /\ b \in Tables /\ b.projects = a.projects /\ b.plans = NewPlans(tb.plans, e)
      /\ b.threads = a.threads /\ b.pins = a.pins
  BY <1>1, PlansFields
<1> HIDE DEF b
<1>3. /\ c \in Tables /\ c.projects = a.projects /\ c.plans = b.plans
      /\ c.threads = NewThreads(tb.threads, e) /\ c.pins = a.pins
  BY <1>1, <1>2, ThreadsFields
<1> HIDE DEF c
<1>4. /\ d \in Tables /\ d.projects = c.projects /\ d.plans = c.plans
      /\ d.threads = c.threads /\ d.pins = NewPins(tb.pins, e)
  BY <1>1, <1>3, PinsFields
<1>5. Projected(tb, e) = d
  BY DEF Projected, a, b, c
<1> QED
  BY <1>1, <1>2, <1>3, <1>4, <1>5

\* Writing a row that exists is updating it.
LEMMA PutIsUpdate ==
  ASSUME NEW S, NEW T, NEW f \in PartialFn(S, T), NEW k \in DOMAIN f, NEW v
  PROVE  Put(f, k, v) = [f EXCEPT ![k] = v]
<1>1. PICK D \in SUBSET S : f \in [D -> T]
  BY DEF PartialFn
<1> QED
  BY <1>1 DEF Put

\* The projects of the model and of the tables change alike.
LEMMA ProjectsAgree ==
  ASSUME NEW m \in ReadModel, NEW e \in Event, NEW seq \in Nat
  PROVE  ProjectEvent(m, e, seq).projects = NewProjects(m.projects, e)
<1>1. m.projects \in PartialFn(Projects, ProjectRow)
  BY DEF ReadModel
<1>2. \A p \in DOMAIN m.projects : m.projects[p] \in ProjectRow
  BY <1>1, RowType
<1>3. \A p \in DOMAIN m.projects : \A v : Put(m.projects, p, v) = [m.projects EXCEPT ![p] = v]
  BY <1>1, PutIsUpdate
<1>4. CASE e.type = "project.created"
  BY <1>4 DEF ProjectEvent, NewProjects, ReadModel
<1>5. CASE e.type = "project.meta-updated" /\ e.project \in DOMAIN m.projects
  <2>1. CASE e.root # None
    BY <1>3, <1>5, <2>1 DEF ProjectEvent, NewProjects, ReadModel
  <2>2. CASE e.root = None
    <3>1. [m.projects EXCEPT ![e.project] = [m.projects[e.project] EXCEPT !.root = @]] = m.projects
      BY <1>1, <1>2, <1>5 DEF ProjectRow, PartialFn
    <3>2. ProjectEvent(m, e, seq).projects = m.projects
      BY <1>5, <2>2 DEF ProjectEvent, ReadModel
    <3> QED
      BY <1>3, <1>5, <2>2, <3>1, <3>2 DEF NewProjects
  <2> QED
    BY <2>1, <2>2
<1>6. CASE e.type = "project.deleted" /\ e.project \in DOMAIN m.projects
  BY <1>3, <1>6 DEF ProjectEvent, NewProjects, ReadModel
<1>7. CASE /\ e.type # "project.created"
           /\ ~(e.type \in {"project.meta-updated", "project.deleted"}
                /\ e.project \in DOMAIN m.projects)
  BY <1>7 DEF ProjectEvent, NewProjects, ReadModel
<1> QED
  BY <1>4, <1>5, <1>6, <1>7

\* So do the pins.
LEMMA PinsAgree ==
  ASSUME NEW m \in ReadModel, NEW e \in Event, NEW seq \in Nat
  PROVE  ProjectEvent(m, e, seq).pins = NewPins(m.pins, e)
<1>1. CASE e.type = "sandbox.model-pinned"
  BY <1>1 DEF ProjectEvent, ProjectPins, NewPins, ReadModel
<1>2. CASE e.type = "sandbox.model-unpinned"
  BY <1>2 DEF ProjectEvent, ProjectPins, NewPins, ReadModel
<1>3. CASE e.type \notin {"sandbox.model-pinned", "sandbox.model-unpinned"}
  BY <1>3 DEF ProjectEvent, NewPins, ReadModel
<1> QED
  BY <1>1, <1>2, <1>3

\* The plans keep their threads.
LEMMA PlansStayOwned ==
  ASSUME NEW tb \in Tables, PlansOwned(tb), NEW e \in Event, Fitting(DOMAIN tb.threads, e),
         NEW tb2 \in Tables, tb2.threads = NewThreads(tb.threads, e),
         tb2.plans = NewPlans(tb.plans, e)
  PROVE  PlansOwned(tb2) /\ DOMAIN tb.threads \subseteq DOMAIN tb2.threads
<1>1. DOMAIN tb.threads \subseteq DOMAIN tb2.threads
  BY DEF NewThreads, Put
<1>2. CASE e.type = "thread.proposed-plan-upserted"
  BY <1>1, <1>2 DEF PlansOwned, NewPlans, Put, Fitting
<1>3. CASE e.type # "thread.proposed-plan-upserted"
  BY <1>1, <1>3 DEF PlansOwned, NewPlans
<1> QED
  BY <1>1, <1>2, <1>3

\* Of the plans of a thread the memory forgets none.
LEMMA OwnPlansKept ==
  ASSUME PlansFit, NEW tb \in Tables, PlansOwned(tb), NEW t \in Threads
  PROVE  Latest(PlansOf(tb, t)) = PlansOf(tb, t)
<1> DEFINE own == {plan \in Plans : Proposed(plan, t)}
           plans == PlansOf(tb, t)
<1>1. IsFiniteSet(own) /\ Cardinality(own) <= MaxPlans
  BY DEF PlansFit
<1>2. plans \in ThreadPlans /\ DOMAIN tb.plans \subseteq Plans
  BY PlansOfType, RowType DEF Tables
<1>3. DOMAIN plans \subseteq own
  BY <1>2 DEF PlansOf, PlansOwned
<1> HIDE DEF own, plans
<1>4. /\ IsFiniteSet(DOMAIN plans) /\ Cardinality(DOMAIN plans) <= Cardinality(own)
      /\ Cardinality(DOMAIN plans) \in Nat /\ Cardinality(own) \in Nat
  BY <1>1, <1>3, FS_Subset, FS_CardinalityType
<1>5. Cardinality(DOMAIN plans) <= MaxPlans
  BY <1>1, <1>4, ModelAssumption
<1>6. Latest(plans) = plans
  BY <1>2, <1>4, <1>5, ModelAssumption, LatestKeepsFew
<1> QED
  BY <1>6 DEF plans

\* And so do the threads, whose plans the tables keep apart.
LEMMA ThreadsAgree ==
  ASSUME PlansNameTheirThread, PlansFit, NEW tb \in Tables, PlansOwned(tb), NEW e \in Event,
         Fitting(DOMAIN tb.threads, e), NEW seq \in Nat,
         NEW m \in ReadModel, m.threads = Entries(tb),
         NEW tb2 \in Tables, tb2.threads = NewThreads(tb.threads, e),
         tb2.plans = NewPlans(tb.plans, e)
  PROVE  ProjectEvent(m, e, seq).threads = Entries(tb2)
<1> DEFINE t == e.thread
           plansOf(x) == PlansOf(tb, x)
           plansOf2(x) == PlansOf(tb2, x)
           entry(r, pls) == [project |-> r.project, archived |-> r.archived,
                             deleted |-> r.deleted, plans |-> pls]
<1>1. /\ tb.threads \in PartialFn(Threads, ThreadRow)
      /\ tb.plans \in PartialFn(Plans, PlanRow)
  BY DEF Tables
<1>2. /\ DOMAIN tb.threads \subseteq Threads
      /\ \A x \in DOMAIN tb.threads : tb.threads[x] \in ThreadRow
      /\ DOMAIN tb.plans \subseteq Plans
  BY <1>1, RowType
<1>3. m.threads = [x \in DOMAIN tb.threads |-> entry(tb.threads[x], plansOf(x))]
  BY DEF Entries
<1>4. Entries(tb2) = [x \in DOMAIN tb2.threads |-> entry(tb2.threads[x], plansOf2(x))]
  BY DEF Entries
<1>5. DOMAIN m.threads = DOMAIN tb.threads
  BY <1>3
<1>6. \A x \in DOMAIN tb.threads : \A r : Put(tb.threads, x, r) = [tb.threads EXCEPT ![x] = r]
  BY <1>1, PutIsUpdate
<1>13. ASSUME NEW r \in ThreadRow, NEW pls, NEW b \in BOOLEAN
       PROVE  /\ [entry(r, pls) EXCEPT !.deleted = b] = entry([r EXCEPT !.deleted = b], pls)
              /\ [entry(r, pls) EXCEPT !.archived = b] = entry([r EXCEPT !.archived = b], pls)
  BY DEF ThreadRow
<1>14. ASSUME NEW r \in ThreadRow, NEW pls, NEW more
       PROVE  [entry(r, pls) EXCEPT !.plans = more] = entry(r, more)
  OBVIOUS
<1>15. ASSUME tb2.plans = tb.plans PROVE \A x : plansOf2(x) = plansOf(x)
  BY <1>15 DEF PlansOf
<1> HIDE DEF plansOf, plansOf2, entry
<1>7. CASE e.type = "thread.created"
  <2>1. tb2.plans = tb.plans /\ t \notin DOMAIN tb.threads
    BY <1>7 DEF NewPlans, Fitting
  <2>2. plansOf2(t) = NoPlans /\ \A x \in DOMAIN tb.threads : plansOf2(x) = plansOf(x)
    <3>1. \A pl \in DOMAIN tb2.plans : tb2.plans[pl].thread # t
      BY <2>1 DEF PlansOwned
    <3>2. plansOf2(t) = NoPlans
      BY <3>1 DEF plansOf2, PlansOf, NoPlans
    <3> QED
      BY <1>15, <2>1, <3>2
  <2>3. tb2.threads = Put(tb.threads, t, [project |-> e.project, archived |-> FALSE, deleted |-> FALSE])
    BY <1>7 DEF NewThreads
  <2>4. ProjectEvent(m, e, seq).threads =
          Put(m.threads, t, [project |-> e.project, archived |-> FALSE, deleted |-> FALSE,
                         plans |-> NoPlans])
    BY <1>7 DEF ProjectEvent, ReadModel
  <2>5. DOMAIN tb2.threads = DOMAIN tb.threads \cup {t}
    BY <2>3 DEF Put
  <2>6. tb2.threads[t] = [project |-> e.project, archived |-> FALSE, deleted |-> FALSE]
    BY <2>3 DEF Put
  <2>7. entry(tb2.threads[t], plansOf2(t)) =
          [project |-> e.project, archived |-> FALSE, deleted |-> FALSE, plans |-> NoPlans]
    BY <2>2, <2>6 DEF entry
  <2>8. \A x \in DOMAIN tb.threads : x # t /\ m.threads[x] = entry(tb2.threads[x], plansOf2(x))
    BY <1>3, <2>1, <2>2, <2>3 DEF Put
  <2>9. ProjectEvent(m, e, seq).threads =
          [x \in DOMAIN tb.threads \cup {t} |->
             IF x = t THEN entry(tb2.threads[t], plansOf2(t)) ELSE m.threads[x]]
    BY <1>5, <2>4, <2>7 DEF Put
  <2> QED
    BY <1>4, <2>5, <2>8, <2>9
<1>8. CASE e.type = "thread.proposed-plan-upserted"
  <2>1. t \in DOMAIN tb.threads /\ Proposed(e.plan, t) /\ e.plan \in Plans /\ t \in Threads
    BY <1>8, EventFields DEF Fitting
  <2>2. /\ tb2.threads = tb.threads
        /\ tb2.plans = Put(tb.plans, e.plan, [thread |-> t, createdAt |-> e.createdAt])
    BY <1>8 DEF NewThreads, NewPlans
  <2>3. e.plan \in DOMAIN tb.plans => tb.plans[e.plan].thread = t
    BY <1>2, <2>1 DEF PlansOwned, PlansNameTheirThread
  <2>4. plansOf2(t) = UpsertPlan(plansOf(t), e)
    <3>1. plansOf2(t) = Put(plansOf(t), e.plan, e.createdAt)
      BY <2>2, <2>3 DEF plansOf, plansOf2, PlansOf, Put
    <3>2. Latest(plansOf2(t)) = plansOf2(t)
      BY <2>1, OwnPlansKept, PlansStayOwned DEF plansOf2
    <3> QED
      BY <3>1, <3>2 DEF UpsertPlan
  <2>5. \A x \in DOMAIN tb.threads \ {t} : plansOf2(x) = plansOf(x)
    BY <2>2, <2>3 DEF plansOf, plansOf2, PlansOf, Put
  <2>6. ProjectEvent(m, e, seq).threads = [m.threads EXCEPT ![t].plans = UpsertPlan(@, e)]
    BY <1>5, <1>8, <2>1 DEF ProjectEvent, ReadModel
  <2>7. [m.threads[t] EXCEPT !.plans = UpsertPlan(@, e)] = entry(tb2.threads[t], plansOf2(t))
    <3>1. m.threads[t] = entry(tb.threads[t], plansOf(t)) /\ tb.threads[t] \in ThreadRow
      BY <1>2, <1>3, <2>1
    <3>2. m.threads[t].plans = plansOf(t)
      BY <3>1 DEF entry
    <3>3. [m.threads[t] EXCEPT !.plans = UpsertPlan(@, e)] =
            [entry(tb.threads[t], plansOf(t)) EXCEPT !.plans = plansOf2(t)]
      BY <2>4, <3>1, <3>2
    <3> QED
      BY <1>14, <2>2, <3>1, <3>3
  <2>8. [m.threads EXCEPT ![t].plans = UpsertPlan(@, e)] =
          [x \in DOMAIN tb.threads |-> IF x = t THEN entry(tb2.threads[t], plansOf2(t)) ELSE m.threads[x]]
    BY <1>3, <2>7
  <2>9. \A x \in DOMAIN tb.threads : x # t => m.threads[x] = entry(tb2.threads[x], plansOf2(x))
    BY <1>3, <2>2, <2>5
  <2> QED
    BY <1>4, <2>2, <2>6, <2>8, <2>9
<1>9. CASE e.type = "thread.deleted" /\ t \in DOMAIN tb.threads
  <2>1. tb2.plans = tb.plans /\ tb2.threads = [tb.threads EXCEPT ![t] = [@ EXCEPT !.deleted = TRUE]]
    BY <1>6, <1>9 DEF NewPlans, NewThreads
  <2>2. \A x \in DOMAIN tb.threads : plansOf2(x) = plansOf(x)
    BY <1>15, <2>1
  <2>3. ProjectEvent(m, e, seq).threads = [m.threads EXCEPT ![t].deleted = TRUE]
    BY <1>5, <1>9 DEF ProjectEvent, ReadModel
  <2>4. [m.threads[t] EXCEPT !.deleted = TRUE] = entry(tb2.threads[t], plansOf2(t))
    <3>1. m.threads[t] = entry(tb.threads[t], plansOf(t))
      BY <1>3, <1>9
    <3>2. tb2.threads[t] = [tb.threads[t] EXCEPT !.deleted = TRUE] /\ tb.threads[t] \in ThreadRow
      BY <1>1, <1>2, <1>9, <2>1 DEF PartialFn
    <3>3. [entry(tb.threads[t], plansOf(t)) EXCEPT !.deleted = TRUE] =
            entry([tb.threads[t] EXCEPT !.deleted = TRUE], plansOf(t))
      BY <1>13, <3>2
    <3> QED
      BY <1>9, <2>2, <3>1, <3>2, <3>3
  <2>5. [m.threads EXCEPT ![t].deleted = TRUE] =
          [x \in DOMAIN tb.threads |-> IF x = t THEN entry(tb2.threads[t], plansOf2(t)) ELSE m.threads[x]]
    BY <1>3, <2>4
  <2>6. \A x \in DOMAIN tb.threads : x # t => m.threads[x] = entry(tb2.threads[x], plansOf2(x))
    BY <1>3, <2>1, <2>2
  <2>7. DOMAIN tb2.threads = DOMAIN tb.threads
    BY <2>1
  <2> QED
    BY <1>4, <2>3, <2>5, <2>6, <2>7
<1>10. CASE e.type = "thread.archived" /\ t \in DOMAIN tb.threads
  <2>1. tb2.plans = tb.plans /\ tb2.threads = [tb.threads EXCEPT ![t] = [@ EXCEPT !.archived = TRUE]]
    BY <1>6, <1>10 DEF NewPlans, NewThreads
  <2>2. \A x \in DOMAIN tb.threads : plansOf2(x) = plansOf(x)
    BY <1>15, <2>1
  <2>3. ProjectEvent(m, e, seq).threads = [m.threads EXCEPT ![t].archived = TRUE]
    BY <1>5, <1>10 DEF ProjectEvent, ReadModel
  <2>4. [m.threads[t] EXCEPT !.archived = TRUE] = entry(tb2.threads[t], plansOf2(t))
    <3>1. m.threads[t] = entry(tb.threads[t], plansOf(t))
      BY <1>3, <1>10
    <3>2. tb2.threads[t] = [tb.threads[t] EXCEPT !.archived = TRUE] /\ tb.threads[t] \in ThreadRow
      BY <1>1, <1>2, <1>10, <2>1 DEF PartialFn
    <3>3. [entry(tb.threads[t], plansOf(t)) EXCEPT !.archived = TRUE] =
            entry([tb.threads[t] EXCEPT !.archived = TRUE], plansOf(t))
      BY <1>13, <3>2
    <3> QED
      BY <1>10, <2>2, <3>1, <3>2, <3>3
  <2>5. [m.threads EXCEPT ![t].archived = TRUE] =
          [x \in DOMAIN tb.threads |-> IF x = t THEN entry(tb2.threads[t], plansOf2(t)) ELSE m.threads[x]]
    BY <1>3, <2>4
  <2>6. \A x \in DOMAIN tb.threads : x # t => m.threads[x] = entry(tb2.threads[x], plansOf2(x))
    BY <1>3, <2>1, <2>2
  <2>7. DOMAIN tb2.threads = DOMAIN tb.threads
    BY <2>1
  <2> QED
    BY <1>4, <2>3, <2>5, <2>6, <2>7
<1>11. CASE e.type = "thread.unarchived" /\ t \in DOMAIN tb.threads
  <2>1. tb2.plans = tb.plans /\ tb2.threads = [tb.threads EXCEPT ![t] = [@ EXCEPT !.archived = FALSE]]
    BY <1>6, <1>11 DEF NewPlans, NewThreads
  <2>2. \A x \in DOMAIN tb.threads : plansOf2(x) = plansOf(x)
    BY <1>15, <2>1
  <2>3. ProjectEvent(m, e, seq).threads = [m.threads EXCEPT ![t].archived = FALSE]
    BY <1>5, <1>11 DEF ProjectEvent, ReadModel
  <2>4. [m.threads[t] EXCEPT !.archived = FALSE] = entry(tb2.threads[t], plansOf2(t))
    <3>1. m.threads[t] = entry(tb.threads[t], plansOf(t))
      BY <1>3, <1>11
    <3>2. tb2.threads[t] = [tb.threads[t] EXCEPT !.archived = FALSE] /\ tb.threads[t] \in ThreadRow
      BY <1>1, <1>2, <1>11, <2>1 DEF PartialFn
    <3>3. [entry(tb.threads[t], plansOf(t)) EXCEPT !.archived = FALSE] =
            entry([tb.threads[t] EXCEPT !.archived = FALSE], plansOf(t))
      BY <1>13, <3>2
    <3> QED
      BY <1>11, <2>2, <3>1, <3>2, <3>3
  <2>5. [m.threads EXCEPT ![t].archived = FALSE] =
          [x \in DOMAIN tb.threads |-> IF x = t THEN entry(tb2.threads[t], plansOf2(t)) ELSE m.threads[x]]
    BY <1>3, <2>4
  <2>6. \A x \in DOMAIN tb.threads : x # t => m.threads[x] = entry(tb2.threads[x], plansOf2(x))
    BY <1>3, <2>1, <2>2
  <2>7. DOMAIN tb2.threads = DOMAIN tb.threads
    BY <2>1
  <2> QED
    BY <1>4, <2>3, <2>5, <2>6, <2>7
<1>12. CASE /\ e.type \notin {"thread.created", "thread.proposed-plan-upserted"}
            /\ ~(e.type \in {"thread.deleted", "thread.archived", "thread.unarchived"}
                 /\ t \in DOMAIN tb.threads)
  <2>1. tb2.plans = tb.plans /\ tb2.threads = tb.threads
    BY <1>12 DEF NewPlans, NewThreads
  <2>2. ProjectEvent(m, e, seq).threads = m.threads
    BY <1>5, <1>12 DEF ProjectEvent, ReadModel
  <2> QED
    BY <1>3, <1>4, <1>15, <2>1, <2>2
<1> QED
  BY <1>7, <1>8, <1>9, <1>10, <1>11, <1>12

-----------------------------------------------------------------------------
(* The read model and the snapshot of the tables *)

ReadModelOf(d) == Snapshot(d.tables, d.cursor)

\* Every projector has applied the whole log, and plans have their threads.
Level(d) == \A q \in Projectors : d.cursor[q] = Len(d.log)
Good(d) == Level(d) /\ PlansOwned(d.tables)

LEMMA LevelSnapshot ==
  ASSUME NEW d \in Database, Level(d)
  PROVE  /\ ReadModelOf(d) \in ReadModel
         /\ ReadModelOf(d).seq = Len(d.log)
         /\ ReadModelOf(d).projects = d.tables.projects
         /\ ReadModelOf(d).threads = Entries(d.tables)
         /\ ReadModelOf(d).pins = d.tables.pins
         /\ DOMAIN ReadModelOf(d).threads = DOMAIN d.tables.threads
<1>1. d.tables \in Tables /\ d.cursor \in [Projectors -> Nat]
  BY DEF Database
<1>2. SnapshotSequence(d.cursor) = Len(d.log)
  BY <1>1, SnapshotSequenceIsLeast DEF Level
<1>3. ReadModelOf(d) \in ReadModel
  BY <1>1, SnapshotType DEF ReadModelOf
<1> QED
  BY <1>2, <1>3 DEF ReadModelOf, Snapshot, Entries

\* Read models with equal fields are equal.
LEMMA ModelByFields ==
  ASSUME NEW m \in ReadModel, NEW n \in ReadModel, m.seq = n.seq, m.projects = n.projects,
         m.threads = n.threads, m.pins = n.pins
  PROVE  m = n
BY DEF ReadModel

\* Appending an event and applying it in the tables gives what projecting it in
\* memory gives.
LEMMA ProjectionsAgree ==
  ASSUME PlansNameTheirThread, PlansFit, installed = Projectors,
         NEW d \in Database, Good(d), NEW id \in Ids, NEW e \in Event,
         Fitting(DOMAIN ReadModelOf(d).threads, e)
  PROVE  LET seq == Len(d.log) + 1
             d2 == ProjectAll([d EXCEPT !.log = Append(@, [id |-> id, event |-> e])], e, seq)
         IN  /\ d2 \in Database /\ Good(d2)
             /\ d2.log = Append(d.log, [id |-> id, event |-> e]) /\ Len(d2.log) = seq
             /\ ReadModelOf(d2) = ProjectEvent(ReadModelOf(d), e, seq)
             /\ DOMAIN ReadModelOf(d).threads \subseteq DOMAIN ReadModelOf(d2).threads
<1> DEFINE seq == Len(d.log) + 1
           entry == [id |-> id, event |-> e]
           d1 == [d EXCEPT !.log = Append(@, entry)]
           d2 == ProjectAll(d1, e, seq)
           tb == d.tables
           tb2 == Projected(tb, e)
<1>1. /\ d.log \in Seq(Entry) /\ Len(d.log) \in Nat /\ seq \in Nat /\ entry \in Entry
      /\ tb \in Tables /\ d.cursor \in [Projectors -> Nat]
  BY DEF Database, Entry
<1>2. /\ d1 \in Database /\ d1.log = Append(d.log, entry) /\ Len(d1.log) = seq
      /\ d1.tables = tb /\ d1.cursor = d.cursor
  <2>1. d1 \in Database
    BY AppendedType
  <2>2. Len(Append(d.log, entry)) = seq
    BY <1>1
  <2> HIDE DEF entry
  <2>3. d = [log |-> d.log, receipts |-> d.receipts, cursor |-> d.cursor, tables |-> d.tables]
    BY DEF Database
  <2>4. d1.log = Append(d.log, entry) /\ d1.tables = tb /\ d1.cursor = d.cursor
    BY <2>3
  <2> QED
    BY <2>1, <2>2, <2>4
<1>3. d2 \in Database /\ d2.log = d1.log
  BY <1>1, <1>2, ProjectAllType
<1>4. d2.tables = tb2 /\ \A q \in Projectors : d2.cursor[q] = seq
  <2>1. {"projects", "proposedPlans", "threads", "sandbox"} \subseteq installed
    BY DEF Projectors, ProjectorOrder
  <2>2. d2.tables = Projected(d1.tables, e)
    BY <1>2, <2>1 DEF ProjectAll, Projected, Database
  <2>3. d2.cursor = [q \in Projectors |-> seq]
    BY <1>2 DEF ProjectAll, Database
  <2> QED
    BY <1>2, <2>2, <2>3
<1>5. DOMAIN ReadModelOf(d).threads = DOMAIN tb.threads /\ PlansOwned(tb)
  BY LevelSnapshot DEF Good
<1>6. /\ tb2 \in Tables /\ tb2.projects = NewProjects(tb.projects, e)
      /\ tb2.plans = NewPlans(tb.plans, e) /\ tb2.threads = NewThreads(tb.threads, e)
      /\ tb2.pins = NewPins(tb.pins, e)
  BY <1>1, ProjectedTables
<1> HIDE DEF d1, d2, tb2, entry, seq
<1>7. PlansOwned(tb2) /\ DOMAIN tb.threads \subseteq DOMAIN tb2.threads
  BY <1>1, <1>5, <1>6, PlansStayOwned
<1>8. Good(d2)
  BY <1>2, <1>3, <1>4, <1>7 DEF Good, Level
<1> DEFINE m == ReadModelOf(d)
           m2 == ProjectEvent(m, e, seq)
<1>9. m \in ReadModel /\ m.projects = tb.projects /\ m.threads = Entries(tb) /\ m.pins = tb.pins
  BY LevelSnapshot DEF Good
<1>10. /\ ReadModelOf(d2) \in ReadModel /\ ReadModelOf(d2).seq = seq
       /\ ReadModelOf(d2).projects = tb2.projects
       /\ ReadModelOf(d2).threads = Entries(tb2) /\ ReadModelOf(d2).pins = tb2.pins
       /\ DOMAIN ReadModelOf(d2).threads = DOMAIN tb2.threads
  BY <1>2, <1>3, <1>4, <1>8, LevelSnapshot DEF Good
<1> HIDE DEF m
<1>11. m2 \in ReadModel /\ m2.seq = seq
  BY <1>1, <1>9, ProjectEventType
<1>12. m2.projects = tb2.projects /\ m2.pins = tb2.pins
  BY <1>1, <1>6, <1>9, ProjectsAgree, PinsAgree
<1>13. m2.threads = Entries(tb2)
  BY <1>1, <1>5, <1>6, <1>9, ThreadsAgree
<1> HIDE DEF m2
<1>14. ReadModelOf(d2) = m2
  BY <1>10, <1>11, <1>12, <1>13, ModelByFields
<1> QED
  BY <1>2, <1>3, <1>5, <1>7, <1>8, <1>10, <1>14 DEF m, m2, d2, d1, entry, seq

-----------------------------------------------------------------------------
(* The events the decider answers with *)

Plain(e) == e.type \notin {"thread.created", "thread.proposed-plan-upserted"}

\* Events to be appended to a log that knows these threads: only a run of one
\* event creates a thread or proposes a plan.
TodoFits(known, es) ==
  \/ \A i \in 1..Len(es) : Plain(es[i])
  \/ Len(es) = 1 /\ Fitting(known, es[1])

\* The events of a command fit into a page.
PagesSuffice == PageLimit >= 2 /\ PageLimit > Cardinality(Threads)

LEMMA DecidedFits ==
  ASSUME PagesSuffice, NEW m \in ReadModel, NEW c \in Commands, NEW es \in Decide(m, c)
  PROVE  TodoFits(DOMAIN m.threads, es) /\ Len(es) <= PageLimit
<1>0. c \in Command(Ids) /\ PageLimit \in Nat /\ IsFiniteSet(Threads) /\ Cardinality(Threads) \in Nat
  BY EngineAssumption, ModelAssumption, FS_CardinalityType
<1>1. CASE c.type = "project.delete"
  <2> DEFINE active == ActiveThreads(m, c.project)
  <2> DEFINE deleted(ts) == [i \in 1..Len(ts) |-> [type |-> "thread.deleted", thread |-> ts[i]]]
  <2> DEFINE last == [type |-> "project.deleted", project |-> c.project]
  <2>1. PICK ts \in SetToSeqs(active) : es = deleted(ts) \o <<last>>
    BY <1>1 DEF Decide, ThreadRequests, ProjectDeletions
  <2>2. active \subseteq Threads
    BY RowType DEF ActiveThreads, ReadModel
  <2>3. Cardinality(active) \in Nat /\ Cardinality(active) <= Cardinality(Threads)
    BY <1>0, <2>2, FS_Subset, FS_CardinalityType
  <2>4. ts \in [1..Cardinality(active) -> active]
    BY DEF SetToSeqs
  <2>5. ts \in Seq(active) /\ Len(ts) = Cardinality(active)
    BY <2>3, <2>4
  <2> DEFINE S == [type : {"thread.deleted"}, thread : active]
  <2>6. deleted(ts) \in Seq(S) /\ Len(deleted(ts)) = Len(ts)
    <3>1. Len(ts) \in Nat /\ \A i \in 1..Len(ts) : ts[i] \in active
      BY <2>3, <2>4, <2>5
    <3>2. \A i \in 1..Len(ts) : [type |-> "thread.deleted", thread |-> ts[i]] \in S
      BY <3>1
    <3> HIDE DEF S, active
    <3>3. deleted(ts) \in [1..Len(ts) -> S]
      BY <3>2
    <3> QED
      BY <3>1, <3>3
  <2>7. Plain(last) /\ \A i \in 1..Len(ts) : Plain(deleted(ts)[i])
    BY <2>6 DEF Plain
  <2> HIDE DEF last, deleted
  <2>8. Len(es) = Len(ts) + 1 /\ es[Len(ts) + 1] = last
        /\ \A i \in 1..Len(ts) : es[i] = deleted(ts)[i]
    BY <2>1, <2>3, <2>5, <2>6
  <2>9. \A i \in 1..Len(es) : Plain(es[i])
    BY <2>3, <2>5, <2>7, <2>8
  <2> QED
    BY <1>0, <2>3, <2>5, <2>8, <2>9 DEF TodoFits, PagesSuffice
<1>2. CASE c.type = "thread.create"
  <2>1. /\ es = <<[type |-> "thread.created", thread |-> c.thread, project |-> c.project]>>
        /\ c.thread \notin DOMAIN m.threads
    BY <1>2 DEF Decide, ThreadRequests, ThreadAbsent
  <2> QED
    BY <1>0, <2>1 DEF TodoFits, Fitting, PagesSuffice
<1>3. CASE c.type = "thread.proposed-plan.upsert"
  <2>1. /\ es = <<[type |-> "thread.proposed-plan-upserted", thread |-> c.thread,
                     plan |-> c.plan, createdAt |-> c.createdAt]>>
        /\ c.thread \in DOMAIN m.threads
    BY <1>3 DEF Decide, ThreadRequests, ThreadExists
  <2>2. Proposed(c.plan, c.thread)
    BY <1>3 DEF Proposed
  <2> QED
    BY <1>0, <2>1, <2>2 DEF TodoFits, Fitting, PagesSuffice
<1>4. CASE c.type = "thread.turn.start"
  <2>1. es = <<[type |-> "thread.message-sent", thread |-> c.thread],
               [type |-> "thread.turn-start-requested", thread |-> c.thread]>>
    BY <1>4 DEF Decide, ThreadRequests
  <2> QED
    BY <1>0, <2>1 DEF TodoFits, Plain, PagesSuffice
<1>5. CASE c.type \in ThreadRequests
  <2>1. es = <<[type |-> RequestEvent(c.type), thread |-> c.thread]>>
    BY <1>5 DEF Decide, ThreadRequests
  <2>2. Plain([type |-> RequestEvent(c.type), thread |-> c.thread])
    BY DEF Plain, RequestEvent
  <2> QED
    BY <1>0, <2>1, <2>2 DEF TodoFits, PagesSuffice
<1>6. CASE c.type \in {"project.create", "project.meta.update", "thread.delete", "thread.archive",
                       "thread.unarchive", "sandbox.model.pin", "sandbox.model.unpin"}
  <2>1. \E e : es = <<e>> /\ Plain(e)
    <3>1. CASE c.type = "project.create"
      BY <3>1 DEF Decide, ThreadRequests, Plain
    <3>2. CASE c.type = "project.meta.update"
      BY <3>2 DEF Decide, ThreadRequests, Plain
    <3>3. CASE c.type = "thread.delete"
      BY <3>3 DEF Decide, ThreadRequests, Plain
    <3>4. CASE c.type = "thread.archive"
      BY <3>4 DEF Decide, ThreadRequests, Plain
    <3>5. CASE c.type = "thread.unarchive"
      BY <3>5 DEF Decide, ThreadRequests, Plain
    <3>6. CASE c.type = "sandbox.model.pin"
      BY <3>6 DEF Decide, ThreadRequests, Plain
    <3>7. CASE c.type = "sandbox.model.unpin"
      BY <3>7 DEF Decide, ThreadRequests, Plain
    <3> QED
      BY <1>6, <3>1, <3>2, <3>3, <3>4, <3>5, <3>6, <3>7
  <2> QED
    BY <1>0, <2>1 DEF TodoFits, PagesSuffice
<1>7. \/ c.type \in ThreadRequests
      \/ c.type \in {"project.create", "project.meta.update", "project.delete", "thread.create",
                     "thread.delete", "thread.archive", "thread.unarchive", "thread.turn.start",
                     "thread.proposed-plan.upsert", "sandbox.model.pin", "sandbox.model.unpin"}
  BY <1>0 DEF Command
<1> QED
  BY <1>1, <1>2, <1>3, <1>4, <1>5, <1>6, <1>7

-----------------------------------------------------------------------------
(* The invariant *)

\* What is assumed of an instance: the reading of a reconciliation succeeds, no
\* projector is late, an id of a plan is proposed on one thread, no thread has more
\* plans than the memory keeps, and a page holds the events of any one command.
Suited ==
  /\ "reconcileRead" \notin Faults
  /\ LateProjectors = {}
  /\ PlansNameTheirThread
  /\ PlansFit
  /\ PagesSuffice

\* The tables of every store have been told of its whole log.
StoresAgree ==
  /\ installed = Projectors
  /\ Good(db) /\ Good(tx) /\ Good(synced)
  /\ pc # "transaction" => tx = db

\* M[n] is the read model after n entries of the log.
Replays(M, log) ==
  /\ M[0] = EmptyReadModel
  /\ \A n \in 1..Len(log) : M[n] = ProjectEvent(M[n - 1], log[n].event, n)

\* The stores t and d, the model m and the model n being built are all on the
\* path that replays the log of t.
OnPath(M, t, d, m, n) ==
  /\ Replays(M, t.log)
  /\ ReadModelOf(t) = M[Len(t.log)] /\ ReadModelOf(d) = M[Len(d.log)]
  /\ m = M[m.seq] /\ n = M[n.seq]

ModelsReplayTheLog ==
  \E M \in [Nat -> ReadModel] : OnPath(M, tx, db, readModel, job.next)

SyncedReplaysItsLog ==
  \E M \in [Nat -> ReadModel] : OnPath(M, synced, synced, EmptyReadModel, EmptyReadModel)

\* How far the read model is at each step, and the one being built.
ModelsKeepUp ==
  /\ pc = "boot" => target = db.cursor
  /\ pc \in {"idle", "receipt", "transaction", "reply", "record", "fail"} =>
       readModel.seq = Len(db.log)
  /\ pc \in {"publish", "reconcile", "replay"} =>
       readModel.seq <= Len(db.log) /\ Len(db.log) <= readModel.seq + PageLimit
  /\ pc \in {"transaction", "publish", "replay"} =>
       \A i \in 1..Len(job.events) : job.events[i] = readModel.seq + i
  /\ pc \in {"publish", "replay"} => readModel.seq + Len(job.events) = Len(db.log)
  /\ pc \in {"receipt", "reconcile"} => job.next.seq = readModel.seq
  /\ pc = "publish" => job.next.seq = Len(db.log)
  /\ pc = "transaction" =>
       /\ job.next.seq = Len(tx.log)
       /\ Len(job.events) + Len(job.todo) <= PageLimit
       /\ TodoFits(DOMAIN job.next.threads, job.todo)

\* The events published are those the model has had since the start.
PublishedUpToModel ==
  /\ pc \in {"down", "boot"} => published = <<>>
  /\ pc \notin {"down", "boot"} =>
       /\ StartedAt + Len(published) = readModel.seq
       /\ \A i \in 1..Len(published) : published[i] = StartedAt + i

Agreement ==
  StoresAgree /\ ModelsReplayTheLog /\ SyncedReplaysItsLog /\ ModelsKeepUp /\ PublishedUpToModel

-----------------------------------------------------------------------------
(* Paths *)

SameData(d, e) == d.log = e.log /\ d.tables = e.tables /\ d.cursor = e.cursor

LEMMA SameDataSameModel ==
  ASSUME NEW d, NEW e, SameData(d, e)
  PROVE  ReadModelOf(e) = ReadModelOf(d) /\ (Good(d) => Good(e))
BY DEF SameData, ReadModelOf, Good, Level

LEMMA ReceiptKeepsData ==
  ASSUME NEW d \in Database, NEW id, NEW r
  PROVE  SameData(d, [d EXCEPT !.receipts[id] = r])
BY DEF SameData, Database

\* A path stays one when data stay the same and a model on it is taken.
LEMMA PathStays ==
  ASSUME NEW M, NEW t, NEW d, NEW m, NEW n, OnPath(M, t, d, m, n),
         NEW t2, NEW d2, SameData(t, t2), SameData(d, d2),
         NEW m2 \in {m, n, EmptyReadModel}, NEW n2 \in {m, n, EmptyReadModel}
  PROVE  OnPath(M, t2, d2, m2, n2)
<1>1. ReadModelOf(t2) = ReadModelOf(t) /\ ReadModelOf(d2) = ReadModelOf(d)
  BY SameDataSameModel
<1>2. EmptyReadModel = M[EmptyReadModel.seq]
  BY DEF OnPath, Replays, EmptyReadModel
<1> QED
  BY <1>1, <1>2 DEF OnPath, SameData

\* Going back to the store the transaction began from.
LEMMA PathBack ==
  ASSUME NEW M, NEW t, NEW d, NEW m, NEW n, OnPath(M, t, d, m, n),
         Len(d.log) \in Nat, Len(t.log) \in Nat, Len(d.log) <= Len(t.log),
         \A i \in 1..Len(d.log) : t.log[i] = d.log[i]
  PROVE  OnPath(M, d, d, m, n)
BY DEF OnPath, Replays

\* The open transaction extends the committed log.
LEMMA TransactionExtends ==
  ASSUME Consistent, StoresAgree
  PROVE  /\ Len(db.log) \in Nat /\ Len(tx.log) \in Nat /\ Len(db.log) <= Len(tx.log)
         /\ \A i \in 1..Len(db.log) : tx.log[i] = db.log[i]
<1>1. db \in Database /\ tx \in Database /\ job \in Job
  BY DEF Consistent, Typed, TypeOK
<1>2. Len(db.log) \in Nat /\ Len(tx.log) \in Nat /\ Len(job.events) \in Nat
  BY <1>1 DEF Database, Job
<1>3. CASE pc = "transaction"
  <2>1. /\ Len(tx.log) = Len(db.log) + Len(job.events)
        /\ \A i \in 1..Len(db.log) : tx.log[i] = db.log[i]
    BY <1>3 DEF Consistent, CommitsAreWhole, TransactionExtendsLog
  <2>2. \A a, b, c \in Nat : a = b + c => b <= a
    OBVIOUS
  <2>3. Len(db.log) <= Len(tx.log)
    <3>1. Len(tx.log) = Len(db.log) + Len(job.events)
      BY <2>1
    <3> QED
      BY <1>2, <2>2, <3>1, Zenon
  <2> QED
    BY <1>2, <2>1, <2>3
<1>4. CASE pc # "transaction"
  BY <1>2, <1>4 DEF StoresAgree
<1> QED
  BY <1>2, <1>3, <1>4

-----------------------------------------------------------------------------
(* Appending an event *)

\* The tables and the model being built take the event alike.
LEMMA AppendAgrees ==
  ASSUME Suited, Consistent, Agreement, AppendEvent
  PROVE  LET seq == Len(tx.log) + 1
             e == Head(job.todo)
         IN  /\ tx' \in Database /\ Good(tx') /\ Len(tx'.log) = seq
             /\ \A i \in 1..Len(tx.log) : tx'.log[i] = tx.log[i]
             /\ tx'.log[seq].event = e /\ e \in Event
             /\ job'.next = ProjectEvent(job.next, e, seq)
             /\ ReadModelOf(tx') = job'.next
             /\ job'.next \in ReadModel /\ job'.next.seq = seq
             /\ TodoFits(DOMAIN job'.next.threads, job'.todo)
             /\ job'.todo = Tail(job.todo) /\ job'.events = Append(job.events, seq)
<1> DEFINE seq == Len(tx.log) + 1
           e == Head(job.todo)
           id == job.command.id
<1>1. /\ tx \in Database /\ job \in Job /\ job.command \in Commands /\ job.todo \in Seq(Event)
      /\ job.todo # <<>> /\ pc = "transaction" /\ Len(tx.log) \in Nat /\ tx.log \in Seq(Entry)
  BY DEF Consistent, Typed, TypeOK, StepsAreFed, Job, AppendEvent, Database
<1>2. e \in Event /\ id \in Ids
  BY <1>1 DEF Ids
<1>3. job.next = ReadModelOf(tx)
  BY <1>1 DEF Agreement, ModelsReplayTheLog, OnPath, ModelsKeepUp
<1>4. Good(tx) /\ installed = Projectors
  BY DEF Agreement, StoresAgree
<1>5. TodoFits(DOMAIN job.next.threads, job.todo)
  BY <1>1 DEF Agreement, ModelsKeepUp
<1>6. e = job.todo[1] /\ Len(job.todo) >= 1 /\ Len(Tail(job.todo)) = Len(job.todo) - 1
      /\ \A i \in 1..Len(Tail(job.todo)) : Tail(job.todo)[i] = job.todo[i + 1]
  BY <1>1
<1>7. Fitting(DOMAIN ReadModelOf(tx).threads, e)
  BY <1>3, <1>5, <1>6 DEF TodoFits, Plain, Fitting
<1>8. \A known : TodoFits(known, Tail(job.todo))
  BY <1>1, <1>5, <1>6 DEF TodoFits
<1> DEFINE d2 == ProjectAll([tx EXCEPT !.log = Append(@, [id |-> id, event |-> e])], e, seq)
<1>9. /\ d2 \in Database /\ Good(d2)
      /\ d2.log = Append(tx.log, [id |-> id, event |-> e]) /\ Len(d2.log) = seq
      /\ ReadModelOf(d2) = ProjectEvent(ReadModelOf(tx), e, seq)
  BY <1>1, <1>2, <1>4, <1>7, ProjectionsAgree DEF Suited
<1>10. tx' = d2
  BY DEF AppendEvent
<1>11. /\ job'.next = ProjectEvent(job.next, e, seq) /\ job'.todo = Tail(job.todo)
       /\ job'.events = Append(job.events, seq)
  BY <1>1 DEF AppendEvent, Job
<1> HIDE DEF d2
<1>12. [id |-> id, event |-> e] \in Entry /\ [id |-> id, event |-> e].event = e
  BY <1>2 DEF Entry
<1>13. /\ \A i \in 1..Len(tx.log) : d2.log[i] = tx.log[i]
       /\ d2.log[seq] = [id |-> id, event |-> e]
  BY <1>1, <1>9, <1>12
<1>14. job'.next \in ReadModel /\ job'.next.seq = seq
  BY <1>1, <1>2, <1>11, ProjectEventType DEF Job
<1> QED
  BY <1>2, <1>3, <1>8, <1>9, <1>10, <1>11, <1>12, <1>13, <1>14

-----------------------------------------------------------------------------
(* Every step keeps the models on the path *)

\* With every cursor at the end of the log a start has nothing to apply.
LEMMA NoBootstrap ==
  ASSUME Consistent, Agreement, Bootstrap
  PROVE  FALSE
<1>1. pc = "boot" /\ target = db.cursor /\ db \in Database
  BY DEF Bootstrap, Agreement, ModelsKeepUp, Consistent, Typed, TypeOK
<1>2. PICK i \in 1..Len(ProjectorOrder) : db.cursor[ProjectorOrder[i]] < target[ProjectorOrder[i]]
  BY DEF Bootstrap
<1>3. ProjectorOrder[i] \in Projectors
  BY DEF Projectors
<1>4. db.cursor[ProjectorOrder[i]] \in Nat
  BY <1>1, <1>3 DEF Database
<1> QED
  BY <1>1, <1>2, <1>4

\* Steps that leave the stores as they are.
QuietStep ==
  \/ \E c \in Commands : Dispatch(c)
  \/ TakeCommand \/ AnswerFromReceipt \/ Publish \/ ReplyAccepted
  \/ ReceiptReadFails \/ Refuse \/ ReconcileRead \/ ReplayEvent \/ ReplayDone
  \/ RecordRejectionFails \/ ReplyFailed
  \/ Start \/ Ready
  \/ UNCHANGED vars

CommitStep == Commit \/ CommitUnacknowledged

StoppingStep == Crash \/ PowerLoss

LEMMA StepsBySort ==
  ASSUME Suited, Consistent, Agreement, [Next]_vars
  PROVE  \/ QuietStep \/ BeginTransaction \/ AppendEvent \/ CommitStep \/ Rollback
         \/ RecordRejection \/ StoppingStep \/ WalCheckpoint
<1>1. ~ReconcileReadFails
  BY DEF Suited, ReconcileReadFails
<1>2. ~Upgrade
  BY DEF Agreement, StoresAgree, Upgrade
<1>3. ~Bootstrap
  BY NoBootstrap
<1> QED
  BY <1>1, <1>2, <1>3 DEF Next, Worker, Boot, QuietStep, CommitStep, StoppingStep

LEMMA QuietStores ==
  ASSUME QuietStep
  PROVE  \/ UNCHANGED <<db, tx, synced, installed>> /\ pc # "transaction" /\ pc' # "transaction"
         \/ UNCHANGED <<db, tx, synced, installed, pc, job, readModel, published, target, retired>>
<1>1. CASE \E c \in Commands : Dispatch(c)
  BY <1>1 DEF Dispatch, durable
<1>2. CASE UNCHANGED vars
  BY <1>2 DEF vars
<1>3. CASE TakeCommand \/ AnswerFromReceipt \/ Publish \/ ReplyAccepted \/ ReplyFailed
  BY <1>3 DEF TakeCommand, AnswerFromReceipt, Publish, ReplyAccepted, ReplyFailed, durable
<1>4. CASE ReceiptReadFails \/ Refuse
  BY <1>4 DEF ReceiptReadFails, Refuse, FailWith
<1>5. CASE ReconcileRead \/ ReplayEvent \/ ReplayDone \/ RecordRejectionFails
  BY <1>5 DEF ReconcileRead, ReplayEvent, ReplayDone, RecordRejectionFails, AfterReconcile, durable
<1>6. CASE Start \/ Ready
  BY <1>6 DEF Start, Ready, durable
<1> QED
  BY <1>1, <1>2, <1>3, <1>4, <1>5, <1>6 DEF QuietStep

LEMMA StoresStep ==
  ASSUME Suited, Consistent, Agreement, [Next]_vars
  PROVE  StoresAgree'
<1>0. StoresAgree /\ db \in Database /\ tx \in Database
  BY DEF Agreement, Consistent, Typed, TypeOK
<1>1. CASE QuietStep
  BY <1>0, <1>1, QuietStores DEF StoresAgree, Good, Level
<1>2. CASE BeginTransaction
  BY <1>0, <1>2 DEF BeginTransaction, durable, StoresAgree, Good, Level
<1>3. CASE AppendEvent
  <2>1. Good(tx')
    BY <1>3, AppendAgrees
  <2>2. UNCHANGED <<db, synced, installed, pc>> /\ pc = "transaction"
    BY <1>3 DEF AppendEvent, durable
  <2> QED
    BY <1>0, <2>1, <2>2 DEF StoresAgree, Good, Level
<1>4. CASE CommitStep
  <2>1. SameData(tx, WithReceipt)
    BY <1>0, ReceiptKeepsData DEF WithReceipt
  <2>2. db' = WithReceipt /\ tx' = db' /\ UNCHANGED <<synced, installed>>
    BY <1>4 DEF CommitStep, Commit, CommitUnacknowledged, FailWith
  <2>3. Good(WithReceipt)
    BY <1>0, <2>1, SameDataSameModel DEF StoresAgree
  <2> QED
    BY <1>0, <2>2, <2>3 DEF StoresAgree, Good, Level
<1>5. CASE Rollback
  BY <1>0, <1>5 DEF Rollback, FailWith, StoresAgree, Good, Level
<1>6. CASE RecordRejection
  <2> DEFINE r == [status |-> "rejected", seq |-> readModel.seq]
             d == [db EXCEPT !.receipts[job.command.id] = r]
  <2>1. SameData(db, d)
    BY <1>0, ReceiptKeepsData
  <2>2. db' = d /\ tx' = db' /\ UNCHANGED <<synced, installed>>
    BY <1>6 DEF RecordRejection
  <2>3. Good(d)
    BY <1>0, <2>1, SameDataSameModel DEF StoresAgree
  <2> QED
    BY <1>0, <2>2, <2>3 DEF StoresAgree, Good, Level
<1>7. CASE StoppingStep
  BY <1>0, <1>7 DEF StoppingStep, Crash, PowerLoss, Stop, StoresAgree, Good, Level
<1>8. CASE WalCheckpoint
  BY <1>0, <1>8 DEF WalCheckpoint, volatile, StoresAgree, Good, Level
<1> QED
  BY <1>1, <1>2, <1>3, <1>4, <1>5, <1>6, <1>7, <1>8, StepsBySort

\* The snapshot of a store that is told of its whole log has the log's length.
LEMMA StoreModel ==
  ASSUME NEW d \in Database, Good(d)
  PROVE  ReadModelOf(d) \in ReadModel /\ ReadModelOf(d).seq = Len(d.log)
BY LevelSnapshot DEF Good

\* What a quiet step puts into the read model, or builds, is a model on the path.
LEMMA QuietModels ==
  ASSUME Suited, Consistent, Agreement, QuietStep, ~Ready, ~ReplayEvent
  PROVE  /\ readModel' \in {readModel, job.next, EmptyReadModel}
         /\ job'.next \in {readModel, job.next, EmptyReadModel}
<1>0. job \in Job /\ NoJob.next = EmptyReadModel
  BY DEF Consistent, Typed, TypeOK, NoJob
<1>1. CASE \E c \in Commands : Dispatch(c)
  BY <1>1 DEF Dispatch
<1>2. CASE UNCHANGED vars
  BY <1>2 DEF vars
<1>3. CASE TakeCommand
  BY <1>3 DEF TakeCommand, NoJob
<1>4. CASE AnswerFromReceipt \/ ReplyAccepted \/ ReplyFailed
  BY <1>0, <1>4 DEF AnswerFromReceipt, ReplyAccepted, ReplyFailed
<1>5. CASE Publish \/ ReplayDone
  BY <1>5 DEF Publish, ReplayDone
<1>6. CASE ReceiptReadFails \/ Refuse
  BY <1>0, <1>6 DEF ReceiptReadFails, Refuse, FailWith, Job
<1>7. CASE ReconcileRead
  BY <1>0, <1>7 DEF ReconcileRead, Job
<1>8. CASE RecordRejectionFails \/ Start
  BY <1>8 DEF RecordRejectionFails, Start
<1> QED
  BY <1>1, <1>2, <1>3, <1>4, <1>5, <1>6, <1>7, <1>8 DEF QuietStep

\* Without late projectors a start takes the snapshot as it is.
LEMMA ReadyTakesSnapshot ==
  ASSUME Consistent, Agreement, Ready
  PROVE  /\ readModel' = ReadModelOf(db) /\ readModel'.seq = Len(db.log)
         /\ pc' = "idle" /\ UNCHANGED <<db, tx, synced, installed, job, published, target, retired>>
<1>1. db \in Database /\ Good(db) /\ installed = Projectors
  BY DEF Consistent, Typed, TypeOK, Agreement, StoresAgree
<1>2. db.cursor \in [Projectors -> Nat]
  BY <1>1 DEF Database
<1>3. [q \in Projectors |-> IF q \in installed THEN db.cursor[q] ELSE Len(db.log)] = db.cursor
  BY <1>1, <1>2
<1>4. StartSequence = SnapshotSequence(db.cursor)
  BY <1>3 DEF StartSequence
<1>5. ReadModelOf(db).seq = SnapshotSequence(db.cursor)
  BY DEF ReadModelOf, Snapshot
<1>6. ReadModelOf(db) \in ReadModel /\ ReadModelOf(db).seq = Len(db.log)
  BY <1>1, StoreModel
<1>7. [ReadModelOf(db) EXCEPT !.seq = ReadModelOf(db).seq] = ReadModelOf(db)
  BY <1>6 DEF ReadModel
<1>8. readModel' = [ReadModelOf(db) EXCEPT !.seq = StartSequence]
  BY DEF Ready, ReadModelOf
<1> QED
  BY <1>4, <1>5, <1>6, <1>7, <1>8 DEF Ready, durable, history

\* A replayed event is the next one on the path.
LEMMA ReplayFollowsPath ==
  ASSUME Suited, Consistent, Agreement, ReplayEvent,
         NEW M \in [Nat -> ReadModel], OnPath(M, tx, db, readModel, job.next)
  PROVE  /\ job'.next = M[job'.next.seq] /\ job'.next.seq = job.next.seq + 1
         /\ job'.next.seq <= Len(db.log)
<1> DEFINE seq == job.next.seq + 1
<1>1. /\ job \in Job /\ db \in Database /\ pc = "replay" /\ job.next.seq < LastToReplay
      /\ LastToReplay <= Len(db.log) /\ job.events # <<>> /\ tx = db
  BY DEF Consistent, Typed, TypeOK, StepsAreFed, ReplayEvent, Agreement, StoresAgree
<1>2. /\ job.next \in ReadModel /\ job.next.seq \in Nat /\ Len(db.log) \in Nat
      /\ db.log \in Seq(Entry) /\ job.events \in Seq(Nat)
  <2>1. job.next \in ReadModel /\ job.events \in Seq(Nat)
    BY <1>1 DEF Job
  <2>2. job.next.seq \in Nat
    BY <2>1 DEF ReadModel
  <2>3. db.log \in Seq(Entry) /\ Len(db.log) \in Nat
    BY <1>1 DEF Database
  <2> QED
    BY <2>1, <2>2, <2>3
<1>3. LastToReplay \in Nat
  BY <1>1, <1>2 DEF LastToReplay
<1>4. seq \in 1..Len(db.log) /\ seq \in Nat /\ seq - 1 = job.next.seq
  BY <1>1, <1>2, <1>3
<1>5. db.log[seq].event \in Event
  <2>1. db.log[seq] \in Entry
    BY <1>2, <1>4
  <2> QED
    BY <2>1 DEF Entry
<1>6. job'.next = ProjectEvent(job.next, db.log[seq].event, seq)
  BY <1>1 DEF ReplayEvent, Job
<1>7. M[seq] = ProjectEvent(M[seq - 1], tx.log[seq].event, seq) /\ job.next = M[job.next.seq]
  BY <1>1, <1>4 DEF OnPath, Replays
<1>8. ProjectEvent(job.next, db.log[seq].event, seq).seq = seq
  BY <1>2, <1>4, <1>5, ProjectEventType
<1> QED
  BY <1>1, <1>4, <1>6, <1>7, <1>8

\* An appended event takes the path one step further.
LEMMA AppendExtendsPath ==
  ASSUME Suited, Consistent, Agreement, AppendEvent
  PROVE  ModelsReplayTheLog'
<1>1. PICK M \in [Nat -> ReadModel] : OnPath(M, tx, db, readModel, job.next)
  BY DEF Agreement, ModelsReplayTheLog
<1> DEFINE len == Len(tx.log)
           seq == len + 1
           e == Head(job.todo)
           N == [M EXCEPT ![seq] = job'.next]
<1>2. /\ pc = "transaction" /\ readModel \in ReadModel
      /\ UNCHANGED <<db, readModel>>
  BY DEF Consistent, Typed, TypeOK, AppendEvent, durable
<1>3. len \in Nat /\ Len(db.log) \in Nat /\ Len(db.log) <= len
  BY TransactionExtends DEF Agreement
<1>4. readModel.seq = Len(db.log) /\ job.next.seq = len
  BY <1>2 DEF Agreement, ModelsKeepUp
<1>5. /\ Len(tx'.log) = seq /\ \A i \in 1..len : tx'.log[i] = tx.log[i]
      /\ tx'.log[seq].event = e /\ job'.next = ProjectEvent(job.next, e, seq)
      /\ ReadModelOf(tx') = job'.next /\ job'.next \in ReadModel /\ job'.next.seq = seq
  BY AppendAgrees
<1>6. /\ N \in [Nat -> ReadModel] /\ N[seq] = job'.next
      /\ \A n \in 0..len : N[n] = M[n]
  BY <1>3, <1>5
<1> HIDE DEF N, e
<1>7. job.next = M[len] /\ readModel = M[Len(db.log)] /\ ReadModelOf(db) = M[Len(db.log)]
  BY <1>1, <1>4 DEF OnPath
<1>8. ASSUME NEW n \in 1..Len(tx'.log)
      PROVE  N[n] = ProjectEvent(N[n - 1], tx'.log[n].event, n)
  <2>1. CASE n = seq
    <3>1. N[n - 1] = M[len]
      BY <1>3, <1>6, <2>1
    <3> QED
      BY <1>5, <1>6, <1>7, <2>1, <3>1
  <2>2. CASE n # seq
    <3>1. n \in 1..len /\ n \in 0..len /\ n - 1 \in 0..len
      BY <1>3, <1>5, <2>2
    <3>2. M[n] = ProjectEvent(M[n - 1], tx.log[n].event, n)
      BY <1>1, <3>1 DEF OnPath, Replays
    <3> QED
      BY <1>5, <1>6, <3>1, <3>2
  <2> QED
    BY <2>1, <2>2
<1>9. N[0] = EmptyReadModel
  BY <1>1, <1>3, <1>6 DEF OnPath, Replays
<1>10. Len(db.log) \in 0..len
  BY <1>3
<1>11. OnPath(N, tx', db, readModel, job'.next)
  BY <1>4, <1>5, <1>6, <1>7, <1>8, <1>9, <1>10 DEF OnPath, Replays
<1> QED
  BY <1>2, <1>6, <1>11 DEF ModelsReplayTheLog

LEMMA ModelsStep ==
  ASSUME Suited, Consistent, Agreement, [Next]_vars
  PROVE  ModelsReplayTheLog'
<1>0. /\ db \in Database /\ tx \in Database /\ synced \in Database /\ StoresAgree
      /\ job \in Job /\ NoJob.next = EmptyReadModel
  BY DEF Consistent, Typed, TypeOK, Agreement, NoJob
<1>1. PICK M \in [Nat -> ReadModel] : OnPath(M, tx, db, readModel, job.next)
  BY DEF Agreement, ModelsReplayTheLog
<1>2. OnPath(M, db, db, readModel, job.next)
  BY <1>0, <1>1, TransactionExtends, PathBack
<1>3. \A d : SameData(d, d)
  BY DEF SameData
<1>4. CASE QuietStep /\ ~Ready /\ ~ReplayEvent
  <2>1. UNCHANGED <<db, tx>>
    BY <1>4, QuietStores
  <2>2. /\ readModel' \in {readModel, job.next, EmptyReadModel}
        /\ job'.next \in {readModel, job.next, EmptyReadModel}
    BY <1>4, QuietModels
  <2>3. OnPath(M, tx, db, readModel', job'.next)
    BY <1>1, <1>3, <2>2, PathStays
  <2> QED
    BY <2>1, <2>3 DEF ModelsReplayTheLog
<1>5. CASE Ready
  <2>1. /\ readModel' = ReadModelOf(db) /\ readModel'.seq = Len(db.log)
        /\ UNCHANGED <<db, tx, job>>
    BY <1>5, ReadyTakesSnapshot
  <2> QED
    BY <1>1, <2>1 DEF OnPath, ModelsReplayTheLog
<1>6. CASE ReplayEvent
  <2>1. job'.next = M[job'.next.seq]
    BY <1>1, <1>6, ReplayFollowsPath
  <2>2. UNCHANGED <<db, tx, readModel>>
    BY <1>6 DEF ReplayEvent, durable
  <2> QED
    BY <1>1, <2>1, <2>2 DEF OnPath, ModelsReplayTheLog
<1>7. CASE BeginTransaction
  <2>1. tx' = db /\ job'.next = job.next /\ UNCHANGED <<db, readModel>>
    BY <1>0, <1>7 DEF BeginTransaction, durable, Job
  <2> QED
    BY <1>2, <2>1 DEF ModelsReplayTheLog
<1>8. CASE AppendEvent
  BY <1>8, AppendExtendsPath
<1>9. CASE CommitStep
  <2>1. SameData(tx, WithReceipt)
    BY <1>0, ReceiptKeepsData DEF WithReceipt
  <2>2. /\ db' = WithReceipt /\ tx' = db' /\ UNCHANGED readModel
        /\ job'.next \in {readModel, job.next}
    BY <1>0, <1>9 DEF CommitStep, Commit, CommitUnacknowledged, FailWith, Job
  <2>3. OnPath(M, tx, tx, readModel, job.next)
    BY <1>1 DEF OnPath
  <2>4. OnPath(M, WithReceipt, WithReceipt, readModel, job'.next)
    BY <2>1, <2>2, <2>3, PathStays
  <2> QED
    BY <2>2, <2>4 DEF ModelsReplayTheLog
<1>10. CASE Rollback
  <2>1. tx' = db /\ job'.next = readModel /\ UNCHANGED <<db, readModel>>
    BY <1>0, <1>10 DEF Rollback, FailWith, Job
  <2>2. OnPath(M, db, db, readModel, readModel)
    BY <1>2 DEF OnPath
  <2> QED
    BY <2>1, <2>2 DEF ModelsReplayTheLog
<1>11. CASE RecordRejection
  <2> DEFINE r == [status |-> "rejected", seq |-> readModel.seq]
             d == [db EXCEPT !.receipts[job.command.id] = r]
  <2>1. SameData(db, d)
    BY <1>0, ReceiptKeepsData
  <2>2. db' = d /\ tx' = db' /\ UNCHANGED <<readModel, job>>
    BY <1>11 DEF RecordRejection
  <2> HIDE DEF d
  <2>3. OnPath(M, d, d, readModel, job.next)
    BY <1>2, <2>1, PathStays
  <2> QED
    BY <2>2, <2>3 DEF ModelsReplayTheLog
<1>12. CASE StoppingStep
  <2>1. PICK N \in [Nat -> ReadModel] : OnPath(N, synced, synced, EmptyReadModel, EmptyReadModel)
    BY DEF Agreement, SyncedReplaysItsLog
  <2>2. OnPath(M, db, db, EmptyReadModel, EmptyReadModel)
    BY <1>2, <1>3, PathStays
  <2>3. db' \in {db, synced} /\ tx' = db' /\ readModel' = EmptyReadModel /\ job' = NoJob
    BY <1>12 DEF StoppingStep, Crash, PowerLoss, Stop
  <2> QED
    BY <1>0, <2>1, <2>2, <2>3 DEF ModelsReplayTheLog
<1>13. CASE WalCheckpoint
  BY <1>1, <1>13 DEF WalCheckpoint, volatile, ModelsReplayTheLog
<1> QED
  BY <1>4, <1>5, <1>6, <1>7, <1>8, <1>9, <1>10, <1>11, <1>12, <1>13, StepsBySort

LEMMA SyncedStep ==
  ASSUME Suited, Consistent, Agreement, [Next]_vars
  PROVE  SyncedReplaysItsLog'
<1>1. PICK M \in [Nat -> ReadModel] : OnPath(M, tx, db, readModel, job.next)
  BY DEF Agreement, ModelsReplayTheLog
<1>2. PICK N \in [Nat -> ReadModel] : OnPath(N, synced, synced, EmptyReadModel, EmptyReadModel)
  BY DEF Agreement, SyncedReplaysItsLog
<1>3. CASE WalCheckpoint
  <2>1. OnPath(M, db, db, readModel, job.next)
    BY <1>1, TransactionExtends, PathBack DEF Agreement
  <2>2. SameData(db, db)
    BY DEF SameData
  <2>3. OnPath(M, db, db, EmptyReadModel, EmptyReadModel)
    BY <2>1, <2>2, PathStays
  <2> QED
    BY <1>3, <2>3 DEF WalCheckpoint, SyncedReplaysItsLog
<1>4. CASE QuietStep
  BY <1>2, <1>4, QuietStores DEF SyncedReplaysItsLog
<1>5. CASE BeginTransaction \/ AppendEvent
  BY <1>2, <1>5 DEF BeginTransaction, AppendEvent, durable, SyncedReplaysItsLog
<1>6. CASE CommitStep \/ Rollback \/ RecordRejection
  BY <1>2, <1>6 DEF CommitStep, Commit, CommitUnacknowledged, Rollback, FailWith, RecordRejection,
     SyncedReplaysItsLog
<1>7. CASE StoppingStep
  BY <1>2, <1>7 DEF StoppingStep, Crash, PowerLoss, Stop, SyncedReplaysItsLog
<1> QED
  BY <1>3, <1>4, <1>5, <1>6, <1>7, StepsBySort

-----------------------------------------------------------------------------
(* Every step keeps the read model at the end of the log *)

\* The numbers the steps compare.
LEMMA Numbers ==
  ASSUME Consistent
  PROVE  /\ readModel \in ReadModel /\ readModel.seq \in Nat
         /\ Len(db.log) \in Nat /\ Len(tx.log) \in Nat /\ PageLimit \in Nat
         /\ job \in Job /\ job.events \in Seq(Nat) /\ Len(job.events) \in Nat
         /\ job.todo \in Seq(Event) /\ Len(job.todo) \in Nat
         /\ job.next \in ReadModel /\ job.next.seq \in Nat
<1>1. db \in Database /\ tx \in Database /\ job \in Job /\ readModel \in ReadModel
  BY DEF Consistent, Typed, TypeOK
<1>2. Len(db.log) \in Nat /\ Len(tx.log) \in Nat
  BY <1>1 DEF Database
<1>3. job.events \in Seq(Nat) /\ job.todo \in Seq(Event) /\ job.next \in ReadModel
  BY <1>1 DEF Job
<1>4. job.next.seq \in Nat /\ readModel.seq \in Nat
  BY <1>1, <1>3 DEF ReadModel
<1> QED
  BY <1>1, <1>2, <1>3, <1>4, EngineAssumption

LEMMA Lengths ==
  ASSUME Consistent
  PROVE  /\ readModel.seq \in Nat /\ Len(db.log) \in Nat /\ Len(tx.log) \in Nat
         /\ PageLimit \in Nat /\ Len(job.events) \in Nat /\ Len(job.todo) \in Nat
BY Numbers

\* The job of a dispatch that fails builds on the read model.
LEMMA FailsFromModel ==
  ASSUME Consistent, NEW failure, FailWith(failure)
  PROVE  pc' = "reconcile" /\ job'.next = readModel /\ UNCHANGED readModel
BY Numbers DEF FailWith, Job

LEMMA ReconcileKeepsUp ==
  ASSUME Suited, Consistent, Agreement, ReconcileRead
  PROVE  ModelsKeepUp'
<1>1. /\ pc = "reconcile" /\ readModel.seq <= Len(db.log)
      /\ Len(db.log) <= readModel.seq + PageLimit /\ UNCHANGED <<db, tx, readModel>>
  BY DEF ReconcileRead, Agreement, ModelsKeepUp, durable
<1>2. CASE readModel.seq < Len(db.log)
  <2>1. pc' = "replay" /\ job'.events = PageAfter(readModel.seq)
    BY <1>2, Numbers DEF ReconcileRead, Job
  <2> DEFINE n == Len(db.log) - readModel.seq
  <2>2. n \in Nat /\ readModel.seq + n = Len(db.log)
        /\ (IF n < PageLimit THEN n ELSE PageLimit) = n
    BY <1>1, <1>2, Numbers
  <2>3. PageAfter(readModel.seq) = [i \in 1..n |-> readModel.seq + i]
    BY <2>2 DEF PageAfter
  <2> HIDE DEF n
  <2>4. Len(job'.events) = n /\ \A i \in 1..Len(job'.events) : job'.events[i] = readModel.seq + i
    BY <2>1, <2>2, <2>3
  <2> QED
    BY <1>1, <2>1, <2>2, <2>4 DEF ModelsKeepUp
<1>3. CASE ~(readModel.seq < Len(db.log))
  <2>1. readModel.seq = Len(db.log)
    BY <1>1, <1>3, Numbers
  <2>2. pc' \in {"record", "fail"}
    BY <1>3 DEF ReconcileRead, AfterReconcile
  <2> QED
    BY <1>1, <2>1, <2>2 DEF ModelsKeepUp
<1> QED
  BY <1>2, <1>3

LEMMA ReplayedToEnd ==
  ASSUME Suited, Consistent, Agreement, ReplayDone
  PROVE  job.next.seq = Len(db.log)
<1>1. /\ pc = "replay" /\ job.next.seq = job.events[Len(job.events)] /\ job.events # <<>>
  BY DEF ReplayDone, LastToReplay, Consistent, Typed, StepsAreFed
<1>2. /\ \A i \in 1..Len(job.events) : job.events[i] = readModel.seq + i
      /\ readModel.seq + Len(job.events) = Len(db.log)
  BY <1>1 DEF Agreement, ModelsKeepUp
<1>3. Len(job.events) \in 1..Len(job.events)
  BY <1>1, Numbers
<1> QED
  BY <1>1, <1>2, <1>3

LEMMA BeginKeepsUp ==
  ASSUME Suited, Consistent, Agreement, BeginTransaction
  PROVE  ModelsKeepUp'
<1>1. PICK es \in Decide(readModel, job.command) : job' = [job EXCEPT !.todo = es]
  BY DEF BeginTransaction
<1>2. /\ pc = "receipt" /\ pc' = "transaction" /\ tx' = db /\ UNCHANGED <<db, readModel>>
  BY DEF BeginTransaction, durable
<1>3. job.command \in Commands /\ job.events = <<>>
  BY <1>2 DEF Consistent, Typed, StepsAreFed, CommitsAreWhole, TakenIsFresh
<1>4. job'.todo = es /\ job'.events = <<>> /\ job'.next = job.next
  BY <1>1, <1>3, Numbers DEF Job
<1>5. readModel.seq = Len(db.log) /\ job.next.seq = readModel.seq
  BY <1>2 DEF Agreement, ModelsKeepUp
<1>6. job.next = readModel
  BY <1>5 DEF Agreement, ModelsReplayTheLog, OnPath
<1>7. TodoFits(DOMAIN readModel.threads, es) /\ Len(es) <= PageLimit
  BY <1>3, Numbers, DecidedFits DEF Suited
<1>8. es \in Seq(Event)
  BY <1>3, Numbers, DecideType, EngineAssumption
<1>9. Len(job'.events) + Len(job'.todo) <= PageLimit
  BY <1>4, <1>7, <1>8, Numbers
<1> QED
  BY <1>2, <1>4, <1>5, <1>6, <1>7, <1>9 DEF ModelsKeepUp

LEMMA AppendKeepsUp ==
  ASSUME Suited, Consistent, Agreement, AppendEvent
  PROVE  ModelsKeepUp'
<1> DEFINE seq == Len(tx.log) + 1
<1>1. /\ pc = "transaction" /\ pc' = "transaction" /\ UNCHANGED <<db, readModel>>
      /\ job.todo # <<>>
  BY DEF AppendEvent, durable
<1>2. /\ readModel.seq = Len(db.log) /\ Len(job.events) + Len(job.todo) <= PageLimit
      /\ \A i \in 1..Len(job.events) : job.events[i] = readModel.seq + i
  BY <1>1 DEF Agreement, ModelsKeepUp
<1>3. Len(tx.log) = Len(db.log) + Len(job.events)
  BY <1>1 DEF Consistent, CommitsAreWhole, TransactionExtendsLog
<1>4. /\ Len(tx'.log) = seq /\ job'.next.seq = seq
      /\ TodoFits(DOMAIN job'.next.threads, job'.todo)
      /\ job'.todo = Tail(job.todo) /\ job'.events = Append(job.events, seq)
  BY AppendAgrees
<1>5. seq = readModel.seq + (Len(job.events) + 1) /\ seq \in Nat
  <2> DEFINE r == readModel.seq
             t == Len(tx.log)
             d == Len(db.log)
             n == Len(job.events)
  <2>1. r \in Nat /\ t \in Nat /\ d \in Nat /\ n \in Nat /\ t = d + n /\ r = d
    BY <1>2, <1>3, Lengths
  <2>2. seq = t + 1
    OBVIOUS
  <2> HIDE DEF r, t, d, n, seq
  <2>3. seq = r + (n + 1) /\ seq \in Nat
    BY <2>1, <2>2
  <2> QED
    BY <2>3 DEF r, n
<1> HIDE DEF seq
<1>6. Len(job'.events) = Len(job.events) + 1 /\ Len(job'.todo) = Len(job.todo) - 1
  BY <1>1, <1>4, <1>5, Numbers
<1>7. \A i \in 1..Len(job'.events) : job'.events[i] = readModel.seq + i
  <2>1. /\ job'.events[Len(job.events) + 1] = seq
        /\ \A i \in 1..Len(job.events) : job'.events[i] = job.events[i]
    BY <1>4, <1>5, Numbers
  <2> SUFFICES ASSUME NEW i \in 1..Len(job'.events) PROVE job'.events[i] = readModel.seq + i
    OBVIOUS
  <2>2. i \in 1..Len(job.events) \/ i = Len(job.events) + 1
    BY <1>6, Lengths
  <2>3. CASE i \in 1..Len(job.events)
    BY <1>2, <2>1, <2>3
  <2>4. CASE i = Len(job.events) + 1
    BY <1>5, <2>1, <2>4
  <2> QED
    BY <2>2, <2>3, <2>4
<1>8. Len(job'.events) + Len(job'.todo) <= PageLimit
  <2>1. \A n, k, p \in Nat : n + k <= p => (n + 1) + (k - 1) <= p
    OBVIOUS
  <2> QED
    BY <1>2, <1>6, <2>1, Lengths, Zenon
<1> QED
  BY <1>1, <1>2, <1>4, <1>7, <1>8 DEF ModelsKeepUp

LEMMA CommitKeepsUp ==
  ASSUME Suited, Consistent, Agreement, CommitStep
  PROVE  ModelsKeepUp'
<1>1. /\ pc = "transaction" /\ job.todo = <<>> /\ db' = WithReceipt /\ tx \in Database
      /\ UNCHANGED readModel
  BY DEF CommitStep, Commit, CommitUnacknowledged, FailWith, Consistent, Typed, TypeOK
<1>2. Len(db'.log) = Len(tx.log)
  BY <1>1, ReceiptKeepsData DEF WithReceipt, SameData
<1>3. Len(tx.log) = Len(db.log) + Len(job.events)
  BY <1>1 DEF Consistent, CommitsAreWhole, TransactionExtendsLog
<1>4. /\ readModel.seq = Len(db.log) /\ job.next.seq = Len(tx.log)
      /\ Len(job.events) + Len(job.todo) <= PageLimit
      /\ \A i \in 1..Len(job.events) : job.events[i] = readModel.seq + i
  BY <1>1 DEF Agreement, ModelsKeepUp
<1>5. /\ readModel.seq + Len(job.events) = Len(db'.log) /\ readModel.seq <= Len(db'.log)
      /\ Len(db'.log) <= readModel.seq + PageLimit
  <2>1. Len(job.todo) = 0
    BY <1>1
  <2>2. Len(job.events) <= PageLimit
    BY <1>4, <2>1, Numbers
  <2> DEFINE r == readModel.seq
             t == Len(db'.log)
             d == Len(db.log)
             n == Len(job.events)
  <2>3. r \in Nat /\ t \in Nat /\ d \in Nat /\ n \in Nat /\ t = d + n /\ r = d /\ n <= PageLimit
    BY <1>2, <1>3, <1>4, <2>2, Lengths
  <2> HIDE DEF r, t, d, n
  <2>4. r + n = t /\ r <= t /\ t <= r + PageLimit
    BY <2>3, Lengths
  <2> QED
    BY <2>4 DEF r, t, n
<1>6. CASE Commit
  <2>1. pc' = "publish" /\ UNCHANGED job
    BY <1>6 DEF Commit
  <2> QED
    BY <1>1, <1>2, <1>4, <1>5, <2>1 DEF ModelsKeepUp
<1>7. CASE CommitUnacknowledged
  <2>1. pc' = "reconcile" /\ job'.next = readModel
    BY <1>7, FailsFromModel DEF CommitUnacknowledged
  <2> QED
    BY <1>1, <1>5, <2>1 DEF ModelsKeepUp
<1> QED
  BY <1>6, <1>7 DEF CommitStep

LEMMA KeepUpStep ==
  ASSUME Suited, Consistent, Agreement, [Next]_vars
  PROVE  ModelsKeepUp'
<1>0. ModelsKeepUp
  BY DEF Agreement
<1>1. CASE QuietStep
  <2>1. CASE (\E c \in Commands : Dispatch(c)) \/ UNCHANGED vars
    <3>1. UNCHANGED <<db, tx, pc, job, readModel, target>>
      BY <2>1 DEF Dispatch, durable, vars
    <3> QED
      BY <1>0, <3>1 DEF ModelsKeepUp
  <2>2. CASE TakeCommand
    <3>1. pc = "idle" /\ pc' = "receipt" /\ job'.next = readModel /\ UNCHANGED <<db, readModel>>
      BY <2>2 DEF TakeCommand, NoJob, durable
    <3> QED
      BY <1>0, <3>1 DEF ModelsKeepUp
  <2>3. CASE AnswerFromReceipt \/ ReplyAccepted \/ ReplyFailed
    <3>1. pc \in {"receipt", "reply", "fail"} /\ pc' = "idle" /\ UNCHANGED <<db, readModel>>
      BY <2>3 DEF AnswerFromReceipt, ReplyAccepted, ReplyFailed, durable
    <3> QED
      BY <1>0, <3>1 DEF ModelsKeepUp
  <2>4. CASE Publish
    <3>1. pc = "publish" /\ pc' = "reply" /\ readModel' = job.next /\ UNCHANGED db
      BY <2>4 DEF Publish, durable
    <3> QED
      BY <1>0, <3>1 DEF ModelsKeepUp
  <2>5. CASE ReceiptReadFails \/ Refuse
    <3>1. pc = "receipt" /\ UNCHANGED db /\ \E failure : FailWith(failure)
      BY <2>5 DEF ReceiptReadFails, Refuse
    <3>2. pc' = "reconcile" /\ job'.next = readModel /\ UNCHANGED readModel
      BY <3>1, FailsFromModel
    <3>3. readModel.seq <= Len(db.log) /\ Len(db.log) <= readModel.seq + PageLimit
      BY <1>0, <3>1, Lengths DEF ModelsKeepUp
    <3> QED
      BY <3>1, <3>2, <3>3 DEF ModelsKeepUp
  <2>6. CASE ReconcileRead
    BY <2>6, ReconcileKeepsUp
  <2>7. CASE ReplayEvent
    <3>1. pc = "replay" /\ pc' = "replay" /\ job'.events = job.events /\ UNCHANGED <<db, readModel>>
      BY <2>7, Numbers DEF ReplayEvent, durable, Job
    <3> QED
      BY <1>0, <3>1 DEF ModelsKeepUp
  <2>8. CASE ReplayDone
    <3>1. pc' \in {"record", "fail"} /\ readModel' = job.next /\ UNCHANGED db
      BY <2>8 DEF ReplayDone, AfterReconcile, durable
    <3> QED
      BY <2>8, <3>1, ReplayedToEnd DEF ModelsKeepUp
  <2>9. CASE RecordRejectionFails
    <3>1. pc = "record" /\ pc' = "fail" /\ UNCHANGED <<db, readModel>>
      BY <2>9 DEF RecordRejectionFails, durable
    <3> QED
      BY <1>0, <3>1 DEF ModelsKeepUp
  <2>10. CASE Start
    <3>1. /\ pc' = "boot" /\ UNCHANGED db /\ db \in Database /\ installed = Projectors
          /\ \A q \in Projectors : db.cursor[q] = Len(db.log)
      BY <2>10 DEF Start, durable, Agreement, StoresAgree, Good, Level, Consistent, Typed, TypeOK
    <3>2. PageAfter(Len(db.log)) = <<>>
      BY Lengths, EngineAssumption DEF PageAfter
    <3>3. \A q \in Projectors : db.cursor[q] + Len(PageAfter(db.cursor[q])) = db.cursor[q]
      BY <3>1, <3>2, Lengths
    <3>4. target' = [q \in Projectors |-> db.cursor[q]]
      BY <2>10, <3>1, <3>3 DEF Start
    <3>5. target' = db.cursor
      BY <3>1, <3>4 DEF Database
    <3> QED
      BY <3>1, <3>5 DEF ModelsKeepUp
  <2>11. CASE Ready
    BY <2>11, ReadyTakesSnapshot DEF ModelsKeepUp
  <2> QED
    BY <1>1, <2>1, <2>2, <2>3, <2>4, <2>5, <2>6, <2>7, <2>8, <2>9, <2>10, <2>11 DEF QuietStep
<1>2. CASE BeginTransaction
  BY <1>2, BeginKeepsUp
<1>3. CASE AppendEvent
  BY <1>3, AppendKeepsUp
<1>4. CASE CommitStep
  BY <1>4, CommitKeepsUp
<1>5. CASE Rollback
  <2>1. pc = "transaction" /\ UNCHANGED db /\ \E failure : FailWith(failure)
    BY <1>5 DEF Rollback
  <2>2. pc' = "reconcile" /\ job'.next = readModel /\ UNCHANGED readModel
    BY <2>1, FailsFromModel
  <2>3. readModel.seq <= Len(db.log) /\ Len(db.log) <= readModel.seq + PageLimit
    BY <1>0, <2>1, Lengths DEF ModelsKeepUp
  <2> QED
    BY <2>1, <2>2, <2>3 DEF ModelsKeepUp
<1>6. CASE RecordRejection
  <2> DEFINE r == [status |-> "rejected", seq |-> readModel.seq]
             d == [db EXCEPT !.receipts[job.command.id] = r]
  <2>1. SameData(db, d)
    BY ReceiptKeepsData DEF Consistent, Typed, TypeOK
  <2>2. db' = d /\ pc = "record" /\ pc' = "fail" /\ UNCHANGED readModel
    BY <1>6 DEF RecordRejection
  <2> HIDE DEF d
  <2> QED
    BY <1>0, <2>1, <2>2 DEF ModelsKeepUp, SameData
<1>7. CASE StoppingStep
  BY <1>7 DEF StoppingStep, Crash, PowerLoss, Stop, ModelsKeepUp
<1>8. CASE WalCheckpoint
  <2>1. UNCHANGED <<db, tx, pc, job, readModel, target>>
    BY <1>8 DEF WalCheckpoint, volatile
  <2> QED
    BY <1>0, <2>1 DEF ModelsKeepUp
<1> QED
  BY <1>1, <1>2, <1>3, <1>4, <1>5, <1>6, <1>7, <1>8, StepsBySort

-----------------------------------------------------------------------------
(* What is published *)

\* The sequences behind `first` up to `last`.
Running(run, first, last) ==
  /\ first + Len(run) = last
  /\ \A i \in 1..Len(run) : run[i] = first + i

LEMMA RunContinues ==
  ASSUME NEW run \in Seq(Nat), NEW first \in Nat, NEW last \in Nat, Running(run, first, last),
         NEW more \in Seq(Nat), \A i \in 1..Len(more) : more[i] = last + i
  PROVE  Running(run \o more, first, last + Len(more))
<1> DEFINE a == Len(run)
           b == Len(more)
           both == run \o more
<1>1. a \in Nat /\ b \in Nat /\ first + a = last /\ \A i \in 1..a : run[i] = first + i
  BY DEF Running
<1>2. /\ Len(both) = a + b
      /\ \A i \in 1..a : both[i] = run[i]
      /\ \A i \in a + 1..a + b : both[i] = more[i - a]
  OBVIOUS
<1> HIDE DEF a, both
<1>3. ASSUME NEW i \in 1..a + b
      PROVE  both[i] = first + i
  <2>1. CASE i \in 1..a
    BY <1>1, <1>2, <2>1
  <2>2. CASE i \in a + 1..a + b
    <3>1. i - a \in 1..b
      BY <1>1, <2>2
    <3>2. both[i] = last + (i - a)
      BY <1>2, <2>2, <3>1
    <3> QED
      BY <1>1, <3>1, <3>2
  <2> QED
    BY <1>1, <2>1, <2>2
<1>4. first + (a + b) = last + b
  <2>1. \A x, y, z \in Nat : x + (y + z) = (x + y) + z
    OBVIOUS
  <2> HIDE DEF b
  <2> QED
    BY <1>1, <2>1, Zenon
<1>5. Running(both, first, last + b)
  BY <1>2, <1>3, <1>4 DEF Running
<1> QED
  BY <1>5 DEF both

LEMMA StartedAtType ==
  ASSUME Consistent
  PROVE  StartedAt \in Nat
BY SnapshotSequenceIsLeast DEF StartedAt, Consistent, Typed, TypeOK

\* A start is ready at the end of the log.
LEMMA ReadyAtEnd ==
  ASSUME Consistent, Agreement, Ready
  PROVE  StartedAt = Len(db.log)
<1>1. target = db.cursor /\ target \in [Projectors -> Nat] /\ Level(db)
  BY DEF Ready, Consistent, Typed, TypeOK, Agreement, StoresAgree, Good
<1> QED
  BY <1>1, SnapshotSequenceIsLeast DEF StartedAt, Level

LEMMA PublishedStep ==
  ASSUME Suited, Consistent, Agreement, [Next]_vars
  PROVE  PublishedUpToModel'
<1>0. /\ published \in Seq(Nat)
      /\ pc \in {"down", "boot"} => published = <<>>
      /\ pc \notin {"down", "boot"} => Running(published, StartedAt, readModel.seq)
      /\ StartedAt \in Nat
  BY StartedAtType DEF Agreement, PublishedUpToModel, Running, Consistent, Typed, TypeOK
<1>1. SUFFICES /\ pc' \in {"down", "boot"} => published' = <<>>
               /\ pc' \notin {"down", "boot"} => Running(published', StartedAt', readModel'.seq)
  BY DEF PublishedUpToModel, Running
<1>2. CASE Publish \/ ReplayDone
  <2>1. /\ pc \in {"publish", "replay"} /\ pc' \in {"reply", "record", "fail"}
        /\ published' = published \o job.events /\ readModel' = job.next
    BY <1>2 DEF Publish, ReplayDone, AfterReconcile
  <2>2. job.next.seq = Len(db.log)
    BY <1>2, ReplayedToEnd DEF Publish, Agreement, ModelsKeepUp
  <2>3. /\ \A i \in 1..Len(job.events) : job.events[i] = readModel.seq + i
        /\ readModel.seq + Len(job.events) = Len(db.log)
    BY <2>1 DEF Agreement, ModelsKeepUp
  <2>4. Running(published', StartedAt, readModel.seq + Len(job.events))
    BY <1>0, <2>1, <2>3, Numbers, RunContinues
  <2>5. StartedAt' = StartedAt
    BY <1>2 DEF Publish, ReplayDone, StartedAt
  <2> QED
    BY <2>1, <2>2, <2>3, <2>4, <2>5
<1>3. CASE Ready
  <2>1. /\ published' = <<>> /\ pc' = "idle" /\ readModel'.seq = Len(db.log)
        /\ StartedAt' = Len(db.log) /\ Len(db.log) \in Nat
    BY <1>0, <1>3, ReadyTakesSnapshot, ReadyAtEnd, Lengths DEF Ready, StartedAt
  <2> QED
    BY <2>1 DEF Running
<1>4. CASE StoppingStep
  BY <1>4 DEF StoppingStep, Crash, PowerLoss, Stop
<1>5. CASE Start
  BY <1>0, <1>5 DEF Start
<1>6. CASE \/ (\E c \in Commands : Dispatch(c)) \/ UNCHANGED vars \/ WalCheckpoint
           \/ TakeCommand \/ AnswerFromReceipt \/ ReplyAccepted \/ ReplyFailed
           \/ ReconcileRead \/ ReplayEvent \/ RecordRejectionFails
           \/ BeginTransaction \/ AppendEvent \/ RecordRejection
  <2>1. /\ UNCHANGED <<readModel, published, target>>
        /\ pc' = pc \/ (pc \notin {"down", "boot"} /\ pc' \notin {"down", "boot"})
    BY <1>6 DEF Dispatch, vars, WalCheckpoint, volatile, TakeCommand, AnswerFromReceipt,
       ReplyAccepted, ReplyFailed, ReconcileRead, AfterReconcile, ReplayEvent,
       RecordRejectionFails, BeginTransaction, AppendEvent, RecordRejection
  <2>2. StartedAt' = StartedAt
    BY <2>1 DEF StartedAt
  <2> QED
    BY <1>0, <2>1, <2>2
<1>7. CASE ReceiptReadFails \/ Refuse \/ CommitStep \/ Rollback
  <2>1. UNCHANGED <<readModel, published, target>> /\ pc' \in {"publish", "reconcile"}
        /\ pc \in {"receipt", "transaction"}
    BY <1>7 DEF ReceiptReadFails, Refuse, CommitStep, Commit, CommitUnacknowledged, Rollback, FailWith
  <2>2. StartedAt' = StartedAt
    BY <2>1 DEF StartedAt
  <2> QED
    BY <1>0, <2>1, <2>2
<1> QED
  BY <1>2, <1>3, <1>4, <1>5, <1>6, <1>7, StepsBySort DEF QuietStep

-----------------------------------------------------------------------------
(* The theorems *)

\* Before the first start there is no log, and the tables are empty.
LEMMA AgreementInit == Suited /\ Init => Agreement
<1> SUFFICES ASSUME Suited, Init PROVE Agreement
  OBVIOUS
<1>1. /\ EmptyDatabase.log = <<>> /\ Len(EmptyDatabase.log) = 0
      /\ EmptyDatabase.tables = EmptyTables
      /\ \A q \in Projectors : EmptyDatabase.cursor[q] = 0
      /\ EmptyDatabase \in Database /\ EmptyReadModel \in ReadModel
  BY EmptyTypes DEF EmptyDatabase
<1>2. Good(EmptyDatabase)
  BY <1>1 DEF Good, Level, PlansOwned, EmptyTables
<1>3. StoresAgree
  BY <1>2 DEF Init, StoresAgree, Suited
<1>4. ReadModelOf(EmptyDatabase) = EmptyReadModel
  <2> DEFINE m == ReadModelOf(EmptyDatabase)
  <2>1. /\ m \in ReadModel /\ m.seq = 0 /\ m.projects = EmptyTables.projects
        /\ m.threads = Entries(EmptyTables) /\ m.pins = EmptyTables.pins
    BY <1>1, <1>2, LevelSnapshot DEF Good
  <2> HIDE DEF m
  <2>2. Entries(EmptyTables) = <<>>
    BY DEF Entries, EmptyTables
  <2> QED
    BY <1>1, <2>1, <2>2, ModelByFields DEF EmptyReadModel, EmptyTables, m
<1> DEFINE M == [n \in Nat |-> EmptyReadModel]
<1>5. OnPath(M, EmptyDatabase, EmptyDatabase, EmptyReadModel, EmptyReadModel)
  BY <1>1, <1>4 DEF OnPath, Replays, EmptyReadModel
<1>6. M \in [Nat -> ReadModel]
  BY <1>1
<1> HIDE DEF M
<1>7. ModelsReplayTheLog /\ SyncedReplaysItsLog
  BY <1>5, <1>6 DEF Init, NoJob, ModelsReplayTheLog, SyncedReplaysItsLog
<1>8. ModelsKeepUp /\ PublishedUpToModel
  BY DEF Init, ModelsKeepUp, PublishedUpToModel
<1> QED
  BY <1>3, <1>7, <1>8 DEF Agreement

LEMMA AgreementStep == Suited /\ Consistent /\ Agreement /\ [Next]_vars => Agreement'
BY StoresStep, ModelsStep, SyncedStep, KeepUpStep, PublishedStep DEF Agreement

LEMMA AlwaysAgreement ==
  ASSUME Suited
  PROVE  Spec => []Agreement
<1>1. Init => Agreement
  BY AgreementInit
<1>2. Consistent /\ Agreement /\ [Next]_vars => Agreement'
  BY AgreementStep
<1> QED
  BY <1>1, <1>2, AlwaysConsistent, PTL DEF Spec

\* Whatever commands are sent, retried and refused, whichever transactions fail or
\* are committed without an answer and wherever the process stops, the next command
\* is decided against a read model that holds the whole log and is the one a
\* restart would build, as long as the memory keeps all plans of a thread.
THEOREM ReadModelStaysCurrent ==
  ASSUME Suited
  PROVE  Spec => []ReadModelIsCurrent
<1>1. Agreement => ReadModelIsCurrent
  <2> SUFFICES ASSUME Agreement, pc \in {"idle", "receipt"}
               PROVE  readModel = ReadModelOf(db) /\ readModel.seq = Len(db.log)
    BY DEF ReadModelIsCurrent, ReadModelOf
  <2> QED
    BY DEF Agreement, ModelsKeepUp, ModelsReplayTheLog, OnPath
<1> QED
  BY <1>1, AlwaysAgreement, PTL

\* Between two commands subscribers have been given exactly the events stored since
\* the start, the ones of a dispatch that reported a failure included, in the order
\* of the log, from the first one on and without a gap.
THEOREM EventsArePublishedInOrder ==
  ASSUME Suited
  PROVE  Spec => []PublishedInOrder
<1>1. Consistent /\ Agreement => PublishedInOrder
  <2> SUFFICES ASSUME Consistent, Agreement, pc = "idle"
               PROVE  published = [i \in 1..(Len(db.log) - StartedAt) |-> StartedAt + i]
    BY DEF PublishedInOrder
  <2>1. /\ readModel.seq = Len(db.log) /\ StartedAt + Len(published) = readModel.seq
        /\ \A i \in 1..Len(published) : published[i] = StartedAt + i
    BY DEF Agreement, ModelsKeepUp, PublishedUpToModel
  <2>2. published \in Seq(Nat) /\ StartedAt \in Nat /\ Len(db.log) \in Nat
    BY StartedAtType, Lengths DEF Consistent, Typed, TypeOK
  <2>3. Len(published) = Len(db.log) - StartedAt
    BY <2>1, <2>2
  <2>4. published = [i \in 1..Len(published) |-> published[i]]
    BY <2>2
  <2> QED
    BY <2>1, <2>3, <2>4
<1> QED
  BY <1>1, AlwaysConsistent, AlwaysAgreement, PTL

-----------------------------------------------------------------------------
(* Across starts *)

\* What was published before the last start lies before what is published now.
Published == IF pc \in {"down", "boot"} THEN Len(db.log) ELSE StartedAt

RetiredIsOlder == \A seq \in retired : seq <= Published

LEMMA RetiredStep ==
  ASSUME Suited, "powerLoss" \notin Faults, Consistent, Agreement, RetiredIsOlder, [Next]_vars
  PROVE  RetiredIsOlder'
<1>0. /\ retired \subseteq Nat /\ published \in Seq(Nat) /\ Len(published) \in Nat
      /\ readModel.seq \in Nat /\ Len(db.log) \in Nat /\ StartedAt \in Nat
  BY Lengths, StartedAtType DEF Consistent, Typed, TypeOK
<1>1. CASE Crash
  <2>1. retired' = retired \cup Values(published) /\ pc' = "down" /\ db' = db
    BY <1>1 DEF Crash, Stop
  <2>2. SUFFICES \A seq \in retired \cup Values(published) : seq <= Len(db.log)
    BY <2>1 DEF RetiredIsOlder, Published
  <2>3. CASE pc = "boot"
    <3>1. published = <<>>
      BY <2>3 DEF Agreement, PublishedUpToModel
    <3>2. Values(published) = {}
      BY <3>1 DEF Values
    <3> QED
      BY <2>3, <3>2 DEF RetiredIsOlder, Published
  <2>4. CASE pc # "boot"
    <3>1. pc \notin {"down", "boot"}
      BY <1>1, <2>4 DEF Crash
    <3>2. /\ StartedAt + Len(published) = readModel.seq
          /\ \A i \in 1..Len(published) : published[i] = StartedAt + i
      BY <3>1 DEF Agreement, PublishedUpToModel
    <3>3. readModel.seq <= Len(db.log)
      <4>1. \/ pc \in {"idle", "receipt", "transaction", "reply", "record", "fail"}
            \/ pc \in {"publish", "reconcile", "replay"}
        BY <3>1 DEF Consistent, Typed, TypeOK, Steps
      <4>2. readModel.seq = Len(db.log) \/ readModel.seq <= Len(db.log)
        BY <4>1 DEF Agreement, ModelsKeepUp
      <4> QED
        BY <1>0, <4>2
    <3>4. \A seq \in retired : seq <= StartedAt
      BY <3>1 DEF RetiredIsOlder, Published
    <3>5. ASSUME NEW seq \in retired PROVE seq <= Len(db.log)
      BY <1>0, <3>2, <3>3, <3>4, <3>5
    <3>6. ASSUME NEW i \in 1..Len(published) PROVE published[i] <= Len(db.log)
      BY <1>0, <3>2, <3>3, <3>6
    <3> QED
      BY <3>5, <3>6 DEF Values
  <2> QED
    BY <2>3, <2>4
<1>2. CASE Publish \/ ReplayDone
  <2>1. /\ pc \in {"publish", "replay"} /\ pc' \in {"reply", "record", "fail"}
        /\ UNCHANGED <<target, retired>>
    BY <1>2 DEF Publish, ReplayDone, AfterReconcile, history
  <2>2. StartedAt' = StartedAt
    BY <2>1 DEF StartedAt
  <2> QED
    BY <2>1, <2>2 DEF RetiredIsOlder, Published
<1>3. CASE Ready
  <2>1. /\ pc' = "idle" /\ pc = "boot" /\ UNCHANGED <<target, retired>>
    BY <1>3, ReadyTakesSnapshot DEF Ready
  <2>2. StartedAt' = Len(db.log)
    BY <1>3, <2>1, ReadyAtEnd DEF StartedAt
  <2> QED
    BY <2>1, <2>2 DEF RetiredIsOlder, Published
<1>4. CASE Start
  BY <1>4 DEF Start, durable, history, RetiredIsOlder, Published
<1>5. CASE (\E c \in Commands : Dispatch(c)) \/ UNCHANGED vars
  BY <1>5 DEF Dispatch, vars, durable, RetiredIsOlder, Published, StartedAt
<1>6. CASE TakeCommand \/ AnswerFromReceipt \/ ReplyAccepted
           \/ ReplyFailed \/ ReconcileRead \/ ReplayEvent \/ RecordRejectionFails
           \/ BeginTransaction \/ AppendEvent \/ RecordRejection
  <2>1. UNCHANGED <<target, retired>> /\ pc \notin {"down", "boot"}
        /\ pc' \notin {"down", "boot"}
    BY <1>6 DEF TakeCommand, AnswerFromReceipt, ReplyAccepted, ReplyFailed, ReconcileRead,
       AfterReconcile, ReplayEvent, RecordRejectionFails, BeginTransaction, AppendEvent,
       RecordRejection, history
  <2>2. StartedAt' = StartedAt
    BY <2>1 DEF StartedAt
  <2> QED
    BY <2>1, <2>2 DEF RetiredIsOlder, Published
<1>7. CASE ReceiptReadFails \/ Refuse \/ CommitStep \/ Rollback
  <2>1. UNCHANGED <<target, retired>> /\ pc' \in {"publish", "reconcile"}
        /\ pc \in {"receipt", "transaction"}
    BY <1>7 DEF ReceiptReadFails, Refuse, CommitStep, Commit, CommitUnacknowledged, Rollback,
       FailWith, history
  <2>2. StartedAt' = StartedAt
    BY <2>1 DEF StartedAt
  <2> QED
    BY <2>1, <2>2 DEF RetiredIsOlder, Published
<1>8. ~PowerLoss /\ ~WalCheckpoint
  BY DEF PowerLoss, WalCheckpoint
<1> QED
  BY <1>1, <1>2, <1>3, <1>4, <1>5, <1>6, <1>7, <1>8, StepsBySort DEF QuietStep, StoppingStep

\* While the process stops but the machine does not lose power, no event a
\* subscriber was given is given to the subscribers of a later start.
THEOREM EventsArePublishedOnce ==
  ASSUME Suited, "powerLoss" \notin Faults
  PROVE  Spec => []PublishedOnce
<1>1. Init => RetiredIsOlder
  BY DEF Init, RetiredIsOlder
<1>2. Consistent /\ Agreement /\ RetiredIsOlder /\ [Next]_vars => RetiredIsOlder'
  BY RetiredStep
<1>3. Consistent /\ Agreement /\ RetiredIsOlder => PublishedOnce
  <2> SUFFICES ASSUME Consistent, Agreement, RetiredIsOlder,
                      NEW i \in 1..Len(published), published[i] \in retired
               PROVE  FALSE
    BY DEF PublishedOnce, Values
  <2>1. published \in Seq(Nat) /\ Len(published) \in Nat /\ StartedAt \in Nat
    BY StartedAtType DEF Consistent, Typed, TypeOK
  <2>2. pc \notin {"down", "boot"}
    BY <2>1 DEF Agreement, PublishedUpToModel
  <2>3. published[i] = StartedAt + i /\ published[i] <= StartedAt
    BY <2>2 DEF Agreement, PublishedUpToModel, RetiredIsOlder, Published
  <2> QED
    BY <2>1, <2>3
<1> QED
  BY <1>1, <1>2, <1>3, AlwaysAgreement, AlwaysConsistent, PTL DEF Spec

-----------------------------------------------------------------------------
(* What the log records of the tables *)

\* What the decider ensures of an event before it is appended to a log with these
\* tables: ids and active roots are new, a deletion is of a thread there is, and a
\* project is deleted after its threads.
Lawful(tb, e) ==
  /\ e.type = "project.created" =>
       /\ e.project \notin DOMAIN tb.projects
       /\ \A p \in DOMAIN tb.projects : tb.projects[p].deleted \/ tb.projects[p].root # e.root
  /\ e.type = "thread.created" => e.thread \notin DOMAIN tb.threads
  /\ e.type = "thread.deleted" => e.thread \in DOMAIN tb.threads
  /\ e.type = "project.deleted" =>
       \A t \in DOMAIN tb.threads :
         tb.threads[t].project = e.project => tb.threads[t].deleted

\* Deletions of all active threads of a project, and of the project at last.
Empties(tb, es) ==
  \E p \in Projects :
    /\ es # <<>> /\ es[Len(es)] = [type |-> "project.deleted", project |-> p]
    /\ \A i \in 1..Len(es) - 1 : es[i].type = "thread.deleted" /\ es[i].thread \in DOMAIN tb.threads
    /\ \A t \in DOMAIN tb.threads :
         tb.threads[t].project = p /\ ~tb.threads[t].deleted =>
           \E i \in 1..Len(es) - 1 : es[i].thread = t

\* The events of one command, each of which is lawful when its turn comes.
LawfulRun(tb, es) ==
  \/ \A i \in 1..Len(es) : es[i].type \in NeutralEvents
  \/ Len(es) = 1 /\ Lawful(tb, es[1])
  \/ Empties(tb, es)

\* What the log tells of is in the tables, and a thread or a deletion in the tables
\* is told of.
Told(log, tb) ==
  /\ \A i \in 1..Len(log) :
       LET e == log[i].event IN
       /\ e.type = "project.created" => e.project \in DOMAIN tb.projects
       /\ e.type = "thread.created" => e.thread \in DOMAIN tb.threads
       /\ e.type = "thread.deleted" => /\ e.thread \in DOMAIN tb.threads
                                       /\ tb.threads[e.thread].deleted
  /\ \A p \in DOMAIN tb.projects :
       tb.projects[p].deleted =>
         \E i \in 1..Len(log) : log[i].event = [type |-> "project.deleted", project |-> p]
  /\ \A t \in DOMAIN tb.threads :
       \E i \in 1..Len(log) : log[i].event.type = "thread.created" /\ log[i].event.thread = t

\* The three properties, of any log and tables.
Once(log) ==
  \A i, j \in 1..Len(log) :
    LET e == log[i].event
        f == log[j].event
    IN  i < j => /\ ~(e.type = "project.created" /\ f.type = e.type /\ f.project = e.project)
                 /\ ~(e.type = "thread.created" /\ f.type = e.type /\ f.thread = e.thread)

\* One of the projects was given this root, and neither was created after it.
Moved(log, p, q, root) ==
  \E i \in 1..Len(log) :
    /\ \E moved \in {p, q} :
         log[i].event = [type |-> "project.meta-updated", project |-> moved, root |-> root]
    /\ \A j \in 1..Len(log) :
         j > i /\ log[j].event.type = "project.created" => log[j].event.project \notin {p, q}

Rooted(log, tb) ==
  \A p, q \in DOMAIN tb.projects :
    /\ p # q /\ tb.projects[p].root = tb.projects[q].root
    /\ ~tb.projects[p].deleted /\ ~tb.projects[q].deleted
    => Moved(log, p, q, tb.projects[p].root)

CreatedLater(log, t, p) ==
  \E i, j \in 1..Len(log) :
    /\ i < j
    /\ log[i].event = [type |-> "project.deleted", project |-> p]
    /\ log[j].event = [type |-> "thread.created", thread |-> t, project |-> p]

Emptied(log, tb) ==
  \A t \in DOMAIN tb.threads :
    LET p == tb.threads[t].project IN
    ~tb.threads[t].deleted /\ p \in DOMAIN tb.projects /\ tb.projects[p].deleted =>
      CreatedLater(log, t, p)

Chronicle(d) ==
  Told(d.log, d.tables) /\ Once(d.log) /\ Rooted(d.log, d.tables) /\ Emptied(d.log, d.tables)

Chronicles ==
  /\ Chronicle(db) /\ Chronicle(tx) /\ Chronicle(synced)
  /\ pc = "transaction" => LawfulRun(tx.tables, job.todo)

\* What an event does to the rows of projects and of threads.
LEMMA ProjectRowsChange ==
  ASSUME NEW tb \in Tables, NEW e \in Event
  PROVE  LET f == tb.projects
             f2 == NewProjects(f, e)
         IN  /\ DOMAIN f \subseteq DOMAIN f2
             /\ e.type = "project.created" => e.project \in DOMAIN f2
             /\ \A p \in DOMAIN f2 :
                  \/ p \in DOMAIN f /\ f2[p] = f[p]
                  \/ /\ e.type = "project.created" /\ p = e.project
                     /\ f2[p].root = e.root /\ ~f2[p].deleted
                  \/ /\ e.type = "project.meta-updated" /\ p = e.project
                     /\ p \in DOMAIN f /\ f2[p].deleted = f[p].deleted
                     /\ \/ f2[p].root = f[p].root
                        \/ e = [type |-> "project.meta-updated", project |-> p, root |-> f2[p].root]
                  \/ /\ e.type = "project.deleted" /\ p = e.project
                     /\ p \in DOMAIN f /\ f2[p].deleted /\ f2[p].root = f[p].root
<1> DEFINE f == tb.projects
           f2 == NewProjects(f, e)
<1>1. \A p \in DOMAIN f : f[p] \in ProjectRow
  BY RowType DEF Tables
<1>2. CASE e.type = "project.created"
  <2>1. f2 = Put(f, e.project, [root |-> e.root, deleted |-> FALSE])
    BY <1>2 DEF NewProjects
  <2> QED
    BY <1>2, <2>1 DEF Put
<1>3. CASE e.type = "project.meta-updated" /\ e.project \in DOMAIN f
  <2> DEFINE row == [f[e.project] EXCEPT !.root = IF e.root = None THEN @ ELSE e.root]
  <2>1. f2 = Put(f, e.project, row)
    BY <1>3 DEF NewProjects
  <2>2. /\ row.deleted = f[e.project].deleted
        /\ row.root = f[e.project].root \/ row.root = e.root
    BY <1>1, <1>3 DEF ProjectRow
  <2>3. e = [type |-> "project.meta-updated", project |-> e.project, root |-> e.root]
    BY <1>3 DEF Event, NeutralEvents, RequestEvent
  <2> HIDE DEF row
  <2>4. f2[e.project] = row /\ DOMAIN f2 = DOMAIN f
        /\ \A p \in DOMAIN f2 : p # e.project => f2[p] = f[p]
    BY <1>3, <2>1 DEF Put
  <2>5. \/ f2[e.project].root = f[e.project].root
        \/ e = [type |-> "project.meta-updated", project |-> e.project, root |-> f2[e.project].root]
    BY <2>2, <2>3, <2>4
  <2> QED
    BY <1>3, <2>2, <2>4, <2>5
<1>4. CASE e.type = "project.deleted" /\ e.project \in DOMAIN f
  <2> DEFINE row == [f[e.project] EXCEPT !.deleted = TRUE]
  <2>1. f2 = Put(f, e.project, row)
    BY <1>4 DEF NewProjects
  <2>2. row.deleted /\ row.root = f[e.project].root
    BY <1>1, <1>4 DEF ProjectRow
  <2> HIDE DEF row
  <2> QED
    BY <1>4, <2>1, <2>2 DEF Put
<1>5. CASE /\ e.type # "project.created"
           /\ e.type \notin {"project.meta-updated", "project.deleted"} \/ e.project \notin DOMAIN f
  <2>1. f2 = f
    BY <1>5 DEF NewProjects
  <2> QED
    BY <1>5, <2>1
<1> QED
  BY <1>2, <1>3, <1>4, <1>5

LEMMA ThreadRowsChange ==
  ASSUME NEW tb \in Tables, NEW e \in Event
  PROVE  LET g == tb.threads
             g2 == NewThreads(g, e)
         IN  /\ DOMAIN g \subseteq DOMAIN g2
             /\ e.type # "thread.created" => DOMAIN g2 = DOMAIN g
             /\ e.type = "thread.created" => e.thread \in DOMAIN g2
             /\ e.type = "thread.deleted" /\ e.thread \in DOMAIN g => g2[e.thread].deleted
             /\ \A t \in DOMAIN g2 :
                  \/ /\ t \in DOMAIN g /\ g2[t].project = g[t].project
                     /\ g[t].deleted => g2[t].deleted
                  \/ e.type = "thread.created" /\ t = e.thread /\ g2[t].project = e.project
<1> DEFINE g == tb.threads
           g2 == NewThreads(g, e)
<1>1. \A t \in DOMAIN g : g[t] \in ThreadRow
  BY RowType DEF Tables
<1>2. CASE e.type = "thread.created"
  <2>1. g2 = Put(g, e.thread, [project |-> e.project, archived |-> FALSE, deleted |-> FALSE])
    BY <1>2 DEF NewThreads
  <2> QED
    BY <1>2, <2>1 DEF Put
<1>3. CASE e.type \in {"thread.archived", "thread.unarchived"} /\ e.thread \in DOMAIN g
  <2>1. PICK b \in BOOLEAN : g2 = Put(g, e.thread, [g[e.thread] EXCEPT !.archived = b])
    BY <1>3 DEF NewThreads
  <2> DEFINE row == [g[e.thread] EXCEPT !.archived = b]
  <2>2. row.deleted = g[e.thread].deleted /\ row.project = g[e.thread].project
    BY <1>1, <1>3 DEF ThreadRow
  <2> HIDE DEF row
  <2>3. g2 = Put(g, e.thread, row)
    BY <2>1 DEF row
  <2> QED
    BY <1>3, <2>2, <2>3 DEF Put
<1>4. CASE e.type = "thread.deleted" /\ e.thread \in DOMAIN g
  <2> DEFINE row == [g[e.thread] EXCEPT !.deleted = TRUE]
  <2>1. g2 = Put(g, e.thread, row)
    BY <1>4 DEF NewThreads
  <2>2. row.deleted /\ row.project = g[e.thread].project
    BY <1>1, <1>4 DEF ThreadRow
  <2> HIDE DEF row
  <2> QED
    BY <1>4, <2>1, <2>2 DEF Put
<1>5. CASE /\ e.type # "thread.created"
           /\ \/ e.type \notin {"thread.archived", "thread.unarchived", "thread.deleted"}
              \/ e.thread \notin DOMAIN g
  <2>1. g2 = g
    BY <1>5 DEF NewThreads
  <2> QED
    BY <1>5, <2>1
<1> QED
  BY <1>2, <1>3, <1>4, <1>5

\* A log with one more entry.
Extends(log2, log, e) ==
  /\ Len(log) \in Nat /\ Len(log2) = Len(log) + 1
  /\ \A i \in 1..Len(log) : log2[i].event = log[i].event
  /\ log2[Len(log) + 1].event = e

LEMMA ToldStays ==
  ASSUME NEW tb \in Tables, NEW e \in Event, NEW log, NEW log2, Extends(log2, log, e),
         Lawful(tb, e), Told(log, tb)
  PROVE  Told(log2, Projected(tb, e))
<1> DEFINE n == Len(log)
           f == tb.projects
           f2 == NewProjects(f, e)
           g == tb.threads
           g2 == NewThreads(g, e)
<1>0. Projected(tb, e).projects = f2 /\ Projected(tb, e).threads = g2
  BY ProjectedTables
<1>1. /\ n \in Nat /\ Len(log2) = n + 1 /\ log2[n + 1].event = e
      /\ \A i \in 1..n : log2[i].event = log[i].event
  BY DEF Extends
<1>2. ASSUME NEW i \in 1..Len(log2)
      PROVE  LET x == log2[i].event IN
             /\ x.type = "project.created" => x.project \in DOMAIN f2
             /\ x.type = "thread.created" => x.thread \in DOMAIN g2
             /\ x.type = "thread.deleted" => x.thread \in DOMAIN g2 /\ g2[x.thread].deleted
  <2> DEFINE x == log2[i].event
  <2>1. CASE i \in 1..n
    <3>1. x = log[i].event
      BY <1>1, <2>1
    <3>2. /\ x.type = "project.created" => x.project \in DOMAIN f
          /\ x.type = "thread.created" => x.thread \in DOMAIN g
          /\ x.type = "thread.deleted" => x.thread \in DOMAIN g /\ g[x.thread].deleted
      BY <2>1, <3>1 DEF Told
    <3>3. DOMAIN f \subseteq DOMAIN f2
      BY ProjectRowsChange
    <3>4. /\ DOMAIN g \subseteq DOMAIN g2
          /\ \A t \in DOMAIN g2 :
                  \/ t \in DOMAIN g /\ (g[t].deleted => g2[t].deleted)
                  \/ e.type = "thread.created" /\ t = e.thread
      BY ThreadRowsChange
    <3>5. e.type = "thread.created" => e.thread \notin DOMAIN g
      BY DEF Lawful
    <3> HIDE DEF f, f2, g, g2, x
    <3> QED
      BY <3>2, <3>3, <3>4, <3>5 DEF x
  <2>2. CASE i = n + 1
    <3>1. x = e
      BY <1>1, <2>2
    <3>2. e.type = "project.created" => e.project \in DOMAIN f2
      BY ProjectRowsChange
    <3>3. /\ DOMAIN g \subseteq DOMAIN g2
          /\ e.type = "thread.created" => e.thread \in DOMAIN g2
          /\ e.type = "thread.deleted" /\ e.thread \in DOMAIN g => g2[e.thread].deleted
      BY ThreadRowsChange
    <3>4. e.type = "thread.deleted" => e.thread \in DOMAIN g
      BY DEF Lawful
    <3> HIDE DEF f, f2, g, g2, x
    <3> QED
      BY <3>1, <3>2, <3>3, <3>4 DEF x
  <2>3. i \in 1..n \/ i = n + 1
    BY <1>1
  <2> QED
    BY <2>1, <2>2, <2>3
<1>3. ASSUME NEW p \in DOMAIN f2, f2[p].deleted
      PROVE  \E i \in 1..Len(log2) : log2[i].event = [type |-> "project.deleted", project |-> p]
  <2>1. CASE p \in DOMAIN f /\ f[p].deleted
    <3>1. PICK i \in 1..n : log[i].event = [type |-> "project.deleted", project |-> p]
      BY <2>1 DEF Told
    <3>2. i \in 1..Len(log2) /\ log2[i].event = log[i].event
      BY <1>1
    <3> QED
      BY <3>1, <3>2
  <2>2. CASE e.type = "project.deleted" /\ p = e.project
    <3>1. e = [type |-> "project.deleted", project |-> p]
      BY <2>2 DEF Event, NeutralEvents, RequestEvent
    <3>2. n + 1 \in 1..Len(log2)
      BY <1>1
    <3> QED
      BY <1>1, <3>1, <3>2
  <2>3. \/ p \in DOMAIN f /\ f[p].deleted
        \/ e.type = "project.deleted" /\ p = e.project
    BY <1>3, ProjectRowsChange
  <2> QED
    BY <2>1, <2>2, <2>3
<1>4. ASSUME NEW t \in DOMAIN g2
      PROVE  \E i \in 1..Len(log2) : /\ log2[i].event.type = "thread.created"
                                    /\ log2[i].event.thread = t
  <2>1. CASE t \in DOMAIN g
    <3>1. PICK i \in 1..n : log[i].event.type = "thread.created" /\ log[i].event.thread = t
      BY <2>1 DEF Told
    <3>2. i \in 1..Len(log2) /\ log2[i].event = log[i].event
      BY <1>1
    <3> QED
      BY <3>1, <3>2
  <2>2. CASE e.type = "thread.created" /\ t = e.thread
    <3>1. n + 1 \in 1..Len(log2)
      BY <1>1
    <3> QED
      BY <1>1, <2>2, <3>1
  <2> QED
    BY <1>4, <2>1, <2>2, ThreadRowsChange
<1> QED
  BY <1>0, <1>2, <1>3, <1>4 DEF Told

LEMMA OnceStays ==
  ASSUME NEW tb, NEW e, NEW log, NEW log2, Extends(log2, log, e),
         Lawful(tb, e), Told(log, tb), Once(log)
  PROVE  Once(log2)
<1> DEFINE n == Len(log)
<1>1. /\ n \in Nat /\ Len(log2) = n + 1 /\ log2[n + 1].event = e
      /\ \A i \in 1..n : log2[i].event = log[i].event
  BY DEF Extends
<1>2. ASSUME NEW i \in 1..Len(log2), NEW j \in 1..Len(log2), i < j
      PROVE  LET x == log2[i].event
                 y == log2[j].event
             IN  /\ ~(x.type = "project.created" /\ y.type = x.type /\ y.project = x.project)
                 /\ ~(x.type = "thread.created" /\ y.type = x.type /\ y.thread = x.thread)
  <2>1. CASE j \in 1..n
    <3>1. i \in 1..n
      BY <1>1, <1>2, <2>1
    <3> QED
      BY <1>1, <1>2, <2>1, <3>1 DEF Once
  <2>2. CASE j = n + 1
    <3>1. i \in 1..n /\ log2[j].event = e /\ log2[i].event = log[i].event
      BY <1>1, <1>2, <2>2
    <3> QED
      BY <3>1 DEF Told, Lawful
  <2>3. j \in 1..n \/ j = n + 1
    BY <1>1
  <2> QED
    BY <2>1, <2>2, <2>3
<1> QED
  BY <1>2 DEF Once

LEMMA RootedStays ==
  ASSUME NEW tb \in Tables, NEW e \in Event, NEW log, NEW log2, Extends(log2, log, e),
         Lawful(tb, e), Rooted(log, tb)
  PROVE  Rooted(log2, Projected(tb, e))
<1> DEFINE n == Len(log)
           f == tb.projects
           f2 == NewProjects(f, e)
<1>0. Projected(tb, e).projects = f2
  BY ProjectedTables
<1>1. /\ n \in Nat /\ Len(log2) = n + 1 /\ log2[n + 1].event = e
      /\ \A i \in 1..n : log2[i].event = log[i].event
  BY DEF Extends
<1>2. ASSUME NEW p, NEW q, NEW root, Moved(log, p, q, root),
             e.type = "project.created" => e.project \notin {p, q}
      PROVE  Moved(log2, p, q, root)
  <2>1. PICK i \in 1..n :
          /\ \E moved \in {p, q} :
               log[i].event = [type |-> "project.meta-updated", project |-> moved, root |-> root]
          /\ \A j \in 1..n :
               j > i /\ log[j].event.type = "project.created" => log[j].event.project \notin {p, q}
    BY <1>2 DEF Moved
  <2>2. i \in 1..Len(log2) /\ log2[i].event = log[i].event
    BY <1>1
  <2>3. ASSUME NEW j \in 1..Len(log2), j > i, log2[j].event.type = "project.created"
        PROVE  log2[j].event.project \notin {p, q}
    <3>1. CASE j \in 1..n
      BY <1>1, <2>1, <2>3, <3>1
    <3>2. CASE j = n + 1
      BY <1>1, <1>2, <2>3, <3>2
    <3>3. j \in 1..n \/ j = n + 1
      BY <1>1
    <3> QED
      BY <3>1, <3>2, <3>3
  <2> QED
    BY <2>1, <2>2, <2>3 DEF Moved
<1>3. ASSUME NEW p, NEW q, NEW root,
             \E moved \in {p, q} :
               e = [type |-> "project.meta-updated", project |-> moved, root |-> root]
      PROVE  Moved(log2, p, q, root)
  <2>1. n + 1 \in 1..Len(log2) /\ \A j \in 1..Len(log2) : ~(j > n + 1)
    BY <1>1
  <2> QED
    BY <1>1, <1>3, <2>1 DEF Moved
<1>4. /\ e.type = "project.created" =>
           e.project \notin DOMAIN f /\ \A p \in DOMAIN f : f[p].deleted \/ f[p].root # e.root
      /\ \A p, q \in DOMAIN f :
           /\ p # q /\ f[p].root = f[q].root /\ ~f[p].deleted /\ ~f[q].deleted
           => Moved(log, p, q, f[p].root)
  BY DEF Lawful, Rooted
<1>5. \A p \in DOMAIN f2 :
        \/ p \in DOMAIN f /\ f2[p] = f[p]
        \/ e.type = "project.created" /\ p = e.project /\ f2[p].root = e.root
        \/ /\ e.type = "project.meta-updated" /\ p \in DOMAIN f /\ f2[p].deleted = f[p].deleted
           /\ \/ f2[p].root = f[p].root
              \/ e = [type |-> "project.meta-updated", project |-> p, root |-> f2[p].root]
        \/ f2[p].deleted
  BY ProjectRowsChange
<1> HIDE DEF f, f2
<1>6. ASSUME NEW p \in DOMAIN f2, NEW q \in DOMAIN f2, p # q, f2[p].root = f2[q].root,
             ~f2[p].deleted, ~f2[q].deleted
      PROVE  Moved(log2, p, q, f2[p].root)
  <2>1. CASE e.type = "project.created"
    <3>1. p \in DOMAIN f /\ f2[p] = f[p] /\ q \in DOMAIN f /\ f2[q] = f[q]
      BY <1>4, <1>5, <1>6, <2>1
    <3>2. Moved(log, p, q, f2[p].root) /\ e.project \notin {p, q}
      BY <1>4, <1>6, <2>1, <3>1
    <3> QED
      BY <1>2, <3>2
  <2>2. CASE e.type # "project.created"
    <3>1. /\ p \in DOMAIN f /\ q \in DOMAIN f /\ ~f[p].deleted /\ ~f[q].deleted
          /\ \/ f2[p].root = f[p].root
             \/ e = [type |-> "project.meta-updated", project |-> p, root |-> f2[p].root]
          /\ \/ f2[q].root = f[q].root
             \/ e = [type |-> "project.meta-updated", project |-> q, root |-> f2[q].root]
      BY <1>5, <1>6, <2>2
    <3>2. CASE f2[p].root = f[p].root /\ f2[q].root = f[q].root
      <4>1. Moved(log, p, q, f2[p].root)
        BY <1>4, <1>6, <3>1, <3>2
      <4> QED
        BY <1>2, <2>2, <4>1
    <3>3. CASE f2[p].root # f[p].root \/ f2[q].root # f[q].root
      <4>1. \E moved \in {p, q} :
              e = [type |-> "project.meta-updated", project |-> moved, root |-> f2[p].root]
        BY <1>6, <3>1, <3>3
      <4> QED
        BY <1>3, <4>1
    <3> QED
      BY <3>2, <3>3
  <2> QED
    BY <2>1, <2>2
<1> QED
  BY <1>0, <1>6 DEF Rooted

LEMMA EmptiedStays ==
  ASSUME NEW tb \in Tables, NEW e \in Event, NEW log, NEW log2, Extends(log2, log, e),
         Lawful(tb, e), Told(log, tb), Emptied(log, tb)
  PROVE  Emptied(log2, Projected(tb, e))
<1> DEFINE n == Len(log)
           f == tb.projects
           f2 == NewProjects(f, e)
           g == tb.threads
           g2 == NewThreads(g, e)
<1>0. Projected(tb, e).projects = f2 /\ Projected(tb, e).threads = g2
  BY ProjectedTables
<1>1. /\ n \in Nat /\ Len(log2) = n + 1 /\ log2[n + 1].event = e
      /\ \A i \in 1..n : log2[i].event = log[i].event /\ i \in 1..n + 1
      /\ n + 1 \in 1..n + 1 /\ \A i \in 1..n : i < n + 1
  BY DEF Extends
<1>2. ASSUME NEW t \in DOMAIN g2, ~g2[t].deleted, NEW p, p = g2[t].project, p \in DOMAIN f2,
             f2[p].deleted
      PROVE  CreatedLater(log2, t, p)
  <2>1. \/ p \in DOMAIN f /\ f[p].deleted
        \/ e.type = "project.deleted" /\ p = e.project
    BY <1>2, ProjectRowsChange
  <2>2. \/ t \in DOMAIN g /\ p = g[t].project /\ ~g[t].deleted
        \/ e.type = "thread.created" /\ t = e.thread /\ p = e.project
    BY <1>2, ThreadRowsChange
  <2>3. CASE t \in DOMAIN g /\ p = g[t].project /\ ~g[t].deleted
    <3>1. p \in DOMAIN f /\ f[p].deleted
      BY <2>1, <2>3 DEF Lawful
    <3>2. CreatedLater(log, t, p)
      BY <2>3, <3>1 DEF Emptied
    <3> QED
      BY <1>1, <3>2 DEF CreatedLater
  <2>4. CASE e.type = "thread.created" /\ t = e.thread /\ p = e.project
    <3>1. p \in DOMAIN f /\ f[p].deleted
      BY <2>1, <2>4
    <3>2. PICK i \in 1..n : log[i].event = [type |-> "project.deleted", project |-> p]
      BY <3>1 DEF Told
    <3>3. e = [type |-> "thread.created", thread |-> t, project |-> p]
      BY <2>4 DEF Event, NeutralEvents, RequestEvent
    <3> QED
      BY <1>1, <3>2, <3>3 DEF CreatedLater
  <2> QED
    BY <2>2, <2>3, <2>4
<1> QED
  BY <1>0, <1>2 DEF Emptied

\* An event on a thread with no fact of the tables is lawful.
LEMMA NeutralIsLawful ==
  ASSUME NEW tb, NEW e, e.type \in NeutralEvents
  PROVE  Lawful(tb, e)
<1>1. e.type \notin {"project.created", "thread.created", "thread.deleted", "project.deleted"}
  BY DEF NeutralEvents, RequestEvent
<1> QED
  BY <1>1 DEF Lawful

\* The first event of a lawful run is lawful, and the others are after it.
LEMMA LawfulRunStep ==
  ASSUME NEW tb \in Tables, NEW es \in Seq(Event), es # <<>>, LawfulRun(tb, es)
  PROVE  Lawful(tb, Head(es)) /\ LawfulRun(Projected(tb, Head(es)), Tail(es))
<1> DEFINE e == Head(es)
           rest == Tail(es)
           tb2 == Projected(tb, e)
<1>1. /\ e = es[1] /\ Len(es) \in Nat /\ Len(es) >= 1 /\ Len(rest) = Len(es) - 1
      /\ \A i \in 1..Len(rest) : rest[i] = es[i + 1] /\ i + 1 \in 1..Len(es)
      /\ e \in Event
  OBVIOUS
<1>2. CASE \A i \in 1..Len(es) : es[i].type \in NeutralEvents
  <2>1. e.type \in NeutralEvents /\ \A i \in 1..Len(rest) : rest[i].type \in NeutralEvents
    BY <1>1, <1>2
  <2> QED
    BY <2>1, NeutralIsLawful DEF LawfulRun
<1>3. CASE Len(es) = 1 /\ Lawful(tb, es[1])
  <2>1. \A i \in 1..Len(rest) : FALSE
    BY <1>1, <1>3
  <2> QED
    BY <1>1, <1>3, <2>1 DEF LawfulRun
<1>4. CASE Empties(tb, es)
  <2>1. PICK p \in Projects :
          /\ es[Len(es)] = [type |-> "project.deleted", project |-> p]
          /\ \A i \in 1..Len(es) - 1 : /\ es[i].type = "thread.deleted"
                                       /\ es[i].thread \in DOMAIN tb.threads
          /\ \A t \in DOMAIN tb.threads :
               tb.threads[t].project = p /\ ~tb.threads[t].deleted =>
                 \E i \in 1..Len(es) - 1 : es[i].thread = t
    BY <1>4 DEF Empties
  <2>2. CASE Len(es) = 1
    <3>1. e = [type |-> "project.deleted", project |-> p] /\ \A i \in 1..Len(es) - 1 : FALSE
      BY <1>1, <2>1, <2>2
    <3>2. Lawful(tb, e)
      BY <2>1, <3>1 DEF Lawful
    <3>3. \A i \in 1..Len(rest) : FALSE
      BY <1>1, <2>2
    <3> QED
      BY <3>2, <3>3 DEF LawfulRun
  <2>3. CASE Len(es) # 1
    <3>1. 1 \in 1..Len(es) - 1
      BY <1>1, <2>3
    <3>2. e.type = "thread.deleted" /\ e.thread \in DOMAIN tb.threads
      BY <1>1, <2>1, <3>1
    <3>3. Lawful(tb, e)
      BY <3>2 DEF Lawful
    <3>4. rest # <<>> /\ rest[Len(rest)] = es[Len(es)]
      <4>1. Len(rest) \in 1..Len(rest) /\ Len(rest) + 1 = Len(es) /\ Len(rest) # 0
        BY <1>1, <2>3
      <4>2. rest # <<>>
        <5>1. \A s : s = <<>> => Len(s) = 0
          OBVIOUS
        <5> QED
          BY <4>1, <5>1, Zenon
      <4> HIDE DEF rest
      <4>3. rest[Len(rest)] = es[Len(rest) + 1]
        BY <1>1, <4>1
      <4> QED
        BY <4>1, <4>2, <4>3
    <3>5. /\ DOMAIN tb2.threads = DOMAIN tb.threads /\ tb2.threads[e.thread].deleted
          /\ \A t \in DOMAIN tb.threads : /\ tb2.threads[t].project = tb.threads[t].project
                                          /\ tb.threads[t].deleted => tb2.threads[t].deleted
      <4>1. tb2.threads = NewThreads(tb.threads, e)
        BY <1>1, ProjectedTables
      <4> QED
        BY <1>1, <3>2, <4>1, ThreadRowsChange
    <3> HIDE DEF tb2
    <3>6. \A i \in 1..Len(rest) - 1 : rest[i] = es[i + 1] /\ i + 1 \in 1..Len(es) - 1
      BY <1>1
    <3>7. ASSUME NEW t \in DOMAIN tb2.threads, tb2.threads[t].project = p, ~tb2.threads[t].deleted
          PROVE  \E i \in 1..Len(rest) - 1 : rest[i].thread = t
      <4>1. PICK i \in 1..Len(es) - 1 : es[i].thread = t
        BY <2>1, <3>5, <3>7
      <4>2. i # 1
        BY <1>1, <3>5, <3>7, <4>1
      <4>3. i - 1 \in 1..Len(rest) - 1 /\ i - 1 + 1 = i
        BY <1>1, <4>2
      <4> QED
        BY <3>6, <4>1, <4>3
    <3>8. \A i \in 1..Len(rest) - 1 : rest[i].type = "thread.deleted" /\ rest[i].thread \in DOMAIN tb2.threads
      BY <2>1, <3>5, <3>6
    <3>9. Empties(tb2, rest)
      BY <2>1, <3>4, <3>7, <3>8 DEF Empties
    <3> QED
      BY <3>3, <3>9 DEF LawfulRun, tb2
  <2> QED
    BY <2>2, <2>3
<1> QED
  BY <1>2, <1>3, <1>4 DEF LawfulRun

\* The decider answers with lawful runs, if its read model is that of the tables.
LEMMA DecidedIsLawful ==
  ASSUME NEW m \in ReadModel, NEW tb \in Tables, m.projects = tb.projects,
         m.threads = Entries(tb), NEW c \in Commands, NEW es \in Decide(m, c)
  PROVE  LawfulRun(tb, es)
<1>0. c \in Command(Ids) /\ IsFiniteSet(Threads)
  BY EngineAssumption, ModelAssumption
<1>00. /\ DOMAIN m.threads = DOMAIN tb.threads
       /\ \A t \in DOMAIN tb.threads : /\ m.threads[t].project = tb.threads[t].project
                                       /\ m.threads[t].deleted = tb.threads[t].deleted
  BY DEF Entries
<1>1. CASE c.type = "project.delete"
  <2> DEFINE active == ActiveThreads(m, c.project)
  <2> DEFINE deleted(ts) == [i \in 1..Len(ts) |-> [type |-> "thread.deleted", thread |-> ts[i]]]
  <2> DEFINE last == [type |-> "project.deleted", project |-> c.project]
  <2>0. c.project \in Projects
    BY <1>0, <1>1 DEF Command, ThreadRequests
  <2>1. PICK ts \in SetToSeqs(active) : es = deleted(ts) \o <<last>>
    BY <1>1 DEF Decide, ThreadRequests, ProjectDeletions
  <2>2. active \subseteq Threads
    BY RowType DEF ActiveThreads, ReadModel
  <2>3. Cardinality(active) \in Nat
    BY <1>0, <2>2, FS_Subset, FS_CardinalityType
  <2>4. /\ ts \in [1..Cardinality(active) -> active]
        /\ \A i, j \in 1..Cardinality(active) : i # j => ts[i] # ts[j]
    BY DEF SetToSeqs, IsInjective
  <2>5. Len(ts) = Cardinality(active) /\ Len(ts) \in Nat
    BY <2>3, <2>4
  <2>6. \A t \in active : \E i \in 1..Len(ts) : ts[i] = t
    <3> DEFINE n == Cardinality(active)
    <3>1. ts \in Injection(1..n, active)
      BY <2>4 DEF Injection, IsInjective
    <3>2. IsFiniteSet(active) /\ n \in Nat
      BY <1>0, <2>2, <2>3, FS_Subset
    <3> HIDE DEF active, n
    <3>5. Cardinality(1..n) = n
      BY <3>2, FS_Interval
    <3>3. ts \in Surjection(1..n, active)
      BY <3>1, <3>2, <3>5, FS_Injection DEF n
    <3>4. \A t \in active : \E i \in 1..n : ts[i] = t
      BY <3>3 DEF Surjection
    <3> QED
      BY <2>5, <3>4 DEF n
  <2> HIDE DEF active
  <2> DEFINE S == [type : {"thread.deleted"}, thread : active]
  <2>7. /\ deleted(ts) \in Seq(S) /\ Len(deleted(ts)) = Len(ts)
        /\ \A i \in 1..Len(ts) : deleted(ts)[i].type = "thread.deleted" /\ deleted(ts)[i].thread = ts[i]
    <3>1. \A i \in 1..Len(ts) : ts[i] \in active
      BY <2>4, <2>5
    <3>2. \A i \in 1..Len(ts) : [type |-> "thread.deleted", thread |-> ts[i]] \in S
      BY <3>1
    <3> HIDE DEF S
    <3>3. deleted(ts) \in [1..Len(ts) -> S]
      BY <3>2
    <3> QED
      BY <2>5, <3>3
  <2> HIDE DEF last, deleted
  <2>8. /\ Len(es) = Len(ts) + 1 /\ es[Len(es)] = last /\ es # <<>>
        /\ \A i \in 1..Len(ts) : es[i] = deleted(ts)[i]
    BY <2>1, <2>5, <2>7
  <2>9. Len(es) - 1 = Len(ts)
    BY <2>5, <2>8
  <2>10. \A i \in 1..Len(es) - 1 : es[i].type = "thread.deleted" /\ es[i].thread = ts[i]
    BY <2>7, <2>8, <2>9
  <2>11. \A t \in active : t \in DOMAIN tb.threads
    BY <1>00 DEF active, ActiveThreads
  <2>12. \A t \in DOMAIN tb.threads :
           tb.threads[t].project = c.project /\ ~tb.threads[t].deleted => t \in active
    BY <1>00 DEF active, ActiveThreads
  <2>13. Empties(tb, es)
    <3>1. \A i \in 1..Len(es) - 1 : es[i].thread \in DOMAIN tb.threads
      BY <2>4, <2>5, <2>9, <2>10, <2>11
    <3>2. \A t \in active : \E i \in 1..Len(es) - 1 : es[i].thread = t
      BY <2>6, <2>9, <2>10
    <3> QED
      BY <2>0, <2>8, <2>10, <2>12, <3>1, <3>2 DEF Empties, last
  <2> QED
    BY <2>13 DEF LawfulRun
<1>2. CASE c.type = "thread.create"
  <2>1. /\ es = <<[type |-> "thread.created", thread |-> c.thread, project |-> c.project]>>
        /\ c.thread \notin DOMAIN m.threads
    BY <1>2 DEF Decide, ThreadRequests, ThreadAbsent
  <2> QED
    BY <1>00, <2>1 DEF LawfulRun, Lawful
<1>3. CASE c.type = "project.create"
  <2>1. /\ es = <<[type |-> "project.created", project |-> c.project, root |-> c.root]>>
        /\ ProjectAbsent(m, c.project) /\ WorkspaceRootAbsent(m, c.root)
    BY <1>3 DEF Decide, ThreadRequests
  <2> QED
    BY <2>1 DEF LawfulRun, Lawful, ProjectAbsent, WorkspaceRootAbsent
<1>4. CASE c.type = "thread.delete"
  <2>1. /\ es = <<[type |-> "thread.deleted", thread |-> c.thread]>>
        /\ c.thread \in DOMAIN m.threads
    BY <1>4 DEF Decide, ThreadRequests, ThreadExists
  <2> QED
    BY <1>00, <2>1 DEF LawfulRun, Lawful
<1>5. CASE c.type = "thread.turn.start"
  <2>1. es = <<[type |-> "thread.message-sent", thread |-> c.thread],
               [type |-> "thread.turn-start-requested", thread |-> c.thread]>>
    BY <1>5 DEF Decide, ThreadRequests
  <2>2. "thread.turn-start-requested" \in NeutralEvents
    BY DEF NeutralEvents
  <2>3. "thread.message-sent" \in NeutralEvents
    <3>1. RequestEvent("thread.message.assistant.delta") = "thread.message-sent"
      BY DEF RequestEvent
    <3>2. "thread.message.assistant.delta" \in ThreadRequests
      BY DEF ThreadRequests
    <3> QED
      BY <3>1, <3>2 DEF NeutralEvents
  <2> QED
    BY <2>1, <2>2, <2>3 DEF LawfulRun
<1>6. CASE c.type \in ThreadRequests
  <2>1. es = <<[type |-> RequestEvent(c.type), thread |-> c.thread]>>
    BY <1>6 DEF Decide, ThreadRequests
  <2>2. RequestEvent(c.type) \in NeutralEvents
    BY <1>6 DEF NeutralEvents
  <2> QED
    BY <2>1, <2>2 DEF LawfulRun
<1>7. CASE c.type \in {"project.meta.update", "thread.archive", "thread.unarchive",
                       "thread.proposed-plan.upsert", "sandbox.model.pin", "sandbox.model.unpin"}
  <2> DEFINE Others == {"project.meta-updated", "thread.archived", "thread.unarchived",
                        "thread.proposed-plan-upserted", "sandbox.model-pinned",
                        "sandbox.model-unpinned"}
  <2>1. \E e : es = <<e>> /\ e.type \in Others
    <3>1. CASE c.type = "project.meta.update"
      BY <3>1 DEF Decide, ThreadRequests
    <3>2. CASE c.type = "thread.archive"
      BY <3>2 DEF Decide, ThreadRequests
    <3>3. CASE c.type = "thread.unarchive"
      BY <3>3 DEF Decide, ThreadRequests
    <3>4. CASE c.type = "thread.proposed-plan.upsert"
      BY <3>4 DEF Decide, ThreadRequests
    <3>5. CASE c.type = "sandbox.model.pin"
      BY <3>5 DEF Decide, ThreadRequests
    <3>6. CASE c.type = "sandbox.model.unpin"
      BY <3>6 DEF Decide, ThreadRequests
    <3> QED
      BY <1>7, <3>1, <3>2, <3>3, <3>4, <3>5, <3>6
  <2>2. \A e : e.type \in Others => Lawful(tb, e)
    BY DEF Lawful
  <2> QED
    BY <2>1, <2>2 DEF LawfulRun
<1>8. \/ c.type \in ThreadRequests
      \/ c.type \in {"project.create", "project.meta.update", "project.delete", "thread.create",
                     "thread.delete", "thread.archive", "thread.unarchive", "thread.turn.start",
                     "thread.proposed-plan.upsert", "sandbox.model.pin", "sandbox.model.unpin"}
  BY <1>0 DEF Command
<1> QED
  BY <1>1, <1>2, <1>3, <1>4, <1>5, <1>6, <1>7, <1>8

LEMMA ChronicleStays ==
  ASSUME NEW d, NEW d2, NEW e \in Event, d.tables \in Tables, Chronicle(d),
         Lawful(d.tables, e), Extends(d2.log, d.log, e), d2.tables = Projected(d.tables, e)
  PROVE  Chronicle(d2)
BY ToldStays, OnceStays, RootedStays, EmptiedStays DEF Chronicle

\* What is appended is projected into all tables.
LEMMA AppendProjects ==
  ASSUME Consistent, StoresAgree, AppendEvent
  PROVE  /\ Extends(tx'.log, tx.log, Head(job.todo))
         /\ tx'.tables = Projected(tx.tables, Head(job.todo))
<1> DEFINE seq == Len(tx.log) + 1
           e == Head(job.todo)
           entry == [id |-> job.command.id, event |-> e]
           d1 == [tx EXCEPT !.log = Append(@, entry)]
<1>1. /\ tx \in Database /\ installed = Projectors /\ Len(tx.log) \in Nat
      /\ tx.log \in Seq(Entry) /\ job \in Job /\ job.todo # <<>> /\ job.command \in Commands
      /\ pc = "transaction"
  BY DEF Consistent, Typed, TypeOK, StepsAreFed, StoresAgree, Database, AppendEvent
<1>2. tx' = ProjectAll(d1, e, seq)
  BY DEF AppendEvent
<1>3. e \in Event
  BY <1>1 DEF Job
<1>4. entry \in Entry /\ entry.event = e
  BY <1>1, <1>3 DEF Entry, Ids
<1> HIDE DEF entry, e
<1>5. d1.log = Append(tx.log, entry) /\ d1.tables = tx.tables
  BY <1>1 DEF Database
<1>6. tx'.log = Append(tx.log, entry)
  BY <1>1, <1>2, <1>5 DEF ProjectAll, Database
<1>7. {"projects", "proposedPlans", "threads", "sandbox"} \subseteq installed
  BY <1>1 DEF Projectors, ProjectorOrder
<1>8. tx'.tables = Projected(tx.tables, e)
  BY <1>1, <1>2, <1>5, <1>7 DEF ProjectAll, Projected, Database
<1>9. Extends(tx'.log, tx.log, e)
  <2>1. /\ Len(tx'.log) = seq /\ tx'.log[seq] = entry
        /\ \A i \in 1..Len(tx.log) : tx'.log[i] = tx.log[i]
    BY <1>1, <1>4, <1>6
  <2> QED
    BY <1>1, <1>4, <2>1 DEF Extends
<1> QED
  BY <1>8, <1>9 DEF e

LEMMA ChroniclesInit == Init => Chronicles
<1> SUFFICES ASSUME Init PROVE Chronicles
  OBVIOUS
<1>1. /\ EmptyDatabase.log = <<>> /\ Len(EmptyDatabase.log) = 0
      /\ EmptyDatabase.tables.projects = <<>> /\ EmptyDatabase.tables.threads = <<>>
  BY DEF EmptyDatabase, EmptyTables
<1>2. Chronicle(EmptyDatabase)
  BY <1>1 DEF Chronicle, Told, Once, Rooted, Emptied
<1> QED
  BY <1>2 DEF Init, Chronicles

\* Every step but an append leaves the log and the tables of a store alone or
\* takes those of another.
LEMMA ChroniclesStep ==
  ASSUME Suited, Consistent, Agreement, Chronicles, [Next]_vars
  PROVE  Chronicles'
<1>0. /\ db \in Database /\ tx \in Database /\ synced \in Database /\ StoresAgree
      /\ job \in Job
  BY DEF Consistent, Typed, TypeOK, Agreement
<1>1. \A d, d2 : SameData(d, d2) /\ Chronicle(d) => Chronicle(d2)
  BY DEF SameData, Chronicle
<1>2. CASE QuietStep
  BY <1>2, QuietStores DEF Chronicles
<1>3. CASE BeginTransaction
  <2>1. /\ tx' = db /\ UNCHANGED <<db, synced>> /\ pc = "receipt"
        /\ job'.todo \in Decide(readModel, job.command)
    BY <1>0, <1>3 DEF BeginTransaction, durable, Job
  <2>2. readModel \in ReadModel /\ readModel = ReadModelOf(db) /\ job.command \in Commands
    BY <2>1 DEF Consistent, Typed, TypeOK, StepsAreFed, Agreement, ModelsKeepUp,
       ModelsReplayTheLog, OnPath
  <2>3. /\ db.tables \in Tables /\ readModel.projects = db.tables.projects
        /\ readModel.threads = Entries(db.tables)
    BY <1>0, <2>2, LevelSnapshot DEF StoresAgree, Good, Database
  <2>4. LawfulRun(db.tables, job'.todo)
    BY <2>1, <2>2, <2>3, DecidedIsLawful
  <2> QED
    BY <2>1, <2>4 DEF Chronicles
<1>4. CASE AppendEvent
  <2>1. /\ pc = "transaction" /\ UNCHANGED <<db, synced, pc>> /\ job.todo # <<>>
        /\ job'.todo = Tail(job.todo) /\ job.todo \in Seq(Event) /\ tx.tables \in Tables
    BY <1>0, <1>4 DEF AppendEvent, durable, Job, Database
  <2>2. Head(job.todo) \in Event
    BY <2>1
  <2>3. /\ Lawful(tx.tables, Head(job.todo))
        /\ LawfulRun(Projected(tx.tables, Head(job.todo)), Tail(job.todo))
    BY <2>1, LawfulRunStep DEF Chronicles
  <2>4. /\ Extends(tx'.log, tx.log, Head(job.todo))
        /\ tx'.tables = Projected(tx.tables, Head(job.todo))
    BY <1>0, <1>4, AppendProjects
  <2>5. Chronicle(tx')
    BY <2>1, <2>2, <2>3, <2>4, ChronicleStays DEF Chronicles
  <2> QED
    BY <2>1, <2>3, <2>4, <2>5 DEF Chronicles
<1>5. CASE CommitStep
  <2>1. SameData(tx, WithReceipt)
    BY <1>0, ReceiptKeepsData DEF WithReceipt
  <2>2. db' = WithReceipt /\ tx' = db' /\ UNCHANGED synced /\ pc' # "transaction"
    BY <1>5 DEF CommitStep, Commit, CommitUnacknowledged, FailWith
  <2> QED
    BY <1>1, <2>1, <2>2 DEF Chronicles
<1>6. CASE Rollback
  BY <1>6 DEF Rollback, FailWith, Chronicles
<1>7. CASE RecordRejection
  <2> DEFINE r == [status |-> "rejected", seq |-> readModel.seq]
             d == [db EXCEPT !.receipts[job.command.id] = r]
  <2>1. SameData(db, d)
    BY <1>0, ReceiptKeepsData
  <2>2. db' = d /\ tx' = db' /\ UNCHANGED synced /\ pc' # "transaction"
    BY <1>7 DEF RecordRejection
  <2> HIDE DEF d
  <2> QED
    BY <1>1, <2>1, <2>2 DEF Chronicles
<1>8. CASE StoppingStep
  BY <1>8 DEF StoppingStep, Crash, PowerLoss, Stop, Chronicles
<1>9. CASE WalCheckpoint
  BY <1>9 DEF WalCheckpoint, volatile, Chronicles
<1> QED
  BY <1>2, <1>3, <1>4, <1>5, <1>6, <1>7, <1>8, <1>9, StepsBySort

LEMMA AlwaysChronicles ==
  ASSUME Suited
  PROVE  Spec => []Chronicles
<1>1. Init => Chronicles
  BY ChroniclesInit
<1>2. Consistent /\ Agreement /\ Chronicles /\ [Next]_vars => Chronicles'
  BY ChroniclesStep
<1> QED
  BY <1>1, <1>2, AlwaysAgreement, AlwaysConsistent, PTL DEF Spec

\* No id of a project or of a thread is created twice, whichever creations are
\* retried, raced, rolled back or cut off by a crash or a power loss.
THEOREM IdsAreCreatedOnce ==
  ASSUME Suited
  PROVE  Spec => []CreatedOnce
<1>1. Chronicles => CreatedOnce
  BY DEF Chronicles, Chronicle, Once, CreatedOnce
<1> QED
  BY <1>1, AlwaysChronicles, PTL

\* Two active projects have one workspace root only if an update, whose root the
\* decider does not check, gave one of them that very root after both were created.
THEOREM RootsAreShared ==
  ASSUME Suited
  PROVE  Spec => []RootsUniqueUnlessMoved
<1>1. Chronicles => RootsUniqueUnlessMoved
  BY DEF Chronicles, Chronicle, Rooted, Moved, RootsUniqueUnlessMoved
<1> QED
  BY <1>1, AlwaysChronicles, PTL

\* An active thread of a deleted project was created after the project was deleted:
\* the deletion took all threads there were, in the transaction that recorded it.
THEOREM DeletionEmptiesProjects ==
  ASSUME Suited
  PROVE  Spec => []DeletedProjectsAreEmpty
<1>1. Chronicles => DeletedProjectsAreEmpty
  BY DEF Chronicles, Chronicle, Emptied, CreatedLater, DeletedProjectsAreEmpty
<1> QED
  BY <1>1, AlwaysChronicles, PTL
=============================================================================
