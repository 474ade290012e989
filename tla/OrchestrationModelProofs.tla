---------------------- MODULE OrchestrationModelProofs ----------------------
(***************************************************************************)
(* Lemmas about the pure part of the orchestration core, for every set of  *)
(* projects, threads, roots, plans, providers and models: the decider only *)
(* emits well-formed, non-empty runs of events, and the projections map    *)
(* well-formed rows to well-formed rows.                                   *)
(***************************************************************************)
EXTENDS OrchestrationModel, FiniteSetTheorems, TLAPS

\* Writing a row keeps a table a table.
LEMMA PutType ==
  ASSUME NEW S, NEW T, NEW f \in PartialFn(S, T), NEW k \in S, NEW v \in T
  PROVE  Put(f, k, v) \in PartialFn(S, T)
<1>1. PICK D \in SUBSET S : f \in [D -> T]
  BY DEF PartialFn
<1>2. Put(f, k, v) \in [D \cup {k} -> T]
  BY <1>1 DEF Put
<1> QED
  BY <1>2 DEF PartialFn

\* Deleting a row keeps a table a table.
LEMMA DropType ==
  ASSUME NEW S, NEW T, NEW f \in PartialFn(S, T), NEW k
  PROVE  Drop(f, k) \in PartialFn(S, T)
<1>1. PICK D \in SUBSET S : f \in [D -> T]
  BY DEF PartialFn
<1>2. Drop(f, k) \in [D \ {k} -> T]
  BY <1>1 DEF Drop
<1> QED
  BY <1>2 DEF PartialFn

\* A row of a table is of the table's row type, and its key is a key.
LEMMA RowType ==
  ASSUME NEW S, NEW T, NEW f \in PartialFn(S, T)
  PROVE  DOMAIN f \subseteq S /\ \A k \in DOMAIN f : f[k] \in T
BY DEF PartialFn

\* A changed row keeps a table a table.
LEMMA UpdateType ==
  ASSUME NEW S, NEW T, NEW f \in PartialFn(S, T), NEW k \in DOMAIN f, NEW v \in T
  PROVE  [f EXCEPT ![k] = v] \in PartialFn(S, T)
<1>1. PICK D \in SUBSET S : f \in [D -> T]
  BY DEF PartialFn
<1>2. [f EXCEPT ![k] = v] \in [D -> T]
  BY <1>1
<1> QED
  BY <1>2 DEF PartialFn

\* A new thread has plans, none of them.
LEMMA NoPlansType == NoPlans \in ThreadPlans
<1>1. NoPlans \in [{} -> Times]
  BY DEF NoPlans
<1> QED
  BY <1>1 DEF ThreadPlans, PartialFn

\* The memory keeps some plans of a thread, with their times.
LEMMA LatestType ==
  ASSUME NEW plans \in ThreadPlans
  PROVE  Latest(plans) \in ThreadPlans
<1>1. PICK D \in SUBSET Plans : plans \in [D -> Times]
  BY DEF ThreadPlans, PartialFn
<1>2. PICK E \in SUBSET D : Latest(plans) = [pl \in E |-> plans[pl]]
  BY <1>1 DEF Latest
<1>3. Latest(plans) \in [E -> Times]
  BY <1>1, <1>2
<1> QED
  BY <1>1, <1>3 DEF ThreadPlans, PartialFn

\* The plans of a thread stay plans with times when one is added.
LEMMA UpsertPlanType ==
  ASSUME NEW plans \in ThreadPlans, NEW e, e.plan \in Plans, e.createdAt \in Times
  PROVE  UpsertPlan(plans, e) \in ThreadPlans
<1>1. Put(plans, e.plan, e.createdAt) \in ThreadPlans
  BY PutType DEF ThreadPlans
<1> QED
  BY <1>1, LatestType DEF UpsertPlan

\* A thread that has at most MaxPlans plans keeps all of them.
LEMMA LatestKeepsFew ==
  ASSUME ModelAssumption, NEW plans \in ThreadPlans, IsFiniteSet(DOMAIN plans),
         Cardinality(DOMAIN plans) <= MaxPlans
  PROVE  Latest(plans) = plans
<1> DEFINE D == DOMAIN plans
           later(pl) == {ql \in D : plans[ql] > plans[pl] \/ (plans[ql] = plans[pl] /\ ql > pl)}
<1>1. D \subseteq Nat /\ plans = [pl \in D |-> plans[pl]] /\ \A pl \in D : plans[pl] \in Nat
  BY DEF ThreadPlans, PartialFn, ModelAssumption
<1>2. ASSUME NEW pl \in D
      PROVE  Cardinality(later(pl)) < MaxPlans
  <2>1. later(pl) \in SUBSET D /\ pl \notin later(pl)
    BY <1>1, <1>2
  <2> HIDE DEF D, later
  <2>2. /\ IsFiniteSet(D) /\ Cardinality(D) <= MaxPlans
    BY DEF D
  <2>3. /\ IsFiniteSet(later(pl)) /\ Cardinality(later(pl)) <= Cardinality(D)
        /\ Cardinality(D) = Cardinality(later(pl)) => D = later(pl)
    BY <2>1, <2>2, FS_Subset
  <2>4. Cardinality(later(pl)) # Cardinality(D)
    BY <1>2, <2>1, <2>3
  <2>5. Cardinality(later(pl)) \in Nat /\ Cardinality(D) \in Nat /\ MaxPlans \in Nat
    BY <2>2, <2>3, FS_CardinalityType DEF ModelAssumption
  <2>6. \A a, b, c \in Nat : a <= b /\ a # b /\ b <= c => a < c
    OBVIOUS
  <2> QED
    BY <2>2, <2>3, <2>4, <2>5, <2>6
<1>3. Latest(plans) = [pl \in {pl \in D : Cardinality(later(pl)) < MaxPlans} |-> plans[pl]]
  BY DEF Latest
<1> HIDE DEF later, D
<1>4. {pl \in D : Cardinality(later(pl)) < MaxPlans} = D
  BY <1>2
<1> QED
  BY <1>1, <1>3, <1>4

\* The plans the tables have of a thread, with their times.
LEMMA PlansOfType ==
  ASSUME NEW tb \in Tables, NEW t
  PROVE  PlansOf(tb, t) \in ThreadPlans /\ DOMAIN PlansOf(tb, t) \subseteq DOMAIN tb.plans
<1>1. DOMAIN tb.plans \subseteq Plans /\ \A pl \in DOMAIN tb.plans : tb.plans[pl] \in PlanRow
  BY RowType DEF Tables
<1> DEFINE D == {pl \in DOMAIN tb.plans : tb.plans[pl].thread = t}
<1>2. D \in SUBSET Plans /\ \A pl \in D : tb.plans[pl].createdAt \in Times
  BY <1>1 DEF PlanRow
<1>3. PlansOf(tb, t) \in [D -> Times]
  BY <1>2 DEF PlansOf
<1> QED
  BY <1>2, <1>3 DEF ThreadPlans, PartialFn

\* The fields of an event are what its type says.
LEMMA EventFields ==
  ASSUME NEW e \in Event
  PROVE  /\ e.type = "project.created" => e.project \in Projects /\ e.root \in Roots
         /\ e.type = "project.meta-updated" => e.project \in Projects /\ e.root \in Roots \cup {None}
         /\ e.type = "project.deleted" => e.project \in Projects
         /\ e.type = "thread.created" => e.thread \in Threads /\ e.project \in Projects
         /\ e.type \in {"thread.deleted", "thread.archived", "thread.unarchived"} => e.thread \in Threads
         /\ e.type = "thread.proposed-plan-upserted" => /\ e.thread \in Threads /\ e.plan \in Plans
                                                       /\ e.createdAt \in Times
         /\ e.type = "sandbox.model-pinned" => e.provider \in Providers /\ e.model \in ModelNames
         /\ e.type = "sandbox.model-unpinned" => e.provider \in Providers
BY DEF Event, NeutralEvents, ThreadRequests, RequestEvent

\* The fields of a command are what its type says.
LEMMA CommandFields ==
  ASSUME NEW ids, NEW c \in Command(ids)
  PROVE  /\ c.id \in ids
         /\ c.type = "project.create" => c.project \in Projects /\ c.root \in Roots
         /\ c.type = "project.meta.update" => c.project \in Projects /\ c.root \in Roots \cup {None}
         /\ c.type = "project.delete" => c.project \in Projects
         /\ c.type = "thread.create" => c.thread \in Threads /\ c.project \in Projects
         /\ c.type \in {"thread.delete", "thread.archive", "thread.unarchive"} \cup ThreadRequests
               => c.thread \in Threads
         /\ c.type = "thread.turn.start" => c.thread \in Threads
         /\ c.type = "thread.proposed-plan.upsert" => /\ c.thread \in Threads /\ c.plan \in Plans
                                                     /\ c.createdAt \in Times
         /\ c.type = "sandbox.model.pin" => c.provider \in Providers /\ c.model \in ModelNames
         /\ c.type = "sandbox.model.unpin" => c.provider \in Providers
BY DEF Command, ThreadRequests

\* Projecting an event keeps the read model well formed and numbers it.
LEMMA ProjectEventType ==
  ASSUME NEW m \in ReadModel, NEW e \in Event, NEW seq \in Nat
  PROVE  ProjectEvent(m, e, seq) \in ReadModel /\ ProjectEvent(m, e, seq).seq = seq
<1> DEFINE next == [m EXCEPT !.seq = seq]
<1> DEFINE known == e.thread \in DOMAIN m.threads
<1>0. /\ m.projects \in PartialFn(Projects, ProjectRow)
      /\ m.threads \in PartialFn(Threads, ThreadEntry)
      /\ m.pins \in PartialFn(Providers, ModelNames)
      /\ next \in ReadModel /\ next.seq = seq
      /\ next.projects = m.projects /\ next.threads = m.threads /\ next.pins = m.pins
  BY DEF ReadModel, Pins
<1> DEFINE Projects2(f) == [next EXCEPT !.projects = f]
<1> DEFINE Threads2(f) == [next EXCEPT !.threads = f]
<1> DEFINE Pins2(f) == [next EXCEPT !.pins = f]
<1>a. ASSUME NEW f \in PartialFn(Projects, ProjectRow)
      PROVE  Projects2(f) \in ReadModel /\ Projects2(f).seq = seq
  BY <1>0 DEF ReadModel
<1>b. ASSUME NEW f \in PartialFn(Threads, ThreadEntry)
      PROVE  Threads2(f) \in ReadModel /\ Threads2(f).seq = seq
  BY <1>0 DEF ReadModel
<1>c. ASSUME NEW f \in PartialFn(Providers, ModelNames)
      PROVE  Pins2(f) \in ReadModel /\ Pins2(f).seq = seq
  BY <1>0 DEF ReadModel, Pins
<1>1. CASE e.type = "project.created"
  <2>1. ProjectEvent(m, e, seq) =
          Projects2(Put(m.projects, e.project, [root |-> e.root, deleted |-> FALSE]))
    BY <1>0, <1>1 DEF ProjectEvent
  <2>2. Put(m.projects, e.project, [root |-> e.root, deleted |-> FALSE])
           \in PartialFn(Projects, ProjectRow)
    BY <1>0, <1>1, EventFields, PutType DEF ProjectRow
  <2> QED
    BY <1>a, <2>1, <2>2
<1>2. CASE e.type = "project.meta-updated" /\ e.project \in DOMAIN m.projects /\ e.root # None
  <2> DEFINE row == [m.projects[e.project] EXCEPT !.root = e.root]
  <2>1. ProjectEvent(m, e, seq) = Projects2([m.projects EXCEPT ![e.project] = row])
    BY <1>0, <1>2 DEF ProjectEvent
  <2>2. m.projects[e.project] \in ProjectRow
    BY <1>0, <1>2, RowType
  <2>3. row \in ProjectRow
    BY <2>2, <1>2, EventFields DEF ProjectRow
  <2>4. [m.projects EXCEPT ![e.project] = row] \in PartialFn(Projects, ProjectRow)
    BY <1>0, <1>2, <2>3, UpdateType
  <2> QED
    BY <1>a, <2>1, <2>4
<1>3. CASE e.type = "project.deleted" /\ e.project \in DOMAIN m.projects
  <2> DEFINE row == [m.projects[e.project] EXCEPT !.deleted = TRUE]
  <2>1. ProjectEvent(m, e, seq) = Projects2([m.projects EXCEPT ![e.project] = row])
    BY <1>0, <1>3 DEF ProjectEvent
  <2>2. m.projects[e.project] \in ProjectRow
    BY <1>0, <1>3, RowType
  <2>3. row \in ProjectRow
    BY <2>2 DEF ProjectRow
  <2>4. [m.projects EXCEPT ![e.project] = row] \in PartialFn(Projects, ProjectRow)
    BY <1>0, <1>3, <2>3, UpdateType
  <2> QED
    BY <1>a, <2>1, <2>4
<1>4. CASE e.type = "thread.created"
  <2> DEFINE row == [project |-> e.project, archived |-> FALSE, deleted |-> FALSE, plans |-> NoPlans]
  <2>1. ProjectEvent(m, e, seq) = Threads2(Put(m.threads, e.thread, row))
    BY <1>0, <1>4 DEF ProjectEvent
  <2>2. row \in ThreadEntry
    BY <1>4, EventFields, NoPlansType DEF ThreadEntry
  <2>3. Put(m.threads, e.thread, row) \in PartialFn(Threads, ThreadEntry)
    BY <1>0, <1>4, <2>2, EventFields, PutType
  <2> QED
    BY <1>b, <2>1, <2>3
<1>5. CASE e.type = "thread.deleted" /\ known
  <2> DEFINE row == [m.threads[e.thread] EXCEPT !.deleted = TRUE]
  <2>1. ProjectEvent(m, e, seq) = Threads2([m.threads EXCEPT ![e.thread] = row])
    BY <1>0, <1>5 DEF ProjectEvent
  <2>2. m.threads[e.thread] \in ThreadEntry
    BY <1>0, <1>5, RowType
  <2>3. row \in ThreadEntry
    BY <2>2, <1>5, EventFields DEF ThreadEntry
  <2>4. [m.threads EXCEPT ![e.thread] = row] \in PartialFn(Threads, ThreadEntry)
    BY <1>0, <1>5, <2>3, UpdateType
  <2> QED
    BY <1>b, <2>1, <2>4
<1>6. CASE e.type = "thread.archived" /\ known
  <2> DEFINE row == [m.threads[e.thread] EXCEPT !.archived = TRUE]
  <2>1. ProjectEvent(m, e, seq) = Threads2([m.threads EXCEPT ![e.thread] = row])
    BY <1>0, <1>6 DEF ProjectEvent
  <2>2. m.threads[e.thread] \in ThreadEntry
    BY <1>0, <1>6, RowType
  <2>3. row \in ThreadEntry
    BY <2>2, <1>6, EventFields DEF ThreadEntry
  <2>4. [m.threads EXCEPT ![e.thread] = row] \in PartialFn(Threads, ThreadEntry)
    BY <1>0, <1>6, <2>3, UpdateType
  <2> QED
    BY <1>b, <2>1, <2>4
<1>7. CASE e.type = "thread.unarchived" /\ known
  <2> DEFINE row == [m.threads[e.thread] EXCEPT !.archived = FALSE]
  <2>1. ProjectEvent(m, e, seq) = Threads2([m.threads EXCEPT ![e.thread] = row])
    BY <1>0, <1>7 DEF ProjectEvent
  <2>2. m.threads[e.thread] \in ThreadEntry
    BY <1>0, <1>7, RowType
  <2>3. row \in ThreadEntry
    BY <2>2, <1>7, EventFields DEF ThreadEntry
  <2>4. [m.threads EXCEPT ![e.thread] = row] \in PartialFn(Threads, ThreadEntry)
    BY <1>0, <1>7, <2>3, UpdateType
  <2> QED
    BY <1>b, <2>1, <2>4
<1>8. CASE e.type = "thread.proposed-plan-upserted" /\ known
  <2> DEFINE row == [m.threads[e.thread] EXCEPT !.plans = UpsertPlan(@, e)]
  <2>1. ProjectEvent(m, e, seq) = Threads2([m.threads EXCEPT ![e.thread] = row])
    BY <1>0, <1>8 DEF ProjectEvent
  <2>2. m.threads[e.thread] \in ThreadEntry
    BY <1>0, <1>8, RowType
  <2>3. row \in ThreadEntry
    BY <2>2, <1>8, EventFields, UpsertPlanType DEF ThreadEntry
  <2>4. [m.threads EXCEPT ![e.thread] = row] \in PartialFn(Threads, ThreadEntry)
    BY <1>0, <1>8, <2>3, UpdateType
  <2> QED
    BY <1>b, <2>1, <2>4
<1>9. CASE e.type \in {"sandbox.model-pinned", "sandbox.model-unpinned"}
  <2>1. ProjectEvent(m, e, seq) = Pins2(ProjectPins(m.pins, e))
    BY <1>0, <1>9 DEF ProjectEvent
  <2>2. ProjectPins(m.pins, e) \in PartialFn(Providers, ModelNames)
    BY <1>0, <1>9, EventFields, PutType, DropType DEF ProjectPins
  <2> QED
    BY <1>c, <2>1, <2>2
<1>10. CASE /\ ~(e.type = "project.created")
            /\ ~(e.type = "project.meta-updated" /\ e.project \in DOMAIN m.projects /\ e.root # None)
            /\ ~(e.type = "project.deleted" /\ e.project \in DOMAIN m.projects)
            /\ ~(e.type = "thread.created")
            /\ ~(e.type = "thread.deleted" /\ known)
            /\ ~(e.type = "thread.archived" /\ known)
            /\ ~(e.type = "thread.unarchived" /\ known)
            /\ ~(e.type = "thread.proposed-plan-upserted" /\ known)
            /\ ~(e.type \in {"sandbox.model-pinned", "sandbox.model-unpinned"})
  <2>1. ProjectEvent(m, e, seq) = next
    BY <1>10 DEF ProjectEvent
  <2> QED
    BY <1>0, <2>1
<1> QED
  BY <1>1, <1>2, <1>3, <1>4, <1>5, <1>6, <1>7, <1>8, <1>9, <1>10

-----------------------------------------------------------------------------
\* Every way the decider may answer a command is a non-empty run of events: a
\* command that is accepted appends something to the log.
LEMMA DecideType ==
  ASSUME NEW m \in ReadModel, NEW ids, NEW c \in Command(ids), NEW es \in Decide(m, c)
  PROVE  es \in Seq(Event) /\ es # <<>>
<1> DEFINE Good(x) == x \in Seq(Event) /\ x # <<>>
<1>0. /\ m.projects \in PartialFn(Projects, ProjectRow)
      /\ m.threads \in PartialFn(Threads, ThreadEntry)
  BY DEF ReadModel
<1>s. ASSUME NEW e \in Event
      PROVE  Good(<<e>>)
  OBVIOUS
<1>1. CASE c.type = "project.create"
  <2>1. es = <<[type |-> "project.created", project |-> c.project, root |-> c.root]>>
    BY <1>1 DEF Decide, ThreadRequests
  <2>2. [type |-> "project.created", project |-> c.project, root |-> c.root] \in Event
    BY <1>1, CommandFields DEF Event
  <2> QED
    BY <1>s, <2>1, <2>2
<1>2. CASE c.type = "project.meta.update"
  <2>1. es = <<[type |-> "project.meta-updated", project |-> c.project, root |-> c.root]>>
    BY <1>2 DEF Decide, ThreadRequests
  <2>2. [type |-> "project.meta-updated", project |-> c.project, root |-> c.root] \in Event
    BY <1>2, CommandFields DEF Event
  <2> QED
    BY <1>s, <2>1, <2>2
<1>3. CASE c.type = "project.delete"
  <2> DEFINE active == ActiveThreads(m, c.project)
  <2> DEFINE last == [type |-> "project.deleted", project |-> c.project]
  <2>1. es \in ProjectDeletions(m, c)
    BY <1>3 DEF Decide, ThreadRequests
  <2>2. PICK ts \in SetToSeqs(active) :
          es = [i \in 1..Len(ts) |-> [type |-> "thread.deleted", thread |-> ts[i]]] \o <<last>>
    BY <2>1 DEF ProjectDeletions
  <2>3. active \subseteq Threads
    BY <1>0, RowType DEF ActiveThreads
  <2>4. IsFiniteSet(active)
    BY <2>3, ModelAssumption, FS_Subset
  <2>5. Cardinality(active) \in Nat
    BY <2>4, FS_CardinalityType
  <2>6. ts \in [1..Cardinality(active) -> active]
    BY <2>2 DEF SetToSeqs
  <2>7. ts \in Seq(Threads) /\ Len(ts) \in Nat
    BY <2>3, <2>5, <2>6
  <2>8. \A i \in 1..Len(ts) : [type |-> "thread.deleted", thread |-> ts[i]] \in Event
    BY <2>7 DEF Event
  <2>9. [i \in 1..Len(ts) |-> [type |-> "thread.deleted", thread |-> ts[i]]] \in Seq(Event)
    BY <2>7, <2>8
  <2>10. <<last>> \in Seq(Event) /\ Len(<<last>>) = 1
    <3>1. last \in Event
      BY <1>3, CommandFields DEF Event
    <3> QED
      BY <3>1
  <2> HIDE DEF last
  <2> QED
    BY <2>2, <2>9, <2>10
<1>4. CASE c.type = "thread.create"
  <2>1. es = <<[type |-> "thread.created", thread |-> c.thread, project |-> c.project]>>
    BY <1>4 DEF Decide, ThreadRequests
  <2>2. [type |-> "thread.created", thread |-> c.thread, project |-> c.project] \in Event
    BY <1>4, CommandFields DEF Event
  <2> QED
    BY <1>s, <2>1, <2>2
<1>5. CASE c.type = "thread.delete"
  <2>1. es = <<[type |-> "thread.deleted", thread |-> c.thread]>>
    BY <1>5 DEF Decide, ThreadRequests
  <2>2. [type |-> "thread.deleted", thread |-> c.thread] \in Event
    BY <1>5, CommandFields DEF Event
  <2> QED
    BY <1>s, <2>1, <2>2
<1>6. CASE c.type = "thread.archive"
  <2>1. es = <<[type |-> "thread.archived", thread |-> c.thread]>>
    BY <1>6 DEF Decide, ThreadRequests
  <2>2. [type |-> "thread.archived", thread |-> c.thread] \in Event
    BY <1>6, CommandFields DEF Event
  <2> QED
    BY <1>s, <2>1, <2>2
<1>7. CASE c.type = "thread.unarchive"
  <2>1. es = <<[type |-> "thread.unarchived", thread |-> c.thread]>>
    BY <1>7 DEF Decide, ThreadRequests
  <2>2. [type |-> "thread.unarchived", thread |-> c.thread] \in Event
    BY <1>7, CommandFields DEF Event
  <2> QED
    BY <1>s, <2>1, <2>2
<1>8. CASE c.type \in ThreadRequests
  <2>1. es = <<[type |-> RequestEvent(c.type), thread |-> c.thread]>>
    BY <1>8 DEF Decide, ThreadRequests
  <2>2. [type |-> RequestEvent(c.type), thread |-> c.thread] \in Event
    BY <1>8, CommandFields DEF Event, NeutralEvents
  <2> QED
    BY <1>s, <2>1, <2>2
<1>9. CASE c.type = "thread.turn.start"
  <2>1. es = <<[type |-> "thread.message-sent", thread |-> c.thread],
               [type |-> "thread.turn-start-requested", thread |-> c.thread]>>
    BY <1>9 DEF Decide, ThreadRequests
  <2>2. "thread.message-sent" \in NeutralEvents /\ "thread.turn-start-requested" \in NeutralEvents
    <3>1. RequestEvent("thread.message.assistant.delta") = "thread.message-sent"
      BY DEF RequestEvent
    <3> QED
      BY <3>1 DEF NeutralEvents, ThreadRequests
  <2>3. /\ [type |-> "thread.message-sent", thread |-> c.thread] \in Event
        /\ [type |-> "thread.turn-start-requested", thread |-> c.thread] \in Event
    BY <1>9, <2>2, CommandFields DEF Event
  <2> QED
    BY <2>1, <2>3
<1>10. CASE c.type = "thread.proposed-plan.upsert"
  <2>1. es = <<[type |-> "thread.proposed-plan-upserted", thread |-> c.thread, plan |-> c.plan,
             createdAt |-> c.createdAt]>>
    BY <1>10 DEF Decide, ThreadRequests
  <2>2. [type |-> "thread.proposed-plan-upserted", thread |-> c.thread, plan |-> c.plan,
         createdAt |-> c.createdAt] \in Event
    BY <1>10, CommandFields DEF Event
  <2> QED
    BY <1>s, <2>1, <2>2
<1>11. CASE c.type = "sandbox.model.pin"
  <2>1. es = <<[type |-> "sandbox.model-pinned", provider |-> c.provider, model |-> c.model]>>
    BY <1>11 DEF Decide, ThreadRequests
  <2>2. [type |-> "sandbox.model-pinned", provider |-> c.provider, model |-> c.model] \in Event
    BY <1>11, CommandFields DEF Event
  <2> QED
    BY <1>s, <2>1, <2>2
<1>12. CASE c.type = "sandbox.model.unpin"
  <2>1. es = <<[type |-> "sandbox.model-unpinned", provider |-> c.provider]>>
    BY <1>12 DEF Decide, ThreadRequests
  <2>2. [type |-> "sandbox.model-unpinned", provider |-> c.provider] \in Event
    BY <1>12, CommandFields DEF Event
  <2> QED
    BY <1>s, <2>1, <2>2
<1>13. \/ c.type \in ThreadRequests
       \/ c.type \in {"project.create", "project.meta.update", "project.delete", "thread.create",
                      "thread.delete", "thread.archive", "thread.unarchive", "thread.turn.start",
                      "thread.proposed-plan.upsert", "sandbox.model.pin", "sandbox.model.unpin"}
  BY DEF Command
<1> QED
  BY <1>1, <1>2, <1>3, <1>4, <1>5, <1>6, <1>7, <1>8, <1>9, <1>10, <1>11, <1>12, <1>13

\* Every projector maps tables to tables.
LEMMA ApplyType ==
  ASSUME NEW q \in Projectors, NEW tb \in Tables, NEW e \in Event
  PROVE  Apply(q, tb, e) \in Tables
<1>0. /\ tb.projects \in PartialFn(Projects, ProjectRow)
      /\ tb.plans \in PartialFn(Plans, PlanRow)
      /\ tb.threads \in PartialFn(Threads, ThreadRow)
      /\ tb.pins \in PartialFn(Providers, ModelNames)
  BY DEF Tables, Pins
<1> DEFINE Projects2(f) == [tb EXCEPT !.projects = f]
<1> DEFINE Threads2(f) == [tb EXCEPT !.threads = f]
<1>a. ASSUME NEW k \in Projects, NEW row \in ProjectRow
      PROVE  Projects2(Put(tb.projects, k, row)) \in Tables
  <2>1. Put(tb.projects, k, row) \in PartialFn(Projects, ProjectRow)
    BY <1>0, PutType
  <2> QED
    BY <2>1 DEF Tables
<1>b. ASSUME NEW k \in Threads, NEW row \in ThreadRow
      PROVE  Threads2(Put(tb.threads, k, row)) \in Tables
  <2>1. Put(tb.threads, k, row) \in PartialFn(Threads, ThreadRow)
    BY <1>0, PutType
  <2> QED
    BY <2>1 DEF Tables
<1>1. CASE q = "projects"
  <2> DEFINE row == tb.projects[e.project]
  <2>0. Apply(q, tb, e) = ApplyProjectsProjection(tb, e)
    BY <1>1 DEF Apply
  <2>1. CASE e.type = "project.created"
    <3>1. Apply(q, tb, e) =
            Projects2(Put(tb.projects, e.project, [root |-> e.root, deleted |-> FALSE]))
      BY <2>0, <2>1 DEF ApplyProjectsProjection
    <3>2. [root |-> e.root, deleted |-> FALSE] \in ProjectRow
      BY <2>1, EventFields DEF ProjectRow
    <3> QED
      BY <1>a, <2>1, <3>1, <3>2, EventFields
  <2>2. CASE e.type = "project.meta-updated" /\ e.project \in DOMAIN tb.projects
    <3> DEFINE new == [row EXCEPT !.root = IF e.root = None THEN @ ELSE e.root]
    <3>1. Apply(q, tb, e) = Projects2(Put(tb.projects, e.project, new))
      BY <2>0, <2>2 DEF ApplyProjectsProjection
    <3>2. row \in ProjectRow
      BY <1>0, <2>2, RowType
    <3>3. new \in ProjectRow
      BY <2>2, <3>2, EventFields DEF ProjectRow
    <3> QED
      BY <1>a, <2>2, <3>1, <3>3, EventFields
  <2>3. CASE e.type = "project.deleted" /\ e.project \in DOMAIN tb.projects
    <3> DEFINE new == [row EXCEPT !.deleted = TRUE]
    <3>1. Apply(q, tb, e) = Projects2(Put(tb.projects, e.project, new))
      BY <2>0, <2>3 DEF ApplyProjectsProjection
    <3>2. row \in ProjectRow
      BY <1>0, <2>3, RowType
    <3>3. new \in ProjectRow
      BY <3>2 DEF ProjectRow
    <3> QED
      BY <1>a, <2>3, <3>1, <3>3, EventFields
  <2>4. CASE /\ ~(e.type = "project.created")
             /\ ~(e.type = "project.meta-updated" /\ e.project \in DOMAIN tb.projects)
             /\ ~(e.type = "project.deleted" /\ e.project \in DOMAIN tb.projects)
    BY <2>0, <2>4 DEF ApplyProjectsProjection
  <2> QED
    BY <2>1, <2>2, <2>3, <2>4
<1>2. CASE q = "proposedPlans"
  <2>0. Apply(q, tb, e) = ApplyThreadProposedPlansProjection(tb, e)
    BY <1>2 DEF Apply
  <2>1. CASE e.type = "thread.proposed-plan-upserted"
    <3> DEFINE new == [thread |-> e.thread, createdAt |-> e.createdAt]
    <3>0. new \in PlanRow
      BY <2>1, EventFields DEF PlanRow
    <3>1. Put(tb.plans, e.plan, new) \in PartialFn(Plans, PlanRow)
      BY <1>0, <2>1, <3>0, EventFields, PutType
    <3>2. Apply(q, tb, e) = [tb EXCEPT !.plans = Put(tb.plans, e.plan, new)]
      BY <2>0, <2>1 DEF ApplyThreadProposedPlansProjection
    <3> QED
      BY <3>1, <3>2 DEF Tables
  <2>2. CASE e.type # "thread.proposed-plan-upserted"
    BY <2>0, <2>2 DEF ApplyThreadProposedPlansProjection
  <2> QED
    BY <2>1, <2>2
<1>3. CASE q = "threads"
  <2> DEFINE row == tb.threads[e.thread]
  <2> DEFINE known == e.thread \in DOMAIN tb.threads
  <2>0. Apply(q, tb, e) = ApplyThreadsProjection(tb, e)
    BY <1>3 DEF Apply
  <2>1. CASE e.type = "thread.created"
    <3> DEFINE new == [project |-> e.project, archived |-> FALSE, deleted |-> FALSE]
    <3>1. Apply(q, tb, e) = Threads2(Put(tb.threads, e.thread, new))
      BY <2>0, <2>1 DEF ApplyThreadsProjection
    <3>2. new \in ThreadRow
      BY <2>1, EventFields DEF ThreadRow
    <3> QED
      BY <1>b, <2>1, <3>1, <3>2, EventFields
  <2>2. CASE e.type = "thread.archived" /\ known
    <3> DEFINE new == [row EXCEPT !.archived = TRUE]
    <3>1. Apply(q, tb, e) = Threads2(Put(tb.threads, e.thread, new))
      BY <2>0, <2>2 DEF ApplyThreadsProjection
    <3>2. row \in ThreadRow
      BY <1>0, <2>2, RowType
    <3>3. new \in ThreadRow
      BY <3>2 DEF ThreadRow
    <3> QED
      BY <1>b, <2>2, <3>1, <3>3, EventFields
  <2>3. CASE e.type = "thread.unarchived" /\ known
    <3> DEFINE new == [row EXCEPT !.archived = FALSE]
    <3>1. Apply(q, tb, e) = Threads2(Put(tb.threads, e.thread, new))
      BY <2>0, <2>3 DEF ApplyThreadsProjection
    <3>2. row \in ThreadRow
      BY <1>0, <2>3, RowType
    <3>3. new \in ThreadRow
      BY <3>2 DEF ThreadRow
    <3> QED
      BY <1>b, <2>3, <3>1, <3>3, EventFields
  <2>4. CASE e.type = "thread.deleted" /\ known
    <3> DEFINE new == [row EXCEPT !.deleted = TRUE]
    <3>1. Apply(q, tb, e) = Threads2(Put(tb.threads, e.thread, new))
      BY <2>0, <2>4 DEF ApplyThreadsProjection
    <3>2. row \in ThreadRow
      BY <1>0, <2>4, RowType
    <3>3. new \in ThreadRow
      BY <3>2 DEF ThreadRow
    <3> QED
      BY <1>b, <2>4, <3>1, <3>3, EventFields
  <2>5. CASE /\ ~(e.type = "thread.created")
             /\ ~(e.type = "thread.archived" /\ known)
             /\ ~(e.type = "thread.unarchived" /\ known)
             /\ ~(e.type = "thread.deleted" /\ known)
    BY <2>0, <2>5 DEF ApplyThreadsProjection
  <2> QED
    BY <2>1, <2>2, <2>3, <2>4, <2>5
<1>4. CASE q = "sandbox"
  <2>0. Apply(q, tb, e) = ApplySandboxProjection(tb, e)
    BY <1>4 DEF Apply
  <2>1. CASE e.type = "sandbox.model-pinned"
    <3>1. Put(tb.pins, e.provider, e.model) \in PartialFn(Providers, ModelNames)
      BY <1>0, <2>1, EventFields, PutType
    <3>2. Apply(q, tb, e) = [tb EXCEPT !.pins = Put(tb.pins, e.provider, e.model)]
      BY <2>0, <2>1 DEF ApplySandboxProjection
    <3> QED
      BY <3>1, <3>2 DEF Tables, Pins
  <2>2. CASE e.type = "sandbox.model-unpinned"
    <3>1. Drop(tb.pins, e.provider) \in PartialFn(Providers, ModelNames)
      BY <1>0, DropType
    <3>2. Apply(q, tb, e) = [tb EXCEPT !.pins = Drop(tb.pins, e.provider)]
      BY <2>0, <2>2 DEF ApplySandboxProjection
    <3> QED
      BY <3>1, <3>2 DEF Tables, Pins
  <2>3. CASE e.type \notin {"sandbox.model-pinned", "sandbox.model-unpinned"}
    BY <2>0, <2>3 DEF ApplySandboxProjection
  <2> QED
    BY <2>1, <2>2, <2>3
<1> QED
  BY <1>1, <1>2, <1>3, <1>4 DEF Projectors, ProjectorOrder
-----------------------------------------------------------------------------
\* The snapshot's sequence is the cursor of a projector, and none is behind it.
LEMMA SnapshotSequenceIsLeast ==
  ASSUME NEW cursor \in [Projectors -> Nat]
  PROVE  /\ \E q \in Projectors : SnapshotSequence(cursor) = cursor[q]
         /\ \A q \in Projectors : SnapshotSequence(cursor) <= cursor[q]
         /\ SnapshotSequence(cursor) \in Nat
<1> DEFINE a == cursor["projects"]
<1> DEFINE b == cursor["proposedPlans"]
<1> DEFINE c == cursor["threads"]
<1> DEFINE d == cursor["sandbox"]
<1>1. Projectors = {"projects", "proposedPlans", "threads", "sandbox"}
  BY DEF Projectors, ProjectorOrder
<1>2. a \in Nat /\ b \in Nat /\ c \in Nat /\ d \in Nat
  BY <1>1
<1>3. \E n \in {a, b, c, d} : n <= a /\ n <= b /\ n <= c /\ n <= d
  BY <1>2
<1>4. \E n \in {cursor[q] : q \in Projectors} : \A q \in Projectors : n <= cursor[q]
  BY <1>1, <1>3
<1>5. /\ SnapshotSequence(cursor) \in {cursor[q] : q \in Projectors}
      /\ \A q \in Projectors : SnapshotSequence(cursor) <= cursor[q]
  BY <1>4 DEF SnapshotSequence
<1> QED
  BY <1>5

\* The snapshot of well-formed tables is a well-formed read model.
LEMMA SnapshotType ==
  ASSUME NEW tb \in Tables, NEW cursor \in [Projectors -> Nat]
  PROVE  Snapshot(tb, cursor) \in ReadModel
<1> DEFINE entry(t) == [project |-> tb.threads[t].project, archived |-> tb.threads[t].archived,
                        deleted |-> tb.threads[t].deleted,
                        plans |-> PlansOf(tb, t)]
<1>1. /\ tb.projects \in PartialFn(Projects, ProjectRow)
      /\ tb.plans \in PartialFn(Plans, PlanRow)
      /\ tb.threads \in PartialFn(Threads, ThreadRow)
      /\ tb.pins \in Pins
  BY DEF Tables
<1>2. ASSUME NEW t \in DOMAIN tb.threads
      PROVE  entry(t) \in ThreadEntry
  <2>1. tb.threads[t] \in ThreadRow
    BY <1>1, RowType
  <2>2. PlansOf(tb, t) \in ThreadPlans
    BY PlansOfType
  <2> QED
    BY <2>1, <2>2 DEF ThreadRow, ThreadEntry
<1>3. [t \in DOMAIN tb.threads |-> entry(t)] \in [DOMAIN tb.threads -> ThreadEntry]
  BY <1>2
<1>4. DOMAIN tb.threads \subseteq Threads
  BY <1>1, RowType
<1>5. [t \in DOMAIN tb.threads |-> entry(t)] \in PartialFn(Threads, ThreadEntry)
  BY <1>3, <1>4 DEF PartialFn
<1>6. SnapshotSequence(cursor) \in Nat
  BY SnapshotSequenceIsLeast
<1> QED
  BY <1>1, <1>5, <1>6 DEF Snapshot, ReadModel
=============================================================================
