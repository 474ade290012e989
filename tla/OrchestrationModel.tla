------------------------- MODULE OrchestrationModel -------------------------
(***************************************************************************)
(* The pure part of the agent bridge's orchestration core: which events a  *)
(* command produces from the read model (decider.ts, commandInvariants.ts),*)
(* what an event does to the read model held in memory (projector.ts), what*)
(* it does to the SQLite projection tables (ProjectionPipeline.ts), and the*)
(* read model rebuilt from those tables (ProjectionSnapshotQuery.ts).      *)
(*                                                                         *)
(* Rows keep the facts the decider looks at: a project's workspace root and*)
(* deletion, a thread's project, archival, deletion and proposed plans, the*)
(* pinned model of a provider, and the times of plans, by which the memory *)
(* forgets them.  Titles, other times, messages and turns are left out: no *)
(* decision of the decider reads them.  A table is a function whose domain *)
(* is the set of keys that have a row.                                     *)
(***************************************************************************)
EXTENDS Naturals, Sequences, FiniteSets, SequencesExt

CONSTANTS
  Projects,     \* project ids
  Threads,      \* thread ids
  Roots,        \* workspace roots
  Plans,        \* proposed plan ids, numbers in their order
  Times,        \* times a proposed plan may be made at
  Providers,    \* model providers
  ModelNames,   \* model slugs
  MaxPlans,     \* plans of a thread the read model in memory keeps (200 in the code)
  None          \* an absent optional field

ASSUME ModelAssumption ==
  /\ IsFiniteSet(Threads)
  /\ Plans \subseteq Nat /\ Times \subseteq Nat
  /\ MaxPlans \in Nat \ {0}
  /\ None \notin Roots /\ None \notin Plans /\ None \notin Threads

-----------------------------------------------------------------------------
(* Commands and events *)

\* Commands on one thread that require it to exist, emit one event and leave
\* every fact of this module unchanged, with the event each one emits.
ThreadRequests ==
  {"thread.meta.update", "thread.runtime-mode.set", "thread.interaction-mode.set",
   "thread.turn.interrupt", "thread.approval.respond", "thread.user-input.respond",
   "thread.checkpoint.revert", "thread.session.stop", "thread.session.set",
   "thread.message.assistant.delta", "thread.message.assistant.complete",
   "thread.turn.diff.complete", "thread.activity.append"}

RequestEvent(type) ==
  CASE type = "thread.meta.update"           -> "thread.meta-updated"
    [] type = "thread.runtime-mode.set"      -> "thread.runtime-mode-set"
    [] type = "thread.interaction-mode.set"  -> "thread.interaction-mode-set"
    [] type = "thread.turn.interrupt"        -> "thread.turn-interrupt-requested"
    [] type = "thread.approval.respond"      -> "thread.approval-response-requested"
    [] type = "thread.user-input.respond"    -> "thread.user-input-response-requested"
    [] type = "thread.checkpoint.revert"     -> "thread.checkpoint-revert-requested"
    [] type = "thread.session.stop"          -> "thread.session-stop-requested"
    [] type = "thread.session.set"           -> "thread.session-set"
    [] type = "thread.turn.diff.complete"    -> "thread.turn-diff-completed"
    [] type = "thread.activity.append"       -> "thread.activity-appended"
    [] OTHER                                 -> "thread.message-sent"

\* Events on a thread that carry no fact of this module.
NeutralEvents ==
  {RequestEvent(type) : type \in ThreadRequests} \cup {"thread.turn-start-requested"}

Command(ids) ==
  [id : ids, type : {"project.create"}, project : Projects, root : Roots]
  \cup [id : ids, type : {"project.meta.update"}, project : Projects, root : Roots \cup {None}]
  \cup [id : ids, type : {"project.delete"}, project : Projects, force : BOOLEAN]
  \cup [id : ids, type : {"thread.create"}, thread : Threads, project : Projects]
  \cup [id : ids, type : {"thread.delete", "thread.archive", "thread.unarchive"}
                         \cup ThreadRequests, thread : Threads]
  \cup [id : ids, type : {"thread.turn.start"}, thread : Threads,
        sourceThread : Threads \cup {None}, sourcePlan : Plans \cup {None}]
  \cup [id : ids, type : {"thread.proposed-plan.upsert"}, thread : Threads, plan : Plans,
        createdAt : Times]
  \cup [id : ids, type : {"sandbox.model.pin"}, provider : Providers, model : ModelNames]
  \cup [id : ids, type : {"sandbox.model.unpin"}, provider : Providers]

Event ==
  [type : {"project.created"}, project : Projects, root : Roots]
  \cup [type : {"project.meta-updated"}, project : Projects, root : Roots \cup {None}]
  \cup [type : {"project.deleted"}, project : Projects]
  \cup [type : {"thread.created"}, thread : Threads, project : Projects]
  \cup [type : {"thread.deleted", "thread.archived", "thread.unarchived"}
               \cup NeutralEvents, thread : Threads]
  \cup [type : {"thread.proposed-plan-upserted"}, thread : Threads, plan : Plans,
        createdAt : Times]
  \cup [type : {"sandbox.model-pinned"}, provider : Providers, model : ModelNames]
  \cup [type : {"sandbox.model-unpinned"}, provider : Providers]

-----------------------------------------------------------------------------
(* The read model in memory *)

(* Definitions marked "Mutant" are slips of the definition that follows them: *)
(* no definition uses them, each shows that some property notices the slip.   *)

Put(f, k, v) == [x \in DOMAIN f \cup {k} |-> IF x = k THEN v ELSE f[x]]
Drop(f, k) == [x \in DOMAIN f \ {k} |-> f[x]]
PartialFn(S, T) == UNION {[D -> T] : D \in SUBSET S}

ProjectRow == [root : Roots, deleted : BOOLEAN]
\* The plans of a thread, each with the time it was made at.
ThreadPlans == PartialFn(Plans, Times)
NoPlans == [pl \in {} |-> 0]
ThreadEntry == [project : Projects, archived : BOOLEAN, deleted : BOOLEAN, plans : ThreadPlans]
Pins == PartialFn(Providers, ModelNames)

ReadModel == [seq : Nat, projects : PartialFn(Projects, ProjectRow),
              threads : PartialFn(Threads, ThreadEntry), pins : Pins]

EmptyReadModel == [seq |-> 0, projects |-> <<>>, threads |-> <<>>, pins |-> <<>>]

\* Mutant: an archived thread does not count as a thread of the project.
ActiveThreads_NotArchived(m, p) ==
  {t \in DOMAIN m.threads : /\ m.threads[t].project = p
                            /\ ~m.threads[t].deleted /\ ~m.threads[t].archived}

\* listThreadsByProjectId, and the threads of it that are not deleted.
ActiveThreads(m, p) ==
  {t \in DOMAIN m.threads : m.threads[t].project = p /\ ~m.threads[t].deleted}

\* The latest MaxPlans of these plans: of two made at one time, that with the
\* greater id is later.
Latest(plans) ==
  LET later(pl) == {ql \in DOMAIN plans : plans[ql] > plans[pl]
                                         \/ (plans[ql] = plans[pl] /\ ql > pl)}
  IN  [pl \in {pl \in DOMAIN plans : Cardinality(later(pl)) < MaxPlans} |-> plans[pl]]

\* Mutant: the plans are sorted the other way round, and the oldest are kept.
UpsertPlan_Oldest(plans, e) ==
  LET put == Put(plans, e.plan, e.createdAt)
      earlier(pl) == {ql \in DOMAIN put : put[ql] < put[pl]}
  IN  [pl \in {pl \in DOMAIN put : Cardinality(earlier(pl)) < MaxPlans} |-> put[pl]]

\* The plan replaces the one of its id, and the read model in memory forgets all
\* but the latest plans of the thread.
UpsertPlan(plans, e) == Latest(Put(plans, e.plan, e.createdAt))

\* The pins of the sandbox.
ProjectPins(pins, e) ==
  CASE e.type = "sandbox.model-pinned"   -> Put(pins, e.provider, e.model)
    [] e.type = "sandbox.model-unpinned" -> Drop(pins, e.provider)
    [] OTHER                             -> pins

\* projectEvent: the read model after event e, stored under sequence seq.
ProjectEvent(m, e, seq) ==
  LET next == [m EXCEPT !.seq = seq]
      known == e.thread \in DOMAIN m.threads
  IN
  CASE e.type = "project.created" ->
         [next EXCEPT !.projects = Put(@, e.project, [root |-> e.root, deleted |-> FALSE])]
    [] e.type = "project.meta-updated" /\ e.project \in DOMAIN m.projects /\ e.root # None ->
         [next EXCEPT !.projects[e.project].root = e.root]
    [] e.type = "project.deleted" /\ e.project \in DOMAIN m.projects ->
         [next EXCEPT !.projects[e.project].deleted = TRUE]
    [] e.type = "thread.created" ->
         [next EXCEPT !.threads = Put(@, e.thread,
            [project |-> e.project, archived |-> FALSE, deleted |-> FALSE, plans |-> NoPlans])]
    [] e.type = "thread.deleted" /\ known ->
         [next EXCEPT !.threads[e.thread].deleted = TRUE]
    [] e.type = "thread.archived" /\ known ->
         [next EXCEPT !.threads[e.thread].archived = TRUE]
    [] e.type = "thread.unarchived" /\ known ->
         [next EXCEPT !.threads[e.thread].archived = FALSE]
    [] e.type = "thread.proposed-plan-upserted" /\ known ->
         [next EXCEPT !.threads[e.thread].plans = UpsertPlan(@, e)]
    [] e.type \in {"sandbox.model-pinned", "sandbox.model-unpinned"} ->
         [next EXCEPT !.pins = ProjectPins(@, e)]
    [] OTHER -> next

-----------------------------------------------------------------------------
(* The decider *)

\* requireProject, requireThread
ProjectExists(m, p) == p \in DOMAIN m.projects
ThreadExists(m, t) == t \in DOMAIN m.threads

\* requireProjectAbsent: a deleted project still takes its id.
ProjectAbsent(m, p) == p \notin DOMAIN m.projects

\* Mutant: the id of a deleted thread is free again.
ThreadAbsent_UnlessDeleted(m, t) == t \in DOMAIN m.threads => m.threads[t].deleted

\* requireThreadAbsent: a deleted thread still takes its id.
ThreadAbsent(m, t) == t \notin DOMAIN m.threads

\* Mutant: only the root of a project with the same id is refused.
WorkspaceRootAbsent_Unchecked(m, root) == TRUE

\* requireWorkspaceRootAbsent
WorkspaceRootAbsent(m, root) ==
  \A p \in DOMAIN m.projects : m.projects[p].deleted \/ m.projects[p].root # root

\* A turn may implement a proposed plan of a thread of the same project.
SourcePlanUsable(m, c) ==
  c.sourceThread # None =>
    /\ c.sourceThread \in DOMAIN m.threads
    /\ c.sourcePlan \in DOMAIN m.threads[c.sourceThread].plans
    /\ m.threads[c.sourceThread].project = m.threads[c.thread].project

\* A forced delete of a project first deletes its active threads, in the order
\* the read model lists them, which is any order here.
ProjectDeletions(m, c) ==
  {[i \in 1..Len(ts) |-> [type |-> "thread.deleted", thread |-> ts[i]]]
     \o <<[type |-> "project.deleted", project |-> c.project]>> :
   ts \in SetToSeqs(ActiveThreads(m, c.project))}

\* decideOrchestrationCommand: the event sequences command c may produce from
\* read model m; none when the decider refuses it with an invariant error.
Decide(m, c) ==
  LET accept(ok, es) == {x \in {es} : ok}
  IN
  CASE c.type = "project.create" ->
         accept(/\ ProjectAbsent(m, c.project)
                /\ WorkspaceRootAbsent(m, c.root),
                <<[type |-> "project.created", project |-> c.project, root |-> c.root]>>)
    [] c.type = "project.meta.update" ->
         accept(ProjectExists(m, c.project),
                <<[type |-> "project.meta-updated", project |-> c.project, root |-> c.root]>>)
    [] c.type = "project.delete" ->
         {es \in ProjectDeletions(m, c) :
            /\ ProjectExists(m, c.project)
            /\ c.force \/ ActiveThreads(m, c.project) = {}}
    [] c.type = "thread.create" ->
         accept(ProjectExists(m, c.project) /\ ThreadAbsent(m, c.thread),
                <<[type |-> "thread.created", thread |-> c.thread, project |-> c.project]>>)
    [] c.type = "thread.delete" ->
         accept(ThreadExists(m, c.thread),
                <<[type |-> "thread.deleted", thread |-> c.thread]>>)
    [] c.type = "thread.archive" ->
         accept(ThreadExists(m, c.thread) /\ ~m.threads[c.thread].archived,
                <<[type |-> "thread.archived", thread |-> c.thread]>>)
    [] c.type = "thread.unarchive" ->
         accept(ThreadExists(m, c.thread) /\ m.threads[c.thread].archived,
                <<[type |-> "thread.unarchived", thread |-> c.thread]>>)
    [] c.type \in ThreadRequests ->
         accept(ThreadExists(m, c.thread),
                <<[type |-> RequestEvent(c.type), thread |-> c.thread]>>)
    [] c.type = "thread.turn.start" ->
         accept(ThreadExists(m, c.thread) /\ SourcePlanUsable(m, c),
                <<[type |-> "thread.message-sent", thread |-> c.thread],
                  [type |-> "thread.turn-start-requested", thread |-> c.thread]>>)
    [] c.type = "thread.proposed-plan.upsert" ->
         accept(ThreadExists(m, c.thread),
                <<[type |-> "thread.proposed-plan-upserted", thread |-> c.thread,
                   plan |-> c.plan, createdAt |-> c.createdAt]>>)
    [] c.type = "sandbox.model.pin" ->
         {<<[type |-> "sandbox.model-pinned", provider |-> c.provider, model |-> c.model]>>}
    [] c.type = "sandbox.model.unpin" ->
         {<<[type |-> "sandbox.model-unpinned", provider |-> c.provider]>>}

-----------------------------------------------------------------------------
(* The projection tables *)

\* The projectors that own the tables kept here, in the order the pipeline runs
\* them.  The others (messages, activities, sessions, turns, checkpoints,
\* approvals) advance their cursors the same way.
ProjectorOrder == <<"projects", "proposedPlans", "threads", "sandbox">>
Projectors == {ProjectorOrder[i] : i \in 1..Len(ProjectorOrder)}

ThreadRow == [project : Projects, archived : BOOLEAN, deleted : BOOLEAN]

PlanRow == [thread : Threads, createdAt : Times]

Tables == [projects : PartialFn(Projects, ProjectRow), plans : PartialFn(Plans, PlanRow),
           threads : PartialFn(Threads, ThreadRow), pins : Pins]

EmptyTables == [projects |-> <<>>, plans |-> <<>>, threads |-> <<>>, pins |-> <<>>]

\* Mutant: an update that leaves the root out erases it.
ApplyProjectsProjection_ErasesRoot(tb, e) ==
  LET p == e.project
      upsert(r) == [tb EXCEPT !.projects = Put(@, p, r)]
  IN
  CASE e.type = "project.created" -> upsert([root |-> e.root, deleted |-> FALSE])
    [] e.type = "project.meta-updated" -> upsert([tb.projects[p] EXCEPT !.root = e.root])
    [] e.type = "project.deleted" -> upsert([tb.projects[p] EXCEPT !.deleted = TRUE])
    [] OTHER -> tb

ApplyProjectsProjection(tb, e) ==
  LET p == e.project
      row == tb.projects[p]
      upsert(r) == [tb EXCEPT !.projects = Put(@, p, r)]
  IN
  CASE e.type = "project.created" -> upsert([root |-> e.root, deleted |-> FALSE])
    [] e.type = "project.meta-updated" /\ p \in DOMAIN tb.projects ->
         upsert([row EXCEPT !.root = IF e.root = None THEN @ ELSE e.root])
    [] e.type = "project.deleted" /\ p \in DOMAIN tb.projects ->
         upsert([row EXCEPT !.deleted = TRUE])
    [] OTHER -> tb

\* The table keeps every plan; a plan has one row, whichever thread it is of.
ApplyThreadProposedPlansProjection(tb, e) ==
  IF e.type = "thread.proposed-plan-upserted"
  THEN [tb EXCEPT !.plans = Put(@, e.plan, [thread |-> e.thread, createdAt |-> e.createdAt])]
  ELSE tb

ApplyThreadsProjection(tb, e) ==
  LET t == e.thread
      row == tb.threads[t]
      upsert(r) == [tb EXCEPT !.threads = Put(@, t, r)]
  IN
  CASE e.type = "thread.created" ->
         upsert([project |-> e.project, archived |-> FALSE, deleted |-> FALSE])
    [] e.type = "thread.archived" /\ t \in DOMAIN tb.threads ->
         upsert([row EXCEPT !.archived = TRUE])
    [] e.type = "thread.unarchived" /\ t \in DOMAIN tb.threads ->
         upsert([row EXCEPT !.archived = FALSE])
    [] e.type = "thread.deleted" /\ t \in DOMAIN tb.threads ->
         upsert([row EXCEPT !.deleted = TRUE])
    [] OTHER -> tb

ApplySandboxProjection(tb, e) ==
  CASE e.type = "sandbox.model-pinned" -> [tb EXCEPT !.pins = Put(@, e.provider, e.model)]
    [] e.type = "sandbox.model-unpinned" -> [tb EXCEPT !.pins = Drop(@, e.provider)]
    [] OTHER -> tb

\* runProjectorForEvent: what projector q does to the tables for event e.
Apply(q, tb, e) ==
  CASE q = "projects"      -> ApplyProjectsProjection(tb, e)
    [] q = "proposedPlans" -> ApplyThreadProposedPlansProjection(tb, e)
    [] q = "threads"       -> ApplyThreadsProjection(tb, e)
    [] q = "sandbox"       -> ApplySandboxProjection(tb, e)

-----------------------------------------------------------------------------
(* The snapshot query *)

\* computeSnapshotSequence: the least cursor; a projector without a row counts 0.
SnapshotSequence(cursor) ==
  CHOOSE n \in {cursor[q] : q \in Projectors} : \A q \in Projectors : n <= cursor[q]

\* The rows of the plans of a thread, all of them.
PlansOf(tb, t) ==
  [pl \in {pl \in DOMAIN tb.plans : tb.plans[pl].thread = t} |-> tb.plans[pl].createdAt]

\* getSnapshot: deleted projects and threads are part of it.
Snapshot(tb, cursor) ==
  [seq |-> SnapshotSequence(cursor),
   projects |-> tb.projects,
   threads |-> [t \in DOMAIN tb.threads |->
      [project |-> tb.threads[t].project, archived |-> tb.threads[t].archived,
       deleted |-> tb.threads[t].deleted,
       plans |-> PlansOf(tb, t)]],
   pins |-> tb.pins]
=============================================================================
