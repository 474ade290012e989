----------------------- MODULE MCOrchestrationEngine ------------------------
(* Command sets for the runs of OrchestrationEngine. *)
EXTENDS OrchestrationEngine

\* Two clients ensure a project for the same root, threads come and go in it.
LifecycleCommands ==
  {[id |-> "c1", type |-> "project.create", project |-> "p1", root |-> "r1"],
   [id |-> "c2", type |-> "project.create", project |-> "p2", root |-> "r1"],
   [id |-> "c3", type |-> "thread.create", thread |-> "t1", project |-> "p1"],
   [id |-> "c4", type |-> "project.delete", project |-> "p1", force |-> TRUE]}

\* Workspace roots taken, moved and freed; a project deleted by force, with its
\* thread, and not; a thread created again, archived, and with more plans than the
\* memory keeps, one of which a turn implements.
ModelCommands ==
  {[id |-> "c1", type |-> "project.create", project |-> "p1", root |-> "r1"],
   [id |-> "c2", type |-> "project.create", project |-> "p2", root |-> "r1"],
   [id |-> "c3", type |-> "project.meta.update", project |-> "p1", root |-> "r2"],
   [id |-> "c4", type |-> "project.meta.update", project |-> "p1", root |-> None],
   [id |-> "c5", type |-> "project.delete", project |-> "p1", force |-> TRUE],
   [id |-> "c6", type |-> "project.delete", project |-> "p1", force |-> FALSE],
   [id |-> "c7", type |-> "project.create", project |-> "p1", root |-> "r2"],
   [id |-> "t1", type |-> "thread.create", thread |-> "t1", project |-> "p1"],
   [id |-> "t2", type |-> "thread.proposed-plan.upsert", thread |-> "t1", plan |-> 1,
    createdAt |-> 1],
   [id |-> "t6", type |-> "thread.proposed-plan.upsert", thread |-> "t1", plan |-> 2,
    createdAt |-> 2],
   [id |-> "t3", type |-> "thread.turn.start", thread |-> "t1",
    sourceThread |-> "t1", sourcePlan |-> 1],
   [id |-> "t4", type |-> "thread.archive", thread |-> "t1"],
   [id |-> "t5", type |-> "thread.create", thread |-> "t1", project |-> "p1"]}

\* A pinned model, in an installation that first ran without the sandbox
\* projector.
SandboxCommands ==
  {[id |-> "c1", type |-> "project.create", project |-> "p1", root |-> "r1"],
   [id |-> "c2", type |-> "thread.create", thread |-> "t1", project |-> "p1"],
   [id |-> "c3", type |-> "sandbox.model.pin", provider |-> "claude", model |-> "m1"],
   [id |-> "c4", type |-> "sandbox.model.unpin", provider |-> "claude"],
   [id |-> "c5", type |-> "thread.create", thread |-> "t2", project |-> "p2"]}
=============================================================================
