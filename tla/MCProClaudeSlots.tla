-------------------------- MODULE MCProClaudeSlots --------------------------
(* Admissions for the runs of ProClaudeSlots. *)
EXTENDS ProClaudeSlots

Composed == {ComposedAdmission}

\* The one the bridge composes, and one that leaves the cap to the manager.
AnyAdmission == {ComposedAdmission, {}}
=============================================================================
