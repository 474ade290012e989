------------------------- MODULE MCDispatchCommand --------------------------
(* One first turn, sent up to twice, while other clients ensure a project for *)
(* one root and delete it with its threads.                                   *)
EXTENDS DispatchCommand

MCAttempts == {1, 2}
MCCreateId == <<"create1", "create2">>
MCDeleteId == <<"delete1", "delete2">>
MCStartId == "start"

MCCommands ==
  {[id |-> "c1", type |-> "project.create", project |-> "p1", root |-> "r1"],
   [id |-> "c4", type |-> "project.delete", project |-> "p1", force |-> TRUE]}
  \cup {CreateCommand(a) : a \in MCAttempts}
  \cup {DeleteCommand(a) : a \in MCAttempts}
  \cup {StartCommand}
=============================================================================
