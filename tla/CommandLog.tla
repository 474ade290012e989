----------------------------- MODULE CommandLog -----------------------------
(***************************************************************************)
(* What the orchestration engine promises to its clients, without queue,   *)
(* process, transaction or crash: a journal in which each command id takes *)
(* effect at most once, as a whole, and an answer that never contradicts   *)
(* the outcome the command has.                                            *)
(***************************************************************************)
EXTENDS Naturals, Sequences

CONSTANT Ids   \* command ids

VARIABLES
  journal,   \* for each entry of the log, the id of the command it belongs to
  outcome,   \* what became of each command
  answers    \* what the clients of each command were answered

Pending == [status |-> "none", seq |-> 0]

Init ==
  /\ journal = <<>>
  /\ outcome = [id \in Ids |-> Pending]
  /\ answers = [id \in Ids |-> {}]

\* A command takes effect: n entries of the journal are its own.
Accept(id) ==
  /\ outcome[id].status = "none"
  /\ Len(journal') > Len(journal)
  /\ journal' = [i \in 1..Len(journal') |-> IF i <= Len(journal) THEN journal[i] ELSE id]
  /\ outcome' = [outcome EXCEPT ![id] = [status |-> "accepted", seq |-> Len(journal')]]
  /\ UNCHANGED answers

\* A command is refused for good.
Reject(id) ==
  /\ outcome[id].status = "none"
  /\ \E seq \in 0..Len(journal) :
       outcome' = [outcome EXCEPT ![id] = [status |-> "rejected", seq |-> seq]]
  /\ UNCHANGED <<journal, answers>>

\* A client is given the sequence at which its command took effect.
Confirm(id) ==
  /\ outcome[id].status = "accepted"
  /\ answers' = [answers EXCEPT ![id] = @ \cup {[ok |-> TRUE, seq |-> outcome[id].seq]}]
  /\ UNCHANGED <<journal, outcome>>

\* A client is told that its dispatch failed; the command may have taken effect.
Fail(id) ==
  /\ answers' = [answers EXCEPT ![id] = @ \cup {[ok |-> FALSE, seq |-> 0]}]
  /\ UNCHANGED <<journal, outcome>>

Next == \E id \in Ids : Accept(id) \/ Reject(id) \/ Confirm(id) \/ Fail(id)

Spec == Init /\ [][Next]_<<journal, outcome, answers>>
=============================================================================
