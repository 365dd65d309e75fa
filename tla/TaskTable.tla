------------------------------ MODULE TaskTable ------------------------------
(***************************************************************************)
(* What the callers of src/tasks/taskStore.mjs take tasks.json for: one    *)
(* table that every update changes in one step, on top of all the updates  *)
(* before it.  The content of an entry is abstracted to the number of      *)
(* updates it has received.                                                *)
(***************************************************************************)
EXTENDS Naturals

CONSTANT Tasks

VARIABLE table

Init == table = [t \in Tasks |-> 0]
Update(t) == table' = [table EXCEPT ![t] = @ + 1]
Next == \E t \in Tasks : Update(t)
Spec == Init /\ [][Next]_table
=============================================================================
