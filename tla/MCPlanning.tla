------------------------------ MODULE MCPlanning ------------------------------
(* Model checking Planning: two plans of two steps, of which one has no      *)
(* verify command, and two sessions.                                         *)
EXTENDS Planning

MCTasks == 1..2
MCSizes == [planning |-> 1, knowledge |-> 5, plan |-> 2, findings |-> 2, task |-> 3]
=============================================================================
