---------------------------- MODULE MCThreadPool ----------------------------
(* Instances of ThreadPool for TLC: tasks are numbers, and their priorities *)
(* are the one Session.cpp uses, or one for each of the three deques.       *)
EXTENDS ThreadPool

ProgramPriority == [k \in Tasks |-> 0]
MixedPriority == [k \in Tasks |-> IF k = 1 THEN 9 ELSE IF k = 2 THEN 1 ELSE 0]
=============================================================================
