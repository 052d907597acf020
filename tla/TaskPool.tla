------------------------------ MODULE TaskPool ------------------------------
(***************************************************************************)
(* What the thread pool promises: a task it accepts is run exactly once by *)
(* one worker; it accepts at most Capacity tasks ahead of their end; after *)
(* it is closed it accepts nothing more; and the call that closes it       *)
(* returns only when everything accepted has been run.  Queues, mutexes    *)
(* and condition variables are ThreadPool's business.                      *)
(***************************************************************************)
EXTENDS Naturals, FiniteSets

CONSTANTS Tasks,      \* the tasks that may be offered
          Workers,    \* the pool's threads
          Capacity,   \* how many accepted tasks may be unfinished
          NoTask      \* what an idle worker runs

VARIABLES fate,       \* what became of each task
          runs,       \* the task each worker runs
          closed,     \* no more tasks are accepted
          returned    \* the closing call has returned

vars == <<fate, runs, closed, returned>>

Unfinished == {k \in Tasks : fate[k] \in {"accepted", "running"}}

Init ==
  /\ fate = [k \in Tasks |-> "new"]
  /\ runs = [w \in Workers |-> NoTask]
  /\ closed = FALSE
  /\ returned = FALSE

Accept(k) ==
  /\ fate[k] = "new"
  /\ ~closed
  /\ Cardinality(Unfinished) < Capacity
  /\ fate' = [fate EXCEPT ![k] = "accepted"]
  /\ UNCHANGED <<runs, closed, returned>>

Refuse(k) ==
  /\ fate[k] = "new"
  /\ closed
  /\ fate' = [fate EXCEPT ![k] = "refused"]
  /\ UNCHANGED <<runs, closed, returned>>

Start(w, k) ==
  /\ fate[k] = "accepted"
  /\ runs[w] = NoTask
  /\ fate' = [fate EXCEPT ![k] = "running"]
  /\ runs' = [runs EXCEPT ![w] = k]
  /\ UNCHANGED <<closed, returned>>

Finish(w) ==
  /\ runs[w] # NoTask
  /\ fate' = [fate EXCEPT ![runs[w]] = "done"]
  /\ runs' = [runs EXCEPT ![w] = NoTask]
  /\ UNCHANGED <<closed, returned>>

Close ==
  /\ ~closed
  /\ closed' = TRUE
  /\ UNCHANGED <<fate, runs, returned>>

Return ==
  /\ closed
  /\ ~returned
  /\ Unfinished = {}
  /\ returned' = TRUE
  /\ UNCHANGED <<fate, runs, closed>>

Next ==
  \/ \E k \in Tasks : Accept(k) \/ Refuse(k)
  \/ \E w \in Workers, k \in Tasks : Start(w, k)
  \/ \E w \in Workers : Finish(w)
  \/ Close
  \/ Return

Spec == Init /\ [][Next]_vars
=============================================================================
