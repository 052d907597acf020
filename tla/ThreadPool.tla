----------------------------- MODULE ThreadPool -----------------------------
(***************************************************************************)
(* ThreadPool.h and ThreadPool.cpp: workers, each with a bounded queue of  *)
(* its own, a limit on the tasks in the pool, and an orderly shutdown.     *)
(*                                                                         *)
(* A thread's pc names the next step of the code it is in.  A condition    *)
(* variable's wait is three steps: the test of the predicate under the     *)
(* mutex; "...Blocking", the predicate was false and the mutex is still    *)
(* held; "...Asleep", in the wait set with the mutex released.  Those are  *)
(* the only states in which a mutex is held between two steps, so every    *)
(* other critical section is one action.  A notification that comes        *)
(* between the test and the wait set reaches nobody.                       *)
(*                                                                         *)
(*   submit    "limit"   -> "route" -> "push" -> "notifyPop" ->            *)
(*             "notifySubmit", with "limitBlocking", "limitAsleep",        *)
(*             "pushBlocking", "pushAsleep" on the way                     *)
(*   DoWork    "pop" -> "notifyPush" -> "run" (-> "notifyZero") -> "pop",  *)
(*             with "popBlocking", "popAsleep", and "exited" at the end    *)
(*   shutdown  "wakePops" -> "wakeSubmitters" -> "drain" -> "join" ->      *)
(*             "returned", with "drainBlocking", "drainAsleep"             *)
(*                                                                         *)
(* Left out: WorkQueue::steal and lines 19-51 of DoWork, which cannot be   *)
(* reached (pop returns an empty function only when stop is set, and then  *)
(* DoWork leaves its loop at line 17); push_task, which nothing calls; the *)
(* futures, which the one caller drops; spurious wakeups, which no code    *)
(* may rely on.                                                            *)
(***************************************************************************)
EXTENDS Integers, Sequences, FiniteSets

CONSTANTS Tasks,      \* the tasks offered to submit
          Priority,   \* the priority each is submitted with
          Spawners,   \* the tasks that may themselves call submit
          Endless,    \* the tasks that never return
          Clients,    \* the threads outside the pool that call submit
          Main,       \* the client that destroys the pool
          PoolSize,   \* how many workers the pool has (4 in Source.cpp)
          MaxTasks,   \* the limit on task_count (100 in submit)
          QueueCap,   \* WorkQueue::max_size (64)
          NoTask

Workers == 0..(PoolSize - 1)
Threads == Workers \cup Clients
Levels == {"high", "medium", "low"}

ASSUME TasksAreFinite == IsFiniteSet(Tasks) /\ NoTask \notin Tasks
ASSUME PriorityIsInt == Priority \in [Tasks -> Int]
ASSUME SizesAreNat == PoolSize \in Nat \ {0} /\ MaxTasks \in Nat /\ QueueCap \in Nat
ASSUME ClientsAreOutside == Clients \cap Workers = {} /\ Main \in Clients
ASSUME ClientsAreFinite == IsFiniteSet(Clients)

VARIABLES queue,      \* the three deques of each worker's WorkQueue
          count,      \* task_count
          stop,       \* ThreadPool::stop
          index,      \* the round-robin index of submit, modulo PoolSize
          pc,         \* where each thread is
          offer,      \* the task a thread is submitting
          dest,       \* the queue it pushes to
          cur,        \* the task a worker runs
          wake,       \* the next queue shutdown notifies
          fate        \* history: what became of each task

vars == <<queue, count, stop, index, pc, offer, dest, cur, wake, fate>>

Size(w) == Len(queue[w]["high"]) + Len(queue[w]["medium"]) + Len(queue[w]["low"])

\* The deque that push chooses for a priority.
Level(p) == IF p > 5 THEN "high" ELSE IF p > 0 THEN "medium" ELSE "low"

\* The deque that pop takes from: the first in order that is not empty.
FirstLevel(w) ==
  IF queue[w]["high"] # <<>> THEN "high"
  ELSE IF queue[w]["medium"] # <<>> THEN "medium" ELSE "low"

\* Where a thread is when it is in none of the pool's functions.
Home(t) == IF t \in Workers THEN "run" ELSE "idle"

\* In submit before and after the task is counted.
Limiting == {"limit", "limitBlocking", "limitAsleep"}
Pushing == {"route", "push", "pushBlocking", "pushAsleep"}

\* The holders of mtx2 and of the mutex of w's queue.
Mtx2 == {t \in Threads : pc[t] \in {"limitBlocking", "drainBlocking"}}
QueueMtx(w) == {t \in Threads : \/ pc[t] = "popBlocking" /\ t = w
                                \/ pc[t] = "pushBlocking" /\ dest[t] = w}

\* The wait sets of cv2, and of cv_not_empty and cv_not_full of w's queue.
Cv2 == {t \in Threads : pc[t] \in {"limitAsleep", "drainAsleep"}}
NotEmpty(w) == {t \in Threads : pc[t] = "popAsleep" /\ t = w}
NotFull(w) == {t \in Threads : pc[t] = "pushAsleep" /\ dest[t] = w}

Goto(t, p) == pc' = [pc EXCEPT ![t] = p]

\* A woken thread takes the mutex again and tests its predicate again.
Retest == [limitAsleep |-> "limit", drainAsleep |-> "drain",
           popAsleep |-> "pop", pushAsleep |-> "push"]

\* Thread t notifies one, or all, of a wait set and goes on at p.
NotifyOne(t, waiters, p) ==
  \/ waiters = {} /\ Goto(t, p)
  \/ \E s \in waiters : pc' = [pc EXCEPT ![t] = p, ![s] = Retest[pc[s]]]
NotifyAll(t, waiters, p) ==
  pc' = [s \in Threads |-> IF s = t THEN p
                           ELSE IF s \in waiters THEN Retest[pc[s]] ELSE pc[s]]

Init ==
  /\ queue = [w \in Workers |-> [l \in Levels |-> <<>>]]
  /\ count = 0
  /\ stop = FALSE
  /\ index = 0
  /\ pc = [t \in Threads |-> IF t \in Workers THEN "pop" ELSE "idle"]
  /\ offer = [t \in Threads |-> NoTask]
  /\ dest = [t \in Threads |-> 0]
  /\ cur = [w \in Workers |-> NoTask]
  /\ wake = 0
  /\ fate = [k \in Tasks |-> "new"]
-----------------------------------------------------------------------------
(***************************************************************************)
(* Faulty variants of the actions below, not part of the specification:    *)
(* each is a mistake that some property at the end of the module catches.  *)
(***************************************************************************)
\* The limit is tested with <= instead of <.
LimitPassesOneMore(t) ==
  /\ pc[t] = "limit"
  /\ Mtx2 = {}
  /\ ~stop
  /\ count <= MaxTasks
  /\ count' = count + 1
  /\ fate' = [fate EXCEPT ![offer[t]] = "accepted"]
  /\ Goto(t, "route")
  /\ UNCHANGED <<queue, stop, index, offer, dest, cur, wake>>

\* submit does not look at stop.
LimitPassesStopped(t) ==
  /\ pc[t] = "limit"
  /\ Mtx2 = {}
  /\ count < MaxTasks
  /\ count' = count + 1
  /\ fate' = [fate EXCEPT ![offer[t]] = "accepted"]
  /\ Goto(t, "route")
  /\ UNCHANGED <<queue, stop, index, offer, dest, cur, wake>>

\* The round-robin index is not reduced modulo the number of queues.
RouteWithoutModulo(t) ==
  /\ pc[t] = "route"
  /\ dest' = [dest EXCEPT ![t] = IF t \in Workers THEN t ELSE index]
  /\ index' = IF t \in Workers THEN index ELSE index + 1
  /\ Goto(t, "push")
  /\ UNCHANGED <<queue, count, stop, offer, cur, wake, fate>>

\* push does not notify the worker, or notifies the wrong waiters.
NotifyPopNobody(t) ==
  /\ pc[t] = "notifyPop"
  /\ Goto(t, "notifySubmit")
  /\ UNCHANGED <<queue, count, stop, index, offer, dest, cur, wake, fate>>

\* pop reads the front of the deque and leaves it there.
PopCopies(w) ==
  LET l == FirstLevel(w)
      k == Head(queue[w][l])
  IN  /\ pc[w] = "pop"
      /\ QueueMtx(w) = {}
      /\ Size(w) > 0
      /\ cur' = [cur EXCEPT ![w] = k]
      /\ fate' = [fate EXCEPT ![k] = "running"]
      /\ Goto(w, "notifyPush")
      /\ UNCHANGED <<queue, count, stop, index, offer, dest, wake>>

\* pop gives up as soon as stop is set, whatever is in the queue.
PopExitsEarly(w) ==
  /\ pc[w] = "pop"
  /\ QueueMtx(w) = {}
  /\ stop
  /\ Goto(w, "exited")
  /\ UNCHANGED <<queue, count, stop, index, offer, dest, cur, wake, fate>>

\* pop notifies the wrong condition variable.
NotifyPushWrong(w) ==
  /\ pc[w] = "notifyPush"
  /\ NotifyOne(w, NotEmpty(w), "run")
  /\ UNCHANGED <<queue, count, stop, index, offer, dest, cur, wake, fate>>
-----------------------------------------------------------------------------
\* submit(priority, f): a client, or a task that a worker runs, offers k.
Submit(t, k) ==
  /\ pc[t] = Home(t)
  /\ t \in Workers => cur[t] \in Spawners
  /\ fate[k] = "new"
  /\ fate' = [fate EXCEPT ![k] = "offered"]
  /\ offer' = [offer EXCEPT ![t] = k]
  /\ Goto(t, "limit")
  /\ UNCHANGED <<queue, count, stop, index, dest, cur, wake>>

\* Under mtx2: the pool has stopped, submit throws.
LimitRefuses(t) ==
  /\ pc[t] = "limit"
  /\ Mtx2 = {}
  /\ stop
  /\ fate' = [fate EXCEPT ![offer[t]] = "refused"]
  /\ offer' = [offer EXCEPT ![t] = NoTask]
  /\ Goto(t, Home(t))
  /\ UNCHANGED <<queue, count, stop, index, dest, cur, wake>>

\* Under mtx2: there is room below the limit, the task is counted.
LimitPasses(t) ==
  /\ pc[t] = "limit"
  /\ Mtx2 = {}
  /\ ~stop
  /\ count < MaxTasks
  /\ count' = count + 1
  /\ fate' = [fate EXCEPT ![offer[t]] = "accepted"]
  /\ Goto(t, "route")
  /\ UNCHANGED <<queue, stop, index, offer, dest, cur, wake>>

\* Under mtx2: the limit is reached, cv2.wait will block.
LimitFails(t) ==
  /\ pc[t] = "limit"
  /\ Mtx2 = {}
  /\ ~stop
  /\ count >= MaxTasks
  /\ Goto(t, "limitBlocking")
  /\ UNCHANGED <<queue, count, stop, index, offer, dest, cur, wake, fate>>

\* A worker pushes to its own queue, a client to the next one in turn.
Route(t) ==
  /\ pc[t] = "route"
  /\ dest' = [dest EXCEPT ![t] = IF t \in Workers THEN t ELSE index]
  /\ index' = IF t \in Workers THEN index ELSE (index + 1) % PoolSize
  /\ Goto(t, "push")
  /\ UNCHANGED <<queue, count, stop, offer, cur, wake, fate>>

\* WorkQueue::push under the queue's mutex, with room in the queue.
PushEnqueues(t) ==
  LET w == dest[t]
      l == Level(Priority[offer[t]])
  IN  /\ pc[t] = "push"
      /\ QueueMtx(w) = {}
      /\ Size(w) < QueueCap
      /\ queue' = [queue EXCEPT ![w][l] = Append(@, offer[t])]
      /\ offer' = [offer EXCEPT ![t] = NoTask]
      /\ Goto(t, "notifyPop")
      /\ UNCHANGED <<count, stop, index, dest, cur, wake, fate>>

\* WorkQueue::push finds the queue full: cv_not_full.wait will block.
PushFails(t) ==
  /\ pc[t] = "push"
  /\ QueueMtx(dest[t]) = {}
  /\ Size(dest[t]) >= QueueCap
  /\ Goto(t, "pushBlocking")
  /\ UNCHANGED <<queue, count, stop, index, offer, dest, cur, wake, fate>>

\* push, after the unlock: cv_not_empty.notify_one().
NotifyPop(t) ==
  /\ pc[t] = "notifyPop"
  /\ NotifyOne(t, NotEmpty(dest[t]), "notifySubmit")
  /\ UNCHANGED <<queue, count, stop, index, offer, dest, cur, wake, fate>>

\* The end of submit: cv2.notify_one().
NotifySubmit(t) ==
  /\ pc[t] = "notifySubmit"
  /\ NotifyOne(t, Cv2, Home(t))
  /\ dest' = [dest EXCEPT ![t] = 0]
  /\ UNCHANGED <<queue, count, stop, index, offer, cur, wake, fate>>
-----------------------------------------------------------------------------
\* WorkQueue::pop under the queue's mutex, with something in the queue.
PopTakes(w) ==
  LET l == FirstLevel(w)
      k == Head(queue[w][l])
  IN  /\ pc[w] = "pop"
      /\ QueueMtx(w) = {}
      /\ Size(w) > 0
      /\ queue' = [queue EXCEPT ![w][l] = Tail(@)]
      /\ cur' = [cur EXCEPT ![w] = k]
      /\ fate' = [fate EXCEPT ![k] = "running"]
      /\ Goto(w, "notifyPush")
      /\ UNCHANGED <<count, stop, index, offer, dest, wake>>

\* pop returns an empty function because of stop, and DoWork ends.
PopExits(w) ==
  /\ pc[w] = "pop"
  /\ QueueMtx(w) = {}
  /\ Size(w) = 0
  /\ stop
  /\ Goto(w, "exited")
  /\ UNCHANGED <<queue, count, stop, index, offer, dest, cur, wake, fate>>

\* pop finds nothing and no stop: cv_not_empty.wait will block.
PopFails(w) ==
  /\ pc[w] = "pop"
  /\ QueueMtx(w) = {}
  /\ Size(w) = 0
  /\ ~stop
  /\ Goto(w, "popBlocking")
  /\ UNCHANGED <<queue, count, stop, index, offer, dest, cur, wake, fate>>

\* pop, after the unlock: cv_not_full.notify_one().
NotifyPush(w) ==
  /\ pc[w] = "notifyPush"
  /\ NotifyOne(w, NotFull(w), "run")
  /\ UNCHANGED <<queue, count, stop, index, offer, dest, cur, wake, fate>>

\* The task returns or throws (both are caught) and the wrapper counts it off.
Finish(w) ==
  /\ pc[w] = "run"
  /\ cur[w] \notin Endless
  /\ count' = count - 1
  /\ fate' = [fate EXCEPT ![cur[w]] = "done"]
  /\ cur' = [cur EXCEPT ![w] = NoTask]
  /\ Goto(w, IF count = 1 THEN "notifyZero" ELSE "pop")
  /\ UNCHANGED <<queue, stop, index, offer, dest, wake>>

\* The last task of the pool: cv2.notify_all(), without mtx2.
NotifyZero(w) ==
  /\ pc[w] = "notifyZero"
  /\ NotifyAll(w, Cv2, "pop")
  /\ UNCHANGED <<queue, count, stop, index, offer, dest, cur, wake, fate>>
-----------------------------------------------------------------------------
\* shutdown: stop is set under mtx2.
Shutdown ==
  /\ pc[Main] = "idle"
  /\ Mtx2 = {}
  /\ stop' = TRUE
  /\ Goto(Main, "wakePops")
  /\ UNCHANGED <<queue, count, index, offer, dest, cur, wake, fate>>

\* shutdown: notify_all on the cv_not_empty of each queue, without its mutex.
WakePops ==
  /\ pc[Main] = "wakePops"
  /\ wake' = wake + 1
  /\ NotifyAll(Main, NotEmpty(wake),
               IF wake + 1 = PoolSize THEN "wakeSubmitters" ELSE "wakePops")
  /\ UNCHANGED <<queue, count, stop, index, offer, dest, cur, fate>>

\* shutdown: cv2.notify_all().
WakeSubmitters ==
  /\ pc[Main] = "wakeSubmitters"
  /\ NotifyAll(Main, Cv2, "drain")
  /\ UNCHANGED <<queue, count, stop, index, offer, dest, cur, wake, fate>>

\* wait(): the predicate holds, or cv2.wait will block.
DrainPasses ==
  /\ pc[Main] = "drain"
  /\ Mtx2 = {}
  /\ count = 0
  /\ Goto(Main, "join")
  /\ UNCHANGED <<queue, count, stop, index, offer, dest, cur, wake, fate>>

DrainFails ==
  /\ pc[Main] = "drain"
  /\ Mtx2 = {}
  /\ count # 0
  /\ Goto(Main, "drainBlocking")
  /\ UNCHANGED <<queue, count, stop, index, offer, dest, cur, wake, fate>>

\* shutdown: every worker is joined.
Join ==
  /\ pc[Main] = "join"
  /\ \A w \in Workers : pc[w] = "exited"
  /\ Goto(Main, "returned")
  /\ UNCHANGED <<queue, count, stop, index, offer, dest, cur, wake, fate>>
-----------------------------------------------------------------------------
\* A wait joins the wait set and lets go of the mutex, in one step.
Sleep(t) ==
  /\ \/ pc[t] = "limitBlocking" /\ Goto(t, "limitAsleep")
     \/ pc[t] = "pushBlocking" /\ Goto(t, "pushAsleep")
     \/ pc[t] = "popBlocking" /\ Goto(t, "popAsleep")
     \/ pc[t] = "drainBlocking" /\ Goto(t, "drainAsleep")
  /\ UNCHANGED <<queue, count, stop, index, offer, dest, cur, wake, fate>>

SubmitStep(t) ==
  \/ LimitRefuses(t) \/ LimitPasses(t) \/ LimitFails(t)
  \/ Route(t)
  \/ PushEnqueues(t) \/ PushFails(t)
  \/ NotifyPop(t) \/ NotifySubmit(t)

WorkerStep(w) ==
  \/ PopTakes(w) \/ PopExits(w) \/ PopFails(w)
  \/ NotifyPush(w) \/ Finish(w) \/ NotifyZero(w)

ShutdownStep == WakePops \/ WakeSubmitters \/ DrainPasses \/ DrainFails \/ Join

Next ==
  \/ \E t \in Threads, k \in Tasks : Submit(t, k)
  \/ \E t \in Threads : SubmitStep(t) \/ Sleep(t)
  \/ \E w \in Workers : WorkerStep(w)
  \/ Shutdown
  \/ ShutdownStep

Spec == Init /\ [][Next]_vars

\* The system runs every thread that is in the pool's code, and a task that
\* is not endless ends.  Nothing makes a client submit or shut down, and a
\* thread that sleeps is not obliged to wake by itself.
Fairness ==
  /\ \A t \in Threads : WF_vars(SubmitStep(t)) /\ WF_vars(Sleep(t))
  /\ \A w \in Workers : WF_vars(WorkerStep(w))
  /\ WF_vars(ShutdownStep)

FairSpec == Spec /\ Fairness
-----------------------------------------------------------------------------
TypeOK ==
  /\ queue \in [Workers -> [Levels -> Seq(Tasks)]]
  /\ count \in Int
  /\ stop \in BOOLEAN
  /\ index \in Workers
  /\ pc \in [Threads ->
       {"idle", "limit", "limitBlocking", "limitAsleep", "route", "push",
        "pushBlocking", "pushAsleep", "notifyPop", "notifySubmit", "pop",
        "popBlocking", "popAsleep", "notifyPush", "run", "notifyZero", "exited",
        "wakePops", "wakeSubmitters", "drain", "drainBlocking", "drainAsleep",
        "join", "returned"}]
  /\ offer \in [Threads -> Tasks \cup {NoTask}]
  /\ dest \in [Threads -> Workers]
  /\ cur \in [Workers -> Tasks \cup {NoTask}]
  /\ wake \in 0..PoolSize
  /\ fate \in [Tasks ->
       {"new", "offered", "accepted", "running", "done", "refused"}]

\* The tasks that task_count should count: accepted and not yet run to the end.
Unfinished == {k \in Tasks : fate[k] \in {"accepted", "running"}}

\* task_count is the number of unfinished tasks (submit counts a task once,
\* and its wrapper counts it off once), and neither the pool nor a queue
\* ever holds more than its limit.
CounterAccurate ==
  /\ count = Cardinality(Unfinished)
  /\ count <= MaxTasks
  /\ \A w \in Workers : Size(w) <= QueueCap

\* A task being submitted is with one thread, which has it counted before it
\* pushes and not before it passes the limit.
WithOneSubmitter ==
  /\ \A t \in Threads :
       /\ offer[t] # NoTask <=> pc[t] \in Limiting \cup Pushing
       /\ pc[t] \in Limiting => fate[offer[t]] = "offered"
       /\ pc[t] \in Pushing => fate[offer[t]] = "accepted"
  /\ \A s, t \in Threads : offer[s] = offer[t] /\ offer[s] # NoTask => s = t

\* A queued task is in one place of one deque of one queue, and with no
\* submitter.
InOneQueue ==
  \A v \in Workers, l \in Levels : \A i \in DOMAIN queue[v][l] :
    /\ fate[queue[v][l][i]] = "accepted"
    /\ \A t \in Threads : offer[t] # queue[v][l][i]
    /\ \A w \in Workers, m \in Levels : \A j \in DOMAIN queue[w][m] :
         queue[v][l][i] = queue[w][m][j] => v = w /\ l = m /\ i = j

\* A running task is with one worker.
WithOneWorker ==
  /\ \A w \in Workers : cur[w] # NoTask => fate[cur[w]] = "running"
  /\ \A v, w \in Workers : cur[v] = cur[w] /\ cur[v] # NoTask => v = w

\* An accepted task is somewhere, and so is a running one.
NotLost ==
  \A k \in Tasks :
    /\ fate[k] = "accepted" =>
         \/ \E t \in Threads : offer[t] = k
         \/ \E w \in Workers, l \in Levels : \E i \in DOMAIN queue[w][l] :
              queue[w][l][i] = k
    /\ fate[k] = "running" => \E w \in Workers : cur[w] = k

\* No task is lost, duplicated or run twice on its way from submit through a
\* queue to a worker, whatever the order in which threads push, pop and wait.
OnePlace == WithOneSubmitter /\ InOneQueue /\ WithOneWorker /\ NotLost

\* A worker does not sleep on a queue with work in it, unless the thread that
\* brought the work is about to notify it (push notifies after the unlock).
NoSleepOnWork ==
  \A w \in Workers :
    pc[w] = "popAsleep" /\ Size(w) > 0 =>
      \E t \in Threads : pc[t] = "notifyPop" /\ dest[t] = w

\* A submitter does not sleep on a queue with room in it, unless the worker
\* that made the room is about to notify, or a woken submitter is about to
\* test the queue (pop notifies one waiter after the unlock).
NoSleepOnRoom ==
  \A w \in Workers :
    NotFull(w) # {} /\ Size(w) < QueueCap =>
      \/ pc[w] = "notifyPush"
      \/ \E t \in Threads : pc[t] = "push" /\ dest[t] = w

\* Every task submit accepts is run, as long as tasks end and one thread both
\* submits and shuts down, as Source.cpp does.
AcceptedIsRun == \A k \in Tasks : fate[k] = "accepted" ~> fate[k] = "done"

\* shutdown wakes every pop that waits, so that it can join every worker.
ShutdownReturns == stop ~> pc[Main] = "returned"

\* A task does not stay queued for ever while some worker is free to take it:
\* a worker whose own queue is empty takes work from another.
QueuedIsTaken ==
  \A k \in Tasks \ Endless : fate[k] = "accepted" ~> fate[k] = "running"

\* The pool implements the abstract one.
Promise == INSTANCE TaskPool WITH
  Capacity <- MaxTasks,
  fate <- [k \in Tasks |-> IF fate[k] = "offered" THEN "new" ELSE fate[k]],
  runs <- cur,
  closed <- stop,
  returned <- pc[Main] = "returned"
Refines == Promise!Spec
=============================================================================
