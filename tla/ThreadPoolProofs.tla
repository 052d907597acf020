-------------------------- MODULE ThreadPoolProofs --------------------------
(***************************************************************************)
(* Proofs about ThreadPool, for every set of tasks and clients, and for    *)
(* every size of the pool, of its queues and of its limit.                 *)
(*                                                                         *)
(* The inductive invariant joins the invariants that the runs check to     *)
(* Control, which says which functions each kind of thread may be in, that *)
(* a worker has a task exactly between pop and the end of the task, and    *)
(* what shutdown knows at each of its steps.                               *)
(* The sections after it show that the pool implements TaskPool, and that  *)
(* nobody sleeps on work or on room.                                       *)
(***************************************************************************)
EXTENDS ThreadPool, DataLemmas, TLAPS, FiniteSetTheorems

Submitting == Limiting \cup Pushing \cup {"notifyPop", "notifySubmit"}
Busy == Submitting \cup {"notifyPush", "run"}
Free == {"pop", "popBlocking", "popAsleep", "notifyZero", "exited"}
Outside == Submitting \cup {"idle"}
Closing == {"wakePops", "wakeSubmitters", "drain", "drainBlocking", "drainAsleep",
            "join", "returned"}

Control ==
  /\ \A w \in Workers : \/ pc[w] \in Busy /\ cur[w] # NoTask
                        \/ pc[w] \in Free /\ cur[w] = NoTask
  /\ \A c \in Clients : \/ pc[c] \in Outside
                        \/ c = Main /\ pc[c] \in Closing
  /\ stop <=> pc[Main] \in Closing
  /\ stop \/ wake = 0
  /\ pc[Main] = "wakePops" => wake < PoolSize
  /\ pc[Main] = "join" => count = 0

Inv == TypeOK /\ Control /\ OnePlace /\ CounterAccurate

-----------------------------------------------------------------------------
(***************************************************************************)
(* How a step moves the threads.                                           *)
(***************************************************************************)
Pcs == Busy \cup Free \cup Outside \cup Closing

\* A notification sends s back to test its predicate.
Woken(s) == \/ pc[s] = "limitAsleep" /\ pc'[s] = "limit"
            \/ pc[s] = "pushAsleep" /\ pc'[s] = "push"
            \/ pc[s] = "popAsleep" /\ pc'[s] = "pop"
            \/ pc[s] = "drainAsleep" /\ pc'[s] = "drain"

\* t goes to p, and nobody else moves but by being woken.
Moves(t, p) ==
  /\ pc' \in [Threads -> Pcs]
  /\ pc'[t] = p
  /\ \A s \in Threads \ {t} : pc'[s] = pc[s] \/ Woken(s)

LEMMA PcType == TypeOK <=> TypeOK /\ pc \in [Threads -> Pcs]
  BY DEF TypeOK, Pcs, Busy, Free, Outside, Closing, Submitting, Limiting, Pushing

LEMMA GotoMoves ==
  ASSUME TypeOK, NEW t \in Threads, NEW p \in Pcs, Goto(t, p)
  PROVE  Moves(t, p)
<1>1. pc \in [Threads -> Pcs]
  BY PcType
<1> QED
  BY <1>1 DEF Goto, Moves

\* The waiters that the code notifies: every one is in a wait set.
Sleeping == {"limitAsleep", "pushAsleep", "popAsleep", "drainAsleep"}

LEMMA RetestWakes ==
  /\ Retest["limitAsleep"] = "limit" /\ Retest["pushAsleep"] = "push"
  /\ Retest["popAsleep"] = "pop" /\ Retest["drainAsleep"] = "drain"
  /\ \A s \in Sleeping : Retest[s] \in Pcs
  BY DEF Retest, Sleeping, Pcs, Busy, Free, Closing, Submitting, Limiting, Pushing

LEMMA NotifyOneMoves ==
  ASSUME TypeOK, NEW t \in Threads, NEW p \in Pcs, NEW W \in SUBSET Threads,
         \A s \in W : pc[s] \in Sleeping /\ s # t,
         NotifyOne(t, W, p)
  PROVE  Moves(t, p)
<1>1. pc \in [Threads -> Pcs]
  BY PcType
<1>2. CASE Goto(t, p)
  BY <1>2, GotoMoves
<1>3. ASSUME NEW s \in W, pc' = [pc EXCEPT ![t] = p, ![s] = Retest[pc[s]]]
      PROVE  Moves(t, p)
  BY <1>1, <1>3, RetestWakes DEF Moves, Woken, Sleeping
<1> QED
  BY <1>2, <1>3 DEF NotifyOne

LEMMA NotifyAllMoves ==
  ASSUME TypeOK, NEW t \in Threads, NEW p \in Pcs, NEW W \in SUBSET Threads,
         \A s \in W : pc[s] \in Sleeping /\ s # t,
         NotifyAll(t, W, p)
  PROVE  Moves(t, p)
<1>1. pc \in [Threads -> Pcs]
  BY PcType
<1>2. pc' \in [Threads -> Pcs]
  BY <1>1, RetestWakes DEF NotifyAll
<1> QED
  BY <1>2, RetestWakes DEF NotifyAll, Moves, Woken, Sleeping

LEMMA PcsAre ==
  /\ {"idle", "limit", "limitBlocking", "limitAsleep", "route", "push", "pushBlocking",
      "pushAsleep", "notifyPop", "notifySubmit"} \subseteq Pcs
  /\ {"pop", "popBlocking", "popAsleep", "notifyPush", "run", "notifyZero", "exited"}
       \subseteq Pcs
  /\ {"wakePops", "wakeSubmitters", "drain", "drainBlocking", "drainAsleep", "join",
      "returned"} \subseteq Pcs
  BY DEF Pcs, Busy, Free, Outside, Closing, Submitting, Limiting, Pushing

LEMMA WaitSets ==
  /\ Cv2 \in SUBSET Threads /\ \A s \in Cv2 : pc[s] \in Sleeping
  /\ \A w \in Workers :
       /\ NotEmpty(w) \in SUBSET Threads /\ \A s \in NotEmpty(w) : pc[s] \in Sleeping
       /\ NotFull(w) \in SUBSET Threads /\ \A s \in NotFull(w) : pc[s] \in Sleeping
  BY DEF Cv2, NotEmpty, NotFull, Sleeping

\* Where each action takes the thread that performs it.
LEMMA SubmitMoves ==
  ASSUME TypeOK, NEW t \in Threads
  PROVE  /\ \A k \in Tasks : Submit(t, k) => Moves(t, "limit")
         /\ LimitRefuses(t) => Moves(t, Home(t))
         /\ LimitPasses(t) => Moves(t, "route")
         /\ LimitFails(t) => Moves(t, "limitBlocking")
         /\ Route(t) => Moves(t, "push")
         /\ PushEnqueues(t) => Moves(t, "notifyPop")
         /\ PushFails(t) => Moves(t, "pushBlocking")
         /\ NotifyPop(t) => Moves(t, "notifySubmit")
         /\ NotifySubmit(t) => Moves(t, Home(t))
<1>1. Home(t) \in Pcs
  BY PcsAre DEF Home
<1>2. ASSUME NotifyPop(t) PROVE Moves(t, "notifySubmit")
  <2>1. dest[t] \in Workers
    BY DEF TypeOK
  <2> QED
    BY <1>2, <2>1, WaitSets, PcsAre, NotifyOneMoves DEF NotifyPop, Sleeping
<1>3. ASSUME NotifySubmit(t) PROVE Moves(t, Home(t))
  BY <1>1, <1>3, WaitSets, NotifyOneMoves DEF NotifySubmit, Sleeping
<1>4. \A p \in Pcs : Goto(t, p) => Moves(t, p)
  BY GotoMoves
<1> QED
  BY <1>1, <1>2, <1>3, <1>4, PcsAre
     DEF Submit, LimitRefuses, LimitPasses, LimitFails, Route, PushEnqueues, PushFails

LEMMA WorkerMoves ==
  ASSUME TypeOK, NEW w \in Workers
  PROVE  /\ PopTakes(w) => Moves(w, "notifyPush")
         /\ PopExits(w) => Moves(w, "exited")
         /\ PopFails(w) => Moves(w, "popBlocking")
         /\ NotifyPush(w) => Moves(w, "run")
         /\ Finish(w) => Moves(w, IF count = 1 THEN "notifyZero" ELSE "pop")
         /\ NotifyZero(w) => Moves(w, "pop")
<1>1. w \in Threads
  BY DEF Threads
<1>2. ASSUME NotifyPush(w) PROVE Moves(w, "run")
  BY <1>1, <1>2, WaitSets, PcsAre, NotifyOneMoves DEF NotifyPush, Sleeping
<1>3. ASSUME NotifyZero(w) PROVE Moves(w, "pop")
  BY <1>1, <1>3, WaitSets, PcsAre, NotifyAllMoves DEF NotifyZero, Sleeping
<1>4. \A p \in Pcs : Goto(w, p) => Moves(w, p)
  BY <1>1, GotoMoves
<1> QED
  BY <1>2, <1>3, <1>4, PcsAre DEF PopTakes, PopExits, PopFails, Finish

LEMMA ShutdownMoves ==
  ASSUME TypeOK
  PROVE  /\ Main \in Threads
         /\ Shutdown => Moves(Main, "wakePops")
         /\ WakePops /\ wake \in Workers =>
              Moves(Main, IF wake + 1 = PoolSize THEN "wakeSubmitters" ELSE "wakePops")
         /\ WakeSubmitters => Moves(Main, "drain")
         /\ DrainPasses => Moves(Main, "join")
         /\ DrainFails => Moves(Main, "drainBlocking")
         /\ Join => Moves(Main, "returned")
<1>1. Main \in Threads
  BY ClientsAreOutside DEF Threads
<1>2. ASSUME WakePops, wake \in Workers
      PROVE  Moves(Main, IF wake + 1 = PoolSize THEN "wakeSubmitters" ELSE "wakePops")
  BY <1>1, <1>2, WaitSets, PcsAre, NotifyAllMoves DEF WakePops, Sleeping
<1>3. ASSUME WakeSubmitters PROVE Moves(Main, "drain")
  BY <1>1, <1>3, WaitSets, PcsAre, NotifyAllMoves DEF WakeSubmitters, Sleeping
<1>4. \A p \in Pcs : Goto(Main, p) => Moves(Main, p)
  BY <1>1, GotoMoves
<1> QED
  BY <1>1, <1>2, <1>3, <1>4, PcsAre DEF Shutdown, DrainPasses, DrainFails, Join

-----------------------------------------------------------------------------
(***************************************************************************)
(* The inductive invariant.  Most steps only move threads and leave the    *)
(* tasks where they are.                                                   *)
(***************************************************************************)
\* A thread's tasks are the same at p and at q.
SamePart(t, p, q) ==
  /\ p \in Limiting <=> q \in Limiting
  /\ p \in Pushing <=> q \in Pushing
  /\ t \in Workers => (p \in Busy <=> q \in Busy) /\ (p \in Free <=> q \in Free)
  /\ t \in Clients => (p \in Outside <=> q \in Outside) /\ (p \in Closing <=> q \in Closing)

LEMMA SameParts ==
  /\ \A t \in Threads :
       /\ SamePart(t, "limit", "limitBlocking")
       /\ SamePart(t, "limitBlocking", "limitAsleep")
       /\ SamePart(t, "route", "push")
       /\ SamePart(t, "push", "pushBlocking")
       /\ SamePart(t, "pushBlocking", "pushAsleep")
       /\ SamePart(t, "notifyPop", "notifySubmit")
       /\ SamePart(t, "notifySubmit", Home(t))
       /\ SamePart(t, "popBlocking", "popAsleep")
       /\ SamePart(t, "drainBlocking", "drainAsleep")
  /\ \A w \in Workers :
       /\ SamePart(w, "pop", "exited")
       /\ SamePart(w, "pop", "popBlocking")
       /\ SamePart(w, "notifyPush", "run")
       /\ SamePart(w, "notifyZero", "pop")
  /\ SamePart(Main, "wakePops", "wakePops")
  /\ SamePart(Main, "wakePops", "wakeSubmitters")
  /\ SamePart(Main, "wakeSubmitters", "drain")
  /\ SamePart(Main, "drain", "join")
  /\ SamePart(Main, "drain", "drainBlocking")
  /\ SamePart(Main, "join", "returned")
<1> USE ClientsAreOutside
    DEF SamePart, Busy, Free, Outside, Closing, Submitting, Limiting, Pushing, Threads
<1>1. \A t \in Threads : SamePart(t, "notifySubmit", Home(t))
  BY DEF Home
<1> QED
  BY <1>1

\* A step that moves t within one part of the code changes no task.
LEMMA QuietKeepsInv ==
  ASSUME Inv, NEW t \in Threads, NEW p \in Pcs, Moves(t, p),
         UNCHANGED <<queue, count, stop, offer, cur, fate>>,
         index' \in Workers, dest' \in [Threads -> Workers], wake' \in 0..PoolSize,
         SamePart(t, pc[t], p),
         (stop /\ t = Main) \/ UNCHANGED wake,
         t = Main /\ p = "wakePops" => wake' < PoolSize,
         p = "join" => count = 0
  PROVE  Inv'
<1> USE DEF Inv, SamePart
<1>1. TypeOK'
  BY DEF TypeOK, Moves, Pcs, Busy, Free, Outside, Closing, Submitting, Limiting, Pushing
<1>2. \A s \in Threads : /\ pc'[s] \in Limiting <=> pc[s] \in Limiting
                         /\ pc'[s] \in Pushing <=> pc[s] \in Pushing
  BY DEF Moves, Woken, Limiting, Pushing
<1>3. Control'
  <2>1. \A w \in Workers : \/ pc'[w] \in Busy /\ cur'[w] # NoTask
                           \/ pc'[w] \in Free /\ cur'[w] = NoTask
    BY DEF Control, Moves, Woken, Threads, Busy, Free, Submitting, Limiting, Pushing
  <2>2. \A c \in Clients : \/ pc'[c] \in Outside
                           \/ c = Main /\ pc'[c] \in Closing
    BY DEF Control, Moves, Woken, Threads, Outside, Closing, Submitting, Limiting, Pushing
  <2>3. pc'[Main] \in Closing <=> pc[Main] \in Closing
    BY ClientsAreOutside
       DEF Control, Moves, Woken, Threads, Outside, Closing, Submitting, Limiting, Pushing
  <2>4. pc'[Main] = "join" => count' = 0
    BY ClientsAreOutside DEF Control, Moves, Woken, Threads
  <2>5. pc'[Main] = "wakePops" => wake' < PoolSize
    BY ClientsAreOutside DEF Control, Moves, Woken, Threads
  <2>6. stop' \/ wake' = 0
    BY DEF Control
  <2> QED
    BY <2>1, <2>2, <2>3, <2>4, <2>5, <2>6 DEF Control
<1>4. OnePlace'
  BY <1>2 DEF OnePlace, WithOneSubmitter, InOneQueue, WithOneWorker, NotLost
<1>5. CounterAccurate'
  BY DEF CounterAccurate, Unfinished, Size
<1> QED
  BY <1>1, <1>3, <1>4, <1>5

\* The steps of submit that leave the tasks alone.
LEMMA QuietSubmit ==
  ASSUME Inv, NEW t \in Threads,
         \/ LimitFails(t) \/ Route(t) \/ PushFails(t) \/ NotifyPop(t) \/ NotifySubmit(t)
  PROVE  Inv'
<1> USE DEF Inv
<1>1. t \in Workers \/ t \in Clients
  BY DEF Threads
<1>2. /\ index \in Workers /\ dest \in [Threads -> Workers] /\ wake \in 0..PoolSize
      /\ Main \in Clients /\ Main \in Threads /\ Main \notin Workers
  BY ClientsAreOutside DEF TypeOK, Threads
<1>3. CASE LimitFails(t)
  BY <1>1, <1>2, <1>3, SubmitMoves, PcsAre, SameParts, QuietKeepsInv DEF LimitFails
<1>4. CASE Route(t)
  <2>1. Moves(t, "push")
    BY <1>4, SubmitMoves
  <2>2. index' \in Workers
    BY <1>2, <1>4, SizesAreNat DEF Route, Workers
  <2>3. dest' \in [Threads -> Workers]
    BY <1>2, <1>4 DEF Route
  <2> QED
    BY <1>1, <1>2, <1>4, <2>1, <2>2, <2>3, PcsAre, SameParts, QuietKeepsInv DEF Route
<1>5. CASE PushFails(t)
  BY <1>1, <1>2, <1>5, SubmitMoves, PcsAre, SameParts, QuietKeepsInv DEF PushFails
<1>6. CASE NotifyPop(t)
  BY <1>1, <1>2, <1>6, SubmitMoves, PcsAre, SameParts, QuietKeepsInv DEF NotifyPop
<1>7. CASE NotifySubmit(t)
  <2>1. Moves(t, Home(t))
    BY <1>7, SubmitMoves
  <2>2. dest' \in [Threads -> Workers]
    BY <1>2, <1>7, SizesAreNat DEF NotifySubmit, Workers
  <2> QED
    BY <1>1, <1>2, <1>7, <2>1, <2>2, PcsAre, SameParts, QuietKeepsInv DEF NotifySubmit, Home
<1> QED
  BY <1>3, <1>4, <1>5, <1>6, <1>7

\* The steps of DoWork that leave the tasks alone.
LEMMA QuietWorker ==
  ASSUME Inv, NEW w \in Workers,
         PopExits(w) \/ PopFails(w) \/ NotifyPush(w) \/ NotifyZero(w)
  PROVE  Inv'
<1> USE DEF Inv
<1>1. w \in Threads /\ w \notin Clients
  BY ClientsAreOutside DEF Threads
<1>2. /\ index \in Workers /\ dest \in [Threads -> Workers] /\ wake \in 0..PoolSize
      /\ Main \in Clients /\ Main \in Threads /\ Main \notin Workers
  BY ClientsAreOutside DEF TypeOK, Threads
<1>3. CASE PopExits(w)
  BY <1>1, <1>2, <1>3, WorkerMoves, PcsAre, SameParts, QuietKeepsInv DEF PopExits
<1>4. CASE PopFails(w)
  BY <1>1, <1>2, <1>4, WorkerMoves, PcsAre, SameParts, QuietKeepsInv DEF PopFails
<1>5. CASE NotifyPush(w)
  BY <1>1, <1>2, <1>5, WorkerMoves, PcsAre, SameParts, QuietKeepsInv DEF NotifyPush
<1>6. CASE NotifyZero(w)
  BY <1>1, <1>2, <1>6, WorkerMoves, PcsAre, SameParts, QuietKeepsInv DEF NotifyZero
<1> QED
  BY <1>3, <1>4, <1>5, <1>6

\* The steps of shutdown after stop is set.
LEMMA QuietShutdown ==
  ASSUME Inv, ShutdownStep
  PROVE  Inv'
<1> USE DEF Inv
<1>1. Main \in Clients /\ Main \in Threads /\ Main \notin Workers
  BY ClientsAreOutside DEF Threads
<1>2. /\ index \in Workers /\ dest \in [Threads -> Workers] /\ wake \in 0..PoolSize
      /\ PoolSize \in Nat \ {0}
  BY SizesAreNat DEF TypeOK
<1>3. CASE WakePops
  <2>1. wake \in Workers
    BY <1>2, <1>3 DEF WakePops, Workers, Control
  <2>2. Moves(Main, IF wake + 1 = PoolSize THEN "wakeSubmitters" ELSE "wakePops")
    BY <1>3, <2>1, ShutdownMoves
  <2>3. wake' \in 0..PoolSize /\ (wake + 1 # PoolSize => wake' < PoolSize)
    BY <1>2, <1>3, <2>1 DEF WakePops, Workers
  <2>4. stop
    BY <1>3 DEF WakePops, Control, Closing
  <2> QED
    BY <1>1, <1>2, <1>3, <2>2, <2>3, <2>4, PcsAre, SameParts, QuietKeepsInv DEF WakePops
<1>4. CASE WakeSubmitters
  BY <1>1, <1>2, <1>4, ShutdownMoves, PcsAre, SameParts, QuietKeepsInv DEF WakeSubmitters
<1>5. CASE DrainPasses
  BY <1>1, <1>2, <1>5, ShutdownMoves, PcsAre, SameParts, QuietKeepsInv DEF DrainPasses
<1>6. CASE DrainFails
  BY <1>1, <1>2, <1>6, ShutdownMoves, PcsAre, SameParts, QuietKeepsInv DEF DrainFails
<1>7. CASE Join
  BY <1>1, <1>2, <1>7, ShutdownMoves, PcsAre, SameParts, QuietKeepsInv DEF Join
<1> QED
  BY <1>3, <1>4, <1>5, <1>6, <1>7 DEF ShutdownStep

\* Joining a wait set.
LEMMA QuietSleep ==
  ASSUME Inv, NEW t \in Threads, Sleep(t)
  PROVE  Inv'
<1> USE DEF Inv
<1>1. t \in Workers \/ t \in Clients
  BY DEF Threads
<1>2. /\ index \in Workers /\ dest \in [Threads -> Workers] /\ wake \in 0..PoolSize
      /\ Main \in Clients /\ Main \in Threads /\ Main \notin Workers
  BY ClientsAreOutside DEF TypeOK, Threads
<1>3. ASSUME NEW p \in Sleeping, NEW b, pc[t] = b, Goto(t, p),
             \/ b = "limitBlocking" /\ p = "limitAsleep"
             \/ b = "pushBlocking" /\ p = "pushAsleep"
             \/ b = "popBlocking" /\ p = "popAsleep"
             \/ b = "drainBlocking" /\ p = "drainAsleep"
      PROVE  Inv'
  <2>1. Moves(t, p)
    BY <1>3, PcsAre, GotoMoves DEF Sleeping
  <2> QED
    BY <1>1, <1>2, <1>3, <2>1, PcsAre, SameParts, QuietKeepsInv DEF Sleep, Sleeping
<1> QED
  BY <1>3 DEF Sleep, Sleeping
-----------------------------------------------------------------------------
(***************************************************************************)
(* The steps that move a task, one lemma for each.                         *)
(***************************************************************************)
\* What the step of t means for Control.
LEMMA ControlKept ==
  ASSUME Inv, NEW t \in Threads, NEW p \in Pcs, Moves(t, p), UNCHANGED <<stop, wake>>,
         t \in Workers => \/ p \in Busy /\ cur'[t] # NoTask
                          \/ p \in Free /\ cur'[t] = NoTask,
         \A w \in Workers \ {t} : cur'[w] = cur[w],
         t \in Clients => p \in Outside /\ pc[t] \notin Closing,
         pc[Main] = "join" => count' = 0
  PROVE  Control'
<1> USE DEF Inv
<1>1. \A w \in Workers : \/ pc'[w] \in Busy /\ cur'[w] # NoTask
                         \/ pc'[w] \in Free /\ cur'[w] = NoTask
  BY DEF Control, Moves, Woken, Threads, Busy, Free, Submitting, Limiting, Pushing
<1>2. \A c \in Clients : \/ pc'[c] \in Outside
                         \/ c = Main /\ pc'[c] \in Closing
  BY DEF Control, Moves, Woken, Threads, Outside, Closing, Submitting, Limiting, Pushing
<1>3. pc'[Main] \in Closing <=> pc[Main] \in Closing
  BY ClientsAreOutside
     DEF Control, Moves, Woken, Threads, Outside, Closing, Submitting, Limiting, Pushing
<1>4. /\ pc'[Main] = "join" => pc[Main] = "join"
      /\ pc'[Main] = "wakePops" => pc[Main] = "wakePops"
  BY ClientsAreOutside
     DEF Control, Moves, Woken, Threads, Outside, Submitting, Limiting, Pushing
<1>5. stop' <=> pc'[Main] \in Closing
  BY <1>3 DEF Control
<1>6. /\ stop' \/ wake' = 0
      /\ pc'[Main] = "wakePops" => wake' < PoolSize
      /\ pc'[Main] = "join" => count' = 0
  BY <1>4 DEF Control
<1> QED
  BY <1>1, <1>2, <1>5, <1>6 DEF Control

LEMMA SubmitInv ==
  ASSUME Inv, NEW t \in Threads, NEW k \in Tasks, Submit(t, k)
  PROVE  Inv'
<1> USE DEF Inv
<1>1. Moves(t, "limit") /\ "limit" \in Pcs
  BY SubmitMoves, PcsAre
<1>2. TypeOK'
  BY <1>1 DEF Submit, TypeOK, Moves, Pcs, Busy, Free, Outside, Closing, Submitting, Limiting,
              Pushing
<1>3. Control'
  <2>1. t \in Clients => pc[t] \notin Closing
    BY ClientsAreOutside DEF Submit, Home, Closing
  <2>2. t \in Workers => cur[t] # NoTask
    BY DEF Submit, Home, Control, Free
  <2> QED
    BY <1>1, <2>1, <2>2, ControlKept
       DEF Submit, Control, Busy, Outside, Submitting, Limiting
<1>4. OnePlace'
  <2>1. offer[t] = NoTask /\ k # NoTask
    BY TasksAreFinite DEF Submit, Home, OnePlace, WithOneSubmitter, Limiting, Pushing
  <2>2. \A s \in Threads : offer[s] # k
    BY TasksAreFinite DEF Submit, OnePlace, WithOneSubmitter
  <2>3. \A s \in Threads \ {t} : /\ pc'[s] \in Limiting <=> pc[s] \in Limiting
                                 /\ pc'[s] \in Pushing <=> pc[s] \in Pushing
    BY <1>1 DEF Moves, Woken, Limiting, Pushing
  <2>4. WithOneSubmitter'
    BY <1>1, <2>1, <2>2, <2>3
       DEF Submit, TypeOK, OnePlace, WithOneSubmitter, Moves, Limiting, Pushing
  <2>5. InOneQueue'
    BY <2>1, <2>2 DEF Submit, TypeOK, OnePlace, InOneQueue
  <2>6. WithOneWorker'
    BY DEF Submit, TypeOK, OnePlace, WithOneWorker
  <2>7. NotLost'
    <3>1. \A j \in Tasks : fate'[j] \in {"accepted", "running"} => fate'[j] = fate[j]
      BY DEF Submit, TypeOK
    <3>2. \A s \in Threads : offer[s] \in Tasks => offer'[s] = offer[s]
      BY <2>1, TasksAreFinite DEF Submit, TypeOK
    <3> QED
      BY <3>1, <3>2 DEF Submit, OnePlace, NotLost
  <2> QED
    BY <2>4, <2>5, <2>6, <2>7 DEF OnePlace
<1>5. CounterAccurate'
  <2>1. Unfinished' = Unfinished
    BY DEF Submit, TypeOK, Unfinished
  <2> QED
    BY <2>1 DEF Submit, CounterAccurate, Size
<1> QED
  BY <1>2, <1>3, <1>4, <1>5

LEMMA LimitRefusesInv ==
  ASSUME Inv, NEW t \in Threads, LimitRefuses(t)
  PROVE  Inv'
<1> USE DEF Inv
<1> DEFINE k == offer[t]
<1>1. Moves(t, Home(t)) /\ Home(t) \in Pcs
  BY SubmitMoves, PcsAre DEF Home
<1>2. k \in Tasks /\ k # NoTask /\ fate[k] = "offered"
  BY DEF LimitRefuses, TypeOK, OnePlace, WithOneSubmitter, Limiting
<1>3. TypeOK'
  BY <1>1, <1>2 DEF LimitRefuses, TypeOK, Moves, Pcs, Busy, Free, Outside, Closing, Submitting,
                    Limiting, Pushing
<1>4. Control'
  <2>1. pc[t] \notin Closing
    BY DEF LimitRefuses, Closing
  <2>2. t \in Workers => cur[t] # NoTask /\ Home(t) \in Busy
    BY DEF LimitRefuses, Control, Free, Busy, Home
  <2>3. t \in Clients => Home(t) \in Outside
    BY ClientsAreOutside DEF Home, Outside
  <2> QED
    BY <1>1, <2>1, <2>2, <2>3, ControlKept DEF LimitRefuses, Control
<1>5. OnePlace'
  <2>1. \A s \in Threads \ {t} : /\ offer[s] # k
                                 /\ pc'[s] \in Limiting <=> pc[s] \in Limiting
                                 /\ pc'[s] \in Pushing <=> pc[s] \in Pushing
    BY <1>1, <1>2 DEF Moves, Woken, Limiting, Pushing, OnePlace, WithOneSubmitter
  <2>2. pc'[t] \notin Limiting \cup Pushing
    BY <1>1 DEF Moves, Home, Limiting, Pushing
  <2>3. WithOneSubmitter'
    BY <1>2, <2>1, <2>2 DEF LimitRefuses, TypeOK, OnePlace, WithOneSubmitter
  <2>4. InOneQueue'
    <3>1. \A w \in Workers, l \in Levels : \A i \in DOMAIN queue[w][l] :
            queue[w][l][i] \in Tasks
      BY DEF TypeOK
    <3> QED
      BY <1>2, <3>1, TasksAreFinite DEF LimitRefuses, TypeOK, OnePlace, InOneQueue
  <2>5. WithOneWorker'
    BY <1>2 DEF LimitRefuses, TypeOK, OnePlace, WithOneWorker
  <2>6. NotLost'
    BY <1>2 DEF LimitRefuses, TypeOK, OnePlace, NotLost
  <2> QED
    BY <2>3, <2>4, <2>5, <2>6 DEF OnePlace
<1>6. CounterAccurate'
  <2>1. Unfinished' = Unfinished
    BY <1>2 DEF LimitRefuses, TypeOK, Unfinished
  <2> QED
    BY <2>1 DEF LimitRefuses, CounterAccurate, Size
<1> QED
  BY <1>3, <1>4, <1>5, <1>6

LEMMA UnfinishedIsFinite == IsFiniteSet(Unfinished) /\ Cardinality(Unfinished) \in Nat
  BY TasksAreFinite, FS_Subset, FS_CardinalityType DEF Unfinished

LEMMA LimitPassesInv ==
  ASSUME Inv, NEW t \in Threads, LimitPasses(t)
  PROVE  Inv'
<1> USE DEF Inv
<1> DEFINE k == offer[t]
<1>1. Moves(t, "route") /\ "route" \in Pcs
  BY SubmitMoves, PcsAre
<1>2. k \in Tasks /\ k # NoTask /\ fate[k] = "offered"
  BY DEF LimitPasses, TypeOK, OnePlace, WithOneSubmitter, Limiting
<1>3. TypeOK'
  BY <1>1, <1>2 DEF LimitPasses, TypeOK, Moves, Pcs, Busy, Free, Outside, Closing, Submitting,
                    Limiting, Pushing
<1>4. Control'
  <2>1. pc[Main] # "join" /\ pc[t] \notin Closing
    BY DEF LimitPasses, Control, Closing
  <2>2. t \in Workers => cur[t] # NoTask
    BY DEF LimitPasses, Control, Free
  <2> QED
    BY <1>1, <2>1, <2>2, ControlKept
       DEF LimitPasses, Control, Busy, Outside, Submitting, Pushing
<1>5. OnePlace'
  <2>1. \A s \in Threads \ {t} : /\ offer[s] # k
                                 /\ pc'[s] \in Limiting <=> pc[s] \in Limiting
                                 /\ pc'[s] \in Pushing <=> pc[s] \in Pushing
    BY <1>1, <1>2 DEF Moves, Woken, Limiting, Pushing, OnePlace, WithOneSubmitter
  <2>2. pc'[t] \in Pushing /\ pc'[t] \notin Limiting
    BY <1>1 DEF Moves, Limiting, Pushing
  <2>3. WithOneSubmitter'
    BY <1>2, <2>1, <2>2 DEF LimitPasses, TypeOK, OnePlace, WithOneSubmitter
  <2>4. InOneQueue'
    BY <1>2 DEF LimitPasses, TypeOK, OnePlace, InOneQueue
  <2>5. WithOneWorker'
    BY <1>2 DEF LimitPasses, TypeOK, OnePlace, WithOneWorker
  <2>6. NotLost'
    <3>1. \A j \in Tasks \ {k} : fate'[j] = fate[j]
      BY <1>2 DEF LimitPasses, TypeOK
    <3>2. fate'[k] = "accepted" /\ offer'[t] = k
      BY <1>2 DEF LimitPasses, TypeOK
    <3> QED
      BY <3>1, <3>2 DEF LimitPasses, OnePlace, NotLost
  <2> QED
    BY <2>3, <2>4, <2>5, <2>6 DEF OnePlace
<1>6. CounterAccurate'
  <2>1. Unfinished' = Unfinished \cup {k} /\ k \notin Unfinished
    BY <1>2 DEF LimitPasses, TypeOK, Unfinished
  <2>2. Cardinality(Unfinished') = Cardinality(Unfinished) + 1
    BY <2>1, UnfinishedIsFinite, FS_AddElement
  <2>3. count' = count + 1 /\ count' <= MaxTasks
    BY SizesAreNat DEF LimitPasses, TypeOK
  <2> QED
    BY <2>2, <2>3 DEF LimitPasses, CounterAccurate, Size
<1> QED
  BY <1>3, <1>4, <1>5, <1>6

LEMMA FinishInv ==
  ASSUME Inv, NEW w \in Workers, Finish(w)
  PROVE  Inv'
<1> USE DEF Inv
<1> DEFINE k == cur[w]
           p == IF count = 1 THEN "notifyZero" ELSE "pop"
<1>1. w \in Threads /\ w \notin Clients /\ Moves(w, p) /\ p \in Pcs
  BY WorkerMoves, PcsAre, ClientsAreOutside DEF Threads
<1>2. k \in Tasks /\ k # NoTask /\ fate[k] = "running"
  BY DEF Finish, TypeOK, Control, Free, OnePlace, WithOneWorker
<1>3. \A v \in Workers \ {w} : cur[v] # k
  BY <1>2 DEF OnePlace, WithOneWorker
<1>4. /\ Unfinished' = Unfinished \ {k} /\ k \in Unfinished
      /\ Cardinality(Unfinished') = Cardinality(Unfinished) - 1
      /\ count' = count - 1 /\ count # 0
  <2>1. Unfinished' = Unfinished \ {k} /\ k \in Unfinished
    BY <1>2 DEF Finish, TypeOK, Unfinished
  <2>2. Cardinality(Unfinished) # 0
    BY <2>1, UnfinishedIsFinite, FS_EmptySet
  <2> QED
    BY <2>1, <2>2, UnfinishedIsFinite, FS_RemoveElement DEF Finish, CounterAccurate
<1>5. TypeOK'
  BY <1>1, <1>2 DEF Finish, TypeOK, Moves, Pcs, Busy, Free, Outside, Closing, Submitting,
                    Limiting, Pushing
<1>6. Control'
  <2>1. p \in Free /\ cur'[w] = NoTask
    BY DEF Finish, Free, TypeOK
  <2>2. \A v \in Workers \ {w} : cur'[v] = cur[v]
    BY DEF Finish, TypeOK
  <2>3. pc[Main] # "join"
    BY <1>4 DEF Control
  <2> QED
    BY <1>1, <2>1, <2>2, <2>3, ControlKept DEF Finish
<1>7. OnePlace'
  <2>1. \A s \in Threads : /\ pc'[s] \in Limiting <=> pc[s] \in Limiting
                           /\ pc'[s] \in Pushing <=> pc[s] \in Pushing
    BY <1>1 DEF Finish, Moves, Woken, Limiting, Pushing
  <2>2. WithOneSubmitter'
    BY <1>2, <2>1 DEF Finish, TypeOK, OnePlace, WithOneSubmitter
  <2>3. InOneQueue'
    BY <1>2 DEF Finish, TypeOK, OnePlace, InOneQueue
  <2>4. WithOneWorker'
    BY <1>2, <1>3 DEF Finish, TypeOK, OnePlace, WithOneWorker
  <2>5. NotLost'
    <3>1. \A j \in Tasks \ {k} : fate'[j] = fate[j]
      BY <1>2 DEF Finish, TypeOK
    <3>2. fate'[k] = "done"
      BY <1>2 DEF Finish, TypeOK
    <3>3. \A v \in Workers \ {w} : cur'[v] = cur[v]
      BY DEF Finish, TypeOK
    <3> QED
      BY <3>1, <3>2, <3>3 DEF Finish, OnePlace, NotLost
  <2> QED
    BY <2>2, <2>3, <2>4, <2>5 DEF OnePlace
<1>8. CounterAccurate'
  <2>1. count' = Cardinality(Unfinished') /\ count' <= MaxTasks
    BY <1>4, SizesAreNat DEF TypeOK, CounterAccurate
  <2> QED
    BY <2>1 DEF Finish, CounterAccurate, Size
<1> QED
  BY <1>5, <1>6, <1>7, <1>8

LEMMA ShutdownInv ==
  ASSUME Inv, Shutdown
  PROVE  Inv'
<1> USE DEF Inv
<1>1. Main \in Clients /\ Main \in Threads /\ Main \notin Workers
  BY ClientsAreOutside DEF Threads
<1>2. Moves(Main, "wakePops")
  BY ShutdownMoves
<1>3. TypeOK'
  BY <1>2 DEF Shutdown, TypeOK, Moves, Pcs, Busy, Free, Outside, Closing, Submitting, Limiting,
              Pushing
<1>4. \A s \in Threads : /\ pc'[s] \in Limiting <=> pc[s] \in Limiting
                         /\ pc'[s] \in Pushing <=> pc[s] \in Pushing
  BY <1>2 DEF Shutdown, Moves, Woken, Limiting, Pushing
<1>5. OnePlace'
  BY <1>4 DEF Shutdown, OnePlace, WithOneSubmitter, InOneQueue, WithOneWorker, NotLost
<1>6. CounterAccurate'
  BY DEF Shutdown, CounterAccurate, Unfinished, Size
<1>7. Control'
  <2>1. \A w \in Workers : \/ pc'[w] \in Busy /\ cur'[w] # NoTask
                           \/ pc'[w] \in Free /\ cur'[w] = NoTask
    BY <1>1, <1>2 DEF Shutdown, Goto, TypeOK, Threads, Control
  <2>2. \A c \in Clients : \/ pc'[c] \in Outside
                           \/ c = Main /\ pc'[c] \in Closing
    BY <1>1, <1>2 DEF Shutdown, Goto, TypeOK, Threads, Control, Closing
  <2>3. stop' /\ pc'[Main] = "wakePops" /\ pc'[Main] \in Closing
    BY <1>2 DEF Shutdown, Moves, Closing
  <2>4. wake' < PoolSize
    BY <1>1, SizesAreNat DEF Shutdown, Control, Closing
  <2> QED
    BY <2>1, <2>2, <2>3, <2>4 DEF Control
<1> QED
  BY <1>3, <1>5, <1>6, <1>7

\* push: one deque gains the task at its back, the others stay.
LEMMA PushFacts ==
  ASSUME Inv, NEW t \in Threads, PushEnqueues(t)
  PROVE  /\ offer[t] \in Tasks /\ offer[t] # NoTask /\ fate[offer[t]] = "accepted"
         /\ dest[t] \in Workers
         /\ \E l \in Levels :
              LET q == queue[dest[t]][l]
              IN  /\ q \in Seq(Tasks)
                  /\ queue'[dest[t]][l] = Append(q, offer[t])
                  /\ \A v \in Workers, m \in Levels :
                       v # dest[t] \/ m # l => queue'[v][m] = queue[v][m]
         /\ queue' \in [Workers -> [Levels -> Seq(Tasks)]]
         /\ offer' = [offer EXCEPT ![t] = NoTask]
         /\ UNCHANGED <<fate, cur, count, stop, index, dest, wake>>
         /\ Moves(t, "notifyPop") /\ "notifyPop" \in Pcs
<1> USE DEF Inv
<1> DEFINE l == Level(Priority[offer[t]])
           q == queue[dest[t]][l]
<1>1. offer[t] \in Tasks /\ offer[t] # NoTask /\ fate[offer[t]] = "accepted"
  BY DEF PushEnqueues, TypeOK, OnePlace, WithOneSubmitter, Pushing
<1>2. dest[t] \in Workers /\ l \in Levels
  BY DEF TypeOK, Level, Levels
<1>3. q \in Seq(Tasks) /\ Append(q, offer[t]) \in Seq(Tasks)
  BY <1>1, <1>2, AppendElements DEF TypeOK
<1>4. queue' = [queue EXCEPT ![dest[t]][l] = Append(q, offer[t])]
  BY <1>2 DEF PushEnqueues, TypeOK
<1>5. /\ queue'[dest[t]][l] = Append(q, offer[t])
      /\ \A v \in Workers, m \in Levels :
           v # dest[t] \/ m # l => queue'[v][m] = queue[v][m]
  BY <1>2, <1>4 DEF TypeOK
<1>6. queue' \in [Workers -> [Levels -> Seq(Tasks)]]
  BY <1>2, <1>3, <1>4 DEF TypeOK
<1>7. Moves(t, "notifyPop") /\ "notifyPop" \in Pcs
  BY SubmitMoves, PcsAre
<1> QED
  BY <1>1, <1>2, <1>3, <1>5, <1>6, <1>7 DEF PushEnqueues

\* pop: one deque loses the task at its front, the others stay.
LEMMA PopFacts ==
  ASSUME Inv, NEW w \in Workers, PopTakes(w)
  PROVE  /\ cur[w] = NoTask /\ pc[w] = "pop"
         /\ \E l \in Levels :
              LET q == queue[w][l]
                  k == Head(q)
              IN  /\ q \in Seq(Tasks) /\ q # <<>>
                  /\ k \in Tasks /\ k # NoTask /\ fate[k] = "accepted"
                  /\ queue'[w][l] = Tail(q)
                  /\ \A v \in Workers, m \in Levels :
                       v # w \/ m # l => queue'[v][m] = queue[v][m]
                  /\ cur' = [cur EXCEPT ![w] = k]
                  /\ fate' = [fate EXCEPT ![k] = "running"]
         /\ queue' \in [Workers -> [Levels -> Seq(Tasks)]]
         /\ UNCHANGED <<offer, count, stop, index, dest, wake>>
         /\ Moves(w, "notifyPush") /\ "notifyPush" \in Pcs
<1> USE DEF Inv
<1> DEFINE l == FirstLevel(w)
           q == queue[w][l]
           k == Head(q)
<1>1. cur[w] = NoTask /\ pc[w] = "pop"
  BY DEF PopTakes, Control, Busy, Submitting, Limiting, Pushing
<1>2. l \in Levels /\ q \in Seq(Tasks)
  BY DEF FirstLevel, Levels, TypeOK
<1>3. q # <<>>
  <2>1. \E m \in Levels : queue[w][m] # <<>>
    <3>1. SUFFICES ASSUME \A m \in Levels : queue[w][m] = <<>>
                   PROVE  FALSE
      OBVIOUS
    <3>2. \A m \in Levels : Len(queue[w][m]) = 0
      BY <3>1
    <3>3. /\ Len(queue[w]["high"]) = 0 /\ Len(queue[w]["medium"]) = 0
          /\ Len(queue[w]["low"]) = 0
      BY <3>2 DEF Levels
    <3>4. Size(w) = 0
      BY <3>3 DEF Size
    <3> QED
      BY <3>4 DEF PopTakes
  <2> QED
    BY <2>1 DEF FirstLevel, Levels
<1>4. k \in Tasks /\ k = q[1] /\ 1 \in DOMAIN q /\ Tail(q) \in Seq(Tasks)
  BY <1>2, <1>3, TailElements
<1>5. k # NoTask /\ fate[k] = "accepted"
  BY <1>2, <1>4, TasksAreFinite DEF OnePlace, InOneQueue
<1>6. /\ queue' = [queue EXCEPT ![w][l] = Tail(q)]
      /\ cur' = [cur EXCEPT ![w] = k]
      /\ fate' = [fate EXCEPT ![k] = "running"]
  BY <1>2 DEF PopTakes, TypeOK
<1>7. /\ queue'[w][l] = Tail(q)
      /\ \A v \in Workers, m \in Levels : v # w \/ m # l => queue'[v][m] = queue[v][m]
  BY <1>2, <1>6 DEF TypeOK
<1>8. queue' \in [Workers -> [Levels -> Seq(Tasks)]]
  BY <1>2, <1>4, <1>6 DEF TypeOK
<1>9. Moves(w, "notifyPush") /\ "notifyPush" \in Pcs
  BY WorkerMoves, PcsAre
<1> QED
  BY <1>1, <1>2, <1>3, <1>4, <1>5, <1>6, <1>7, <1>8, <1>9 DEF PopTakes

LEMMA SizeIsSum ==
  ASSUME TypeOK, NEW w \in Workers
  PROVE  /\ Size(w) \in Nat
         /\ \A m \in Levels : Len(queue[w][m]) \in Nat
<1> DEFINE a(m) == Len(queue[w][m])
<1>1. \A m \in Levels : a(m) \in Nat
  BY DEF TypeOK
<1>2. a("high") \in Nat /\ a("medium") \in Nat /\ a("low") \in Nat
  BY <1>1 DEF Levels
<1>3. Size(w) = a("high") + a("medium") + a("low")
  BY DEF Size
<1>4. Size(w) \in Nat
  <2> HIDE DEF a
  <2> QED
    BY <1>2, <1>3
<1> QED
  BY <1>1, <1>4

\* When one deque of w changes its length by d, so does the size of w's queue.
LEMMA SizeChanges ==
  ASSUME TypeOK, NEW w \in Workers, NEW l \in Levels, NEW d \in {-1, 1},
         Len(queue'[w][l]) = Len(queue[w][l]) + d,
         \A v \in Workers, m \in Levels : v # w \/ m # l => queue'[v][m] = queue[v][m]
  PROVE  /\ Size(w)' = Size(w) + d
         /\ \A v \in Workers \ {w} : Size(v)' = Size(v)
<1> DEFINE a(m) == Len(queue[w][m])
           b(m) == Len(queue'[w][m])
<1>1. \/ l = "high" /\ b("high") = a("high") + d /\ b("medium") = a("medium")
                    /\ b("low") = a("low")
      \/ l = "medium" /\ b("high") = a("high") /\ b("medium") = a("medium") + d
                      /\ b("low") = a("low")
      \/ l = "low" /\ b("high") = a("high") /\ b("medium") = a("medium")
                   /\ b("low") = a("low") + d
  BY DEF Levels
<1>2. a("high") \in Nat /\ a("medium") \in Nat /\ a("low") \in Nat
  BY SizeIsSum DEF Levels
<1>3. /\ Size(w)' = b("high") + b("medium") + b("low")
      /\ Size(w) = a("high") + a("medium") + a("low")
  BY DEF Size
<1>4. \A v \in Workers \ {w} : Size(v)' = Size(v)
  BY DEF Size, Levels
<1> HIDE DEF a, b
<1> QED
  BY <1>1, <1>2, <1>3, <1>4

LEMMA PushSizes ==
  ASSUME Inv, NEW t \in Threads, PushEnqueues(t)
  PROVE  /\ \A v \in Workers : Size(v) \in Nat
         /\ \A v \in Workers : Size(v)' = IF v = dest[t] THEN Size(v) + 1 ELSE Size(v)
<1> DEFINE w == dest[t]
<1>1. w \in Workers /\ dest' = dest /\ offer[t] \in Tasks
  BY PushFacts
<1>2. PICK l \in Levels :
        /\ queue[w][l] \in Seq(Tasks)
        /\ queue'[w][l] = Append(queue[w][l], offer[t])
        /\ \A v \in Workers, m \in Levels : v # w \/ m # l => queue'[v][m] = queue[v][m]
  BY PushFacts
<1>3. Len(queue'[w][l]) = Len(queue[w][l]) + 1
  BY <1>1, <1>2, AppendElements
<1>4. ASSUME NEW u \in Workers, u = w
      PROVE  Size(u)' = Size(u) + 1 /\ \A v \in Workers \ {u} : Size(v)' = Size(v)
  BY <1>1, <1>2, <1>3, <1>4, SizeChanges DEF Inv
<1> QED
  BY <1>1, <1>4, SizeIsSum DEF Inv

LEMMA PushInv ==
  ASSUME Inv, NEW t \in Threads, PushEnqueues(t)
  PROVE  Inv'
<1> USE DEF Inv
<1> DEFINE k == offer[t]
           w == dest[t]
<1>1. /\ k \in Tasks /\ k # NoTask /\ fate[k] = "accepted" /\ w \in Workers
      /\ queue' \in [Workers -> [Levels -> Seq(Tasks)]]
      /\ offer' = [offer EXCEPT ![t] = NoTask]
      /\ UNCHANGED <<fate, cur, count, stop, index, dest, wake>>
      /\ Moves(t, "notifyPop") /\ "notifyPop" \in Pcs
  BY PushFacts
<1>2. PICK l \in Levels :
        /\ queue[w][l] \in Seq(Tasks)
        /\ queue'[w][l] = Append(queue[w][l], k)
        /\ \A v \in Workers, m \in Levels : v # w \/ m # l => queue'[v][m] = queue[v][m]
  BY PushFacts
<1> DEFINE q == queue[w][l]
<1>3. /\ Len(q) \in Nat /\ Len(queue'[w][l]) = Len(q) + 1
      /\ DOMAIN q = 1..Len(q) /\ DOMAIN queue'[w][l] = 1..(Len(q) + 1)
      /\ \A i \in 1..Len(q) : queue'[w][l][i] = q[i]
      /\ queue'[w][l][Len(q) + 1] = k
  BY <1>1, <1>2, AppendElements
<1> HIDE DEF q
<1>4. TypeOK'
  BY <1>1 DEF TypeOK, Moves, Pcs, Busy, Free, Outside, Closing, Submitting, Limiting, Pushing
<1>5. Control'
  <2>1. pc[t] = "push"
    BY DEF PushEnqueues
  <2>2. t \in Workers => cur[t] # NoTask
    BY <2>1 DEF Control, Free
  <2> QED
    BY <1>1, <2>1, <2>2, ControlKept DEF Control, Busy, Outside, Submitting, Closing
<1>6. OnePlace'
  <2>1. \A s \in Threads \ {t} : /\ offer[s] # k
                                 /\ pc'[s] \in Limiting <=> pc[s] \in Limiting
                                 /\ pc'[s] \in Pushing <=> pc[s] \in Pushing
    BY <1>1 DEF Moves, Woken, Limiting, Pushing, OnePlace, WithOneSubmitter
  <2>2. pc'[t] \notin Limiting \cup Pushing
    BY <1>1 DEF Moves, Limiting, Pushing
  <2>3. WithOneSubmitter'
    BY <1>1, <2>1, <2>2 DEF TypeOK, OnePlace, WithOneSubmitter
  <2>4. \A v \in Workers, m \in Levels : \A i \in DOMAIN queue[v][m] :
          queue[v][m][i] # k /\ queue[v][m][i] \in Tasks
    BY DEF TypeOK, OnePlace, InOneQueue
  <2>5. \A v \in Workers, m \in Levels : \A i \in DOMAIN queue'[v][m] :
          \/ i \in DOMAIN queue[v][m] /\ queue'[v][m][i] = queue[v][m][i]
          \/ v = w /\ m = l /\ i = Len(q) + 1 /\ queue'[v][m][i] = k
    <3>1. \A i \in DOMAIN queue'[w][l] :
            \/ i \in DOMAIN q /\ queue'[w][l][i] = q[i]
            \/ i = Len(q) + 1 /\ queue'[w][l][i] = k
      BY <1>3
    <3> QED
      BY <1>2, <3>1 DEF q
  <2>6. InOneQueue'
    <3>1. \A v \in Workers, m \in Levels : \A i \in DOMAIN queue'[v][m] :
            fate'[queue'[v][m][i]] = "accepted"
      BY <1>1, <2>5 DEF OnePlace, InOneQueue
    <3>2. \A v \in Workers, m \in Levels : \A i \in DOMAIN queue'[v][m] :
            \A s \in Threads : offer'[s] # queue'[v][m][i]
      BY <1>1, <2>1, <2>4, <2>5, TasksAreFinite DEF TypeOK, OnePlace, InOneQueue
    <3>3. ASSUME NEW v \in Workers, NEW m \in Levels, NEW i \in DOMAIN queue'[v][m],
                 NEW u \in Workers, NEW n \in Levels, NEW j \in DOMAIN queue'[u][n],
                 queue'[v][m][i] = queue'[u][n][j]
          PROVE  v = u /\ m = n /\ i = j
      BY <2>4, <2>5, <3>3 DEF OnePlace, InOneQueue
    <3> QED
      BY <3>1, <3>2, <3>3 DEF InOneQueue
  <2>7. WithOneWorker'
    BY <1>1 DEF OnePlace, WithOneWorker
  <2>8. NotLost'
    <3>1. \A v \in Workers, m \in Levels : \A i \in DOMAIN queue[v][m] :
            i \in DOMAIN queue'[v][m] /\ queue'[v][m][i] = queue[v][m][i]
      <4>1. \A i \in DOMAIN q : i \in DOMAIN queue'[w][l] /\ queue'[w][l][i] = q[i]
        BY <1>3
      <4> QED
        BY <1>2, <4>1 DEF q
    <3>2. \A s \in Threads : offer[s] # k => offer'[s] = offer[s]
      BY <1>1 DEF TypeOK
    <3>3. \E i \in DOMAIN queue'[w][l] : queue'[w][l][i] = k
      BY <1>3
    <3> QED
      BY <1>1, <1>2, <3>1, <3>2, <3>3 DEF OnePlace, NotLost
  <2> QED
    BY <2>3, <2>6, <2>7, <2>8 DEF OnePlace
<1>7. CounterAccurate'
  <2>1. Unfinished' = Unfinished
    BY <1>1 DEF Unfinished
  <2>2. Size(w) < QueueCap
    BY DEF PushEnqueues
  <2>3. \A v \in Workers : Size(v)' <= QueueCap
    <3>1. \A v \in Workers : Size(v)' = IF v = w THEN Size(v) + 1 ELSE Size(v)
      BY PushSizes
    <3>2. \A v \in Workers : Size(v) \in Nat /\ Size(v) <= QueueCap
      BY PushSizes DEF CounterAccurate
    <3> HIDE DEF w
    <3> QED
      BY <2>2, <3>1, <3>2, SizesAreNat
  <2> QED
    BY <1>1, <2>1, <2>3 DEF CounterAccurate
<1> QED
  BY <1>4, <1>5, <1>6, <1>7

LEMMA PopSizes ==
  ASSUME Inv, NEW w \in Workers, PopTakes(w)
  PROVE  /\ \A v \in Workers : Size(v) \in Nat
         /\ Size(w)' = Size(w) - 1
         /\ \A v \in Workers \ {w} : Size(v)' = Size(v)
<1>1. PICK l \in Levels :
        /\ queue[w][l] \in Seq(Tasks) /\ queue[w][l] # <<>>
        /\ queue'[w][l] = Tail(queue[w][l])
        /\ \A v \in Workers, m \in Levels : v # w \/ m # l => queue'[v][m] = queue[v][m]
  BY PopFacts
<1>2. Len(queue'[w][l]) = Len(queue[w][l]) + (-1)
  BY <1>1, TailElements
<1>3. /\ Size(w)' = Size(w) + (-1)
      /\ \A v \in Workers \ {w} : Size(v)' = Size(v)
  BY <1>1, <1>2, SizeChanges DEF Inv
<1> QED
  BY <1>3, SizeIsSum DEF Inv

LEMMA PopInv ==
  ASSUME Inv, NEW w \in Workers, PopTakes(w)
  PROVE  Inv'
<1> USE DEF Inv
<1>1. /\ cur[w] = NoTask /\ pc[w] = "pop" /\ w \in Threads /\ w \notin Clients
      /\ queue' \in [Workers -> [Levels -> Seq(Tasks)]]
      /\ UNCHANGED <<offer, count, stop, index, dest, wake>>
      /\ Moves(w, "notifyPush") /\ "notifyPush" \in Pcs
  BY PopFacts, ClientsAreOutside DEF Threads
<1>2. PICK l \in Levels :
        LET q == queue[w][l]
            k == Head(q)
        IN  /\ q \in Seq(Tasks) /\ q # <<>>
            /\ k \in Tasks /\ k # NoTask /\ fate[k] = "accepted"
            /\ queue'[w][l] = Tail(q)
            /\ \A v \in Workers, m \in Levels : v # w \/ m # l => queue'[v][m] = queue[v][m]
            /\ cur' = [cur EXCEPT ![w] = k]
            /\ fate' = [fate EXCEPT ![k] = "running"]
  BY PopFacts
<1> DEFINE q == queue[w][l]
           k == Head(q)
<1>3. /\ k = q[1] /\ 1 \in DOMAIN q /\ Len(queue'[w][l]) <= Len(q)
      /\ \A i \in DOMAIN queue'[w][l] :
           i \in Nat \ {0} /\ i + 1 \in DOMAIN q /\ queue'[w][l][i] = q[i + 1]
      /\ \A i \in DOMAIN q : i # 1 =>
           \E j \in DOMAIN queue'[w][l] : queue'[w][l][j] = q[i]
  BY <1>2, TailElements, TailPlaces
<1>4. /\ k \in Tasks /\ k # NoTask /\ fate[k] = "accepted"
      /\ cur' = [cur EXCEPT ![w] = k]
      /\ fate' = [fate EXCEPT ![k] = "running"]
      /\ \A v \in Workers, m \in Levels : v # w \/ m # l => queue'[v][m] = queue[v][m]
  BY <1>2
<1> HIDE DEF q, k
<1>5. TypeOK'
  BY <1>1, <1>4
     DEF TypeOK, Moves, Pcs, Busy, Free, Outside, Closing, Submitting, Limiting, Pushing
<1>6. Control'
  <2>1. cur'[w] # NoTask /\ \A v \in Workers \ {w} : cur'[v] = cur[v]
    BY <1>4 DEF TypeOK
  <2> QED
    BY <1>1, <2>1, ControlKept DEF Control, Busy
<1>7. OnePlace'
  <2>1. \A s \in Threads : /\ offer[s] # k
                           /\ pc'[s] \in Limiting <=> pc[s] \in Limiting
                           /\ pc'[s] \in Pushing <=> pc[s] \in Pushing
    <3>1. \A s \in Threads : offer[s] # k
      BY <1>2, <1>3 DEF q, OnePlace, InOneQueue
    <3> QED
      BY <1>1, <3>1 DEF Moves, Woken, Limiting, Pushing
  <2>2. \A v \in Workers, m \in Levels : \A i \in DOMAIN queue[v][m] :
          /\ queue[v][m][i] \in Tasks
          /\ queue[v][m][i] = k => v = w /\ m = l /\ i = 1
    <3>1. 1 \in DOMAIN queue[w][l] /\ queue[w][l][1] = k
      BY <1>3 DEF q
    <3> QED
      BY <3>1 DEF TypeOK, OnePlace, InOneQueue
  <2>3. \A v \in Workers, m \in Levels : \A i \in DOMAIN queue'[v][m] :
          /\ v # w \/ m # l
          /\ i \in DOMAIN queue[v][m] /\ queue'[v][m][i] = queue[v][m][i]
        \/ /\ v = w /\ m = l
           /\ i + 1 \in DOMAIN queue[v][m] /\ queue'[v][m][i] = queue[v][m][i + 1]
           /\ i \in Nat \ {0}
    <3> TAKE v \in Workers, m \in Levels
    <3>1. CASE v = w /\ m = l
      BY <1>3, <3>1 DEF q
    <3>2. CASE v # w \/ m # l
      BY <1>4, <3>2
    <3> QED
      BY <3>1, <3>2
  <2>4. \A v \in Workers, m \in Levels : \A i \in DOMAIN queue'[v][m] :
          queue'[v][m][i] \in Tasks /\ queue'[v][m][i] # k
    BY <2>2, <2>3
  <2>5. WithOneSubmitter'
    BY <1>1, <1>4, <2>1 DEF TypeOK, OnePlace, WithOneSubmitter
  <2>6. InOneQueue'
    <3>1. \A v \in Workers, m \in Levels : \A i \in DOMAIN queue'[v][m] :
            /\ fate'[queue'[v][m][i]] = "accepted"
            /\ \A s \in Threads : offer'[s] # queue'[v][m][i]
      <4>1. SUFFICES ASSUME NEW v \in Workers, NEW m \in Levels,
                            NEW i \in DOMAIN queue'[v][m]
                     PROVE  /\ fate'[queue'[v][m][i]] = "accepted"
                            /\ \A s \in Threads : offer'[s] # queue'[v][m][i]
        OBVIOUS
      <4>2. PICK j \in DOMAIN queue[v][m] : queue'[v][m][i] = queue[v][m][j]
        BY <2>3
      <4>3. /\ fate[queue[v][m][j]] = "accepted"
            /\ \A s \in Threads : offer[s] # queue[v][m][j]
        BY DEF OnePlace, InOneQueue
      <4>4. fate'[queue[v][m][j]] = fate[queue[v][m][j]]
        BY <1>4, <2>4, <4>2 DEF TypeOK
      <4> QED
        BY <1>1, <4>2, <4>3, <4>4
    <3>2. ASSUME NEW v \in Workers, NEW m \in Levels, NEW i \in DOMAIN queue'[v][m],
                 NEW u \in Workers, NEW n \in Levels, NEW j \in DOMAIN queue'[u][n],
                 queue'[v][m][i] = queue'[u][n][j]
          PROVE  v = u /\ m = n /\ i = j
      BY <2>3, <3>2 DEF OnePlace, InOneQueue
    <3> QED
      BY <3>1, <3>2 DEF InOneQueue
  <2>7. WithOneWorker'
    BY <1>1, <1>4 DEF TypeOK, OnePlace, WithOneWorker
  <2>8. NotLost'
    <3>1. \A v \in Workers, m \in Levels : \A i \in DOMAIN queue[v][m] :
            queue[v][m][i] # k =>
              \E j \in DOMAIN queue'[v][m] : queue'[v][m][j] = queue[v][m][i]
      <4> TAKE v \in Workers, m \in Levels
      <4>1. CASE v = w /\ m = l
        BY <1>3, <4>1 DEF q
      <4>2. CASE v # w \/ m # l
        BY <1>4, <4>2
      <4> QED
        BY <4>1, <4>2
    <3>2. fate'[k] = "running" /\ cur'[w] = k
      BY <1>4 DEF TypeOK
    <3>3. \A j \in Tasks \ {k} : fate'[j] = fate[j]
      BY <1>4 DEF TypeOK
    <3>4. \A v \in Workers : cur[v] # NoTask => cur'[v] = cur[v]
      BY <1>1, <1>4 DEF TypeOK
    <3>5. ASSUME NEW j \in Tasks, fate'[j] = "accepted"
          PROVE  \/ \E s \in Threads : offer'[s] = j
                 \/ \E v \in Workers, m \in Levels : \E i \in DOMAIN queue'[v][m] :
                      queue'[v][m][i] = j
      <4>1. j # k /\ fate[j] = "accepted"
        BY <3>2, <3>3, <3>5
      <4>2. CASE \E s \in Threads : offer[s] = j
        BY <1>1, <4>2
      <4>3. ASSUME NEW v \in Workers, NEW m \in Levels, NEW i \in DOMAIN queue[v][m],
                   queue[v][m][i] = j
            PROVE  \E u \in Workers, n \in Levels : \E h \in DOMAIN queue'[u][n] :
                     queue'[u][n][h] = j
        BY <3>1, <4>1, <4>3
      <4> QED
        BY <4>1, <4>2, <4>3 DEF OnePlace, NotLost
    <3>6. ASSUME NEW j \in Tasks, fate'[j] = "running"
          PROVE  \E v \in Workers : cur'[v] = j
      BY <3>2, <3>3, <3>4, <3>6, TasksAreFinite DEF OnePlace, NotLost
    <3> QED
      BY <3>5, <3>6 DEF NotLost
  <2> QED
    BY <2>5, <2>6, <2>7, <2>8 DEF OnePlace
<1>8. CounterAccurate'
  <2>1. Unfinished' = Unfinished
    BY <1>4 DEF TypeOK, Unfinished
  <2>2. \A v \in Workers : Size(v)' <= QueueCap
    BY PopSizes, SizesAreNat DEF CounterAccurate
  <2> QED
    BY <1>1, <2>1, <2>2, SizesAreNat DEF CounterAccurate
<1> QED
  BY <1>5, <1>6, <1>7, <1>8
-----------------------------------------------------------------------------
LEMMA InitInv == Init => Inv
<1> SUFFICES ASSUME Init PROVE Inv
  OBVIOUS
<1> USE DEF Init
<1>1. TypeOK
  <2>1. 0 \in Workers /\ 0 \in 0..PoolSize
    BY SizesAreNat DEF Workers
  <2>2. queue \in [Workers -> [Levels -> Seq(Tasks)]]
    <3>1. <<>> \in Seq(Tasks)
      OBVIOUS
    <3> QED
      BY <3>1
  <2>3. pc \in [Threads -> {"idle", "pop"}]
    OBVIOUS
  <2>4. /\ offer \in [Threads -> Tasks \cup {NoTask}] /\ cur \in [Workers -> Tasks \cup {NoTask}]
        /\ dest \in [Threads -> Workers] /\ fate \in [Tasks -> {"new"}]
    BY <2>1
  <2>5. count \in Int /\ index \in Workers /\ wake \in 0..PoolSize
    BY <2>1
  <2>6. stop \in BOOLEAN
    BY Zenon
  <2> HIDE DEF Init
  <2> QED
    BY <2>2, <2>3, <2>4, <2>5, <2>6 DEF TypeOK
<1>2. Control
  BY ClientsAreOutside, SizesAreNat DEF Control, Threads, Free, Outside, Closing
<1>3. OnePlace
  <2>1. WithOneSubmitter
    BY DEF WithOneSubmitter, Limiting, Pushing
  <2> QED
    BY <2>1 DEF OnePlace, InOneQueue, WithOneWorker, NotLost
<1>4. CounterAccurate
  <2>1. Unfinished = {}
    BY DEF Unfinished
  <2>2. \A w \in Workers : Size(w) = 0
    BY DEF Size, Levels
  <2> QED
    BY <2>1, <2>2, FS_EmptySet, SizesAreNat DEF CounterAccurate
<1> QED
  BY <1>1, <1>2, <1>3, <1>4 DEF Inv

LEMMA StepInv == Inv /\ [Next]_vars => Inv'
<1> SUFFICES ASSUME Inv, [Next]_vars PROVE Inv'
  OBVIOUS
<1>1. CASE \E t \in Threads, k \in Tasks : Submit(t, k)
  BY <1>1, SubmitInv
<1>2. ASSUME NEW t \in Threads, SubmitStep(t)
      PROVE  Inv'
  BY <1>2, LimitRefusesInv, LimitPassesInv, PushInv, QuietSubmit DEF SubmitStep
<1>3. ASSUME NEW t \in Threads, Sleep(t)
      PROVE  Inv'
  BY <1>3, QuietSleep
<1>4. ASSUME NEW w \in Workers, WorkerStep(w)
      PROVE  Inv'
  BY <1>4, PopInv, FinishInv, QuietWorker DEF WorkerStep
<1>5. CASE Shutdown
  BY <1>5, ShutdownInv
<1>6. CASE ShutdownStep
  BY <1>6, QuietShutdown
<1>7. CASE UNCHANGED vars
  <2> USE <1>7 DEF vars, Inv
  <2>1. TypeOK'
    BY DEF TypeOK
  <2>2. Control'
    BY DEF Control
  <2>3. OnePlace'
    BY DEF OnePlace, WithOneSubmitter, InOneQueue, WithOneWorker, NotLost
  <2>4. CounterAccurate'
    BY DEF CounterAccurate, Unfinished, Size
  <2> QED
    BY <2>1, <2>2, <2>3, <2>4
<1> QED
  BY <1>1, <1>2, <1>3, <1>4, <1>5, <1>6, <1>7 DEF Next

LEMMA AlwaysInv == Spec => []Inv
<1> QED
  BY InitInv, StepInv, PTL DEF Spec

\* Every variable keeps its type, whatever the threads do.
THEOREM TypesAreKept == Spec => []TypeOK
<1>1. Inv => TypeOK
  BY DEF Inv
<1> QED
  BY <1>1, AlwaysInv, PTL

\* No task is lost, doubled or run twice between submit and the end of its
\* run (submit, push, pop and DoWork).
THEOREM NoTaskIsLost == Spec => []OnePlace
<1>1. Inv => OnePlace
  BY DEF Inv
<1> QED
  BY <1>1, AlwaysInv, PTL

\* task_count counts the unfinished tasks, and neither it nor a queue ever
\* passes its limit (submit, the wrapper it pushes, and WorkQueue).
THEOREM CountIsRight == Spec => []CounterAccurate
<1>1. Inv => CounterAccurate
  BY DEF Inv
<1> QED
  BY <1>1, AlwaysInv, PTL
-----------------------------------------------------------------------------
(***************************************************************************)
(* ThreadPool implements TaskPool, for every value of the constants: its   *)
(* queues, mutexes and condition variables do not change what the pool     *)
(* promises about the tasks it is given.                                   *)
(***************************************************************************)
\* The state of TaskPool that a state of ThreadPool stands for.
AbstractFate == [k \in Tasks |-> IF fate[k] = "offered" THEN "new" ELSE fate[k]]
Returned == pc[Main] = "returned"

LEMMA PromiseVars == Promise!vars = <<AbstractFate, cur, stop, Returned>>
  BY DEF Promise!vars, AbstractFate, Returned

LEMMA PromiseUnfinished == Promise!Unfinished = Unfinished
  BY DEF Promise!Unfinished, Unfinished

LEMMA PromiseCardinality == \A S : Promise!Cardinality(S) = Cardinality(S)
  BY DEF Promise!Cardinality, Cardinality

\* Only Join makes shutdown return, and it never comes back from there.
LEMMA ReturnedKept ==
  ASSUME NEW t \in Threads, NEW p \in Pcs, Moves(t, p),
         pc[t] # "returned", p # "returned"
  PROVE  Returned' <=> Returned
  BY ClientsAreOutside DEF Moves, Woken, Returned, Threads

\* The steps that TaskPool does not see.
LEMMA Stutters ==
  ASSUME Inv, NEW t \in Threads, NEW p \in Pcs, Moves(t, p),
         pc[t] # "returned", p # "returned",
         AbstractFate' = AbstractFate, UNCHANGED <<cur, stop>>
  PROVE  UNCHANGED Promise!vars
<1>1. Returned' = Returned
  BY ReturnedKept, Zenon DEF Returned
<1> QED
  BY <1>1 DEF Promise!vars, AbstractFate, Returned

LEMMA AcceptRefines ==
  ASSUME Inv, NEW t \in Threads, LimitPasses(t)
  PROVE  Promise!Next
<1>1. PICK k \in Tasks : k = offer[t] /\ fate[k] = "offered"
  BY DEF Inv, LimitPasses, TypeOK, OnePlace, WithOneSubmitter, Limiting
<1>2. Returned' <=> Returned
  BY SubmitMoves, PcsAre, ReturnedKept DEF LimitPasses, Inv
<1>3. AbstractFate[k] = "new" /\ AbstractFate' = [AbstractFate EXCEPT ![k] = "accepted"]
  BY <1>1 DEF LimitPasses, AbstractFate, Inv, TypeOK
<1>4. Cardinality(Promise!Unfinished) < MaxTasks
  BY PromiseUnfinished DEF LimitPasses, Inv, CounterAccurate
<1>5. ~stop /\ UNCHANGED <<cur, stop>>
  BY DEF LimitPasses
<1>6. Promise!Accept(k)
  BY <1>2, <1>3, <1>4, <1>5, PromiseCardinality DEF Promise!Accept, AbstractFate, Returned
<1> QED
  BY <1>6 DEF Promise!Next

LEMMA RefuseRefines ==
  ASSUME Inv, NEW t \in Threads, LimitRefuses(t)
  PROVE  Promise!Next
<1>1. PICK k \in Tasks : k = offer[t] /\ fate[k] = "offered"
  BY DEF Inv, LimitRefuses, TypeOK, OnePlace, WithOneSubmitter, Limiting
<1>2. Returned' <=> Returned
  <2>1. Moves(t, Home(t)) /\ Home(t) \in Pcs /\ Home(t) # "returned"
    BY SubmitMoves, PcsAre DEF Home, Inv
  <2> QED
    BY <2>1, ReturnedKept DEF LimitRefuses
<1>3. AbstractFate[k] = "new" /\ AbstractFate' = [AbstractFate EXCEPT ![k] = "refused"]
  BY <1>1 DEF LimitRefuses, AbstractFate, Inv, TypeOK
<1>4. Promise!Refuse(k)
  BY <1>2, <1>3 DEF Promise!Refuse, LimitRefuses, AbstractFate, Returned
<1> QED
  BY <1>4 DEF Promise!Next

LEMMA StartRefines ==
  ASSUME Inv, NEW w \in Workers, PopTakes(w)
  PROVE  Promise!Next
<1>1. PICK k \in Tasks : /\ fate[k] = "accepted"
                         /\ cur' = [cur EXCEPT ![w] = k]
                         /\ fate' = [fate EXCEPT ![k] = "running"]
  BY PopFacts
<1>2. /\ cur[w] = NoTask /\ stop' = stop /\ pc[w] = "pop" /\ w \in Threads
      /\ Moves(w, "notifyPush") /\ "notifyPush" \in Pcs
  BY PopFacts DEF Threads
<1>3. Returned' <=> Returned
  BY <1>2, ReturnedKept
<1>4. AbstractFate[k] = "accepted" /\ AbstractFate' = [AbstractFate EXCEPT ![k] = "running"]
  BY <1>1 DEF AbstractFate, Inv, TypeOK
<1>5. Promise!Start(w, k)
  BY <1>1, <1>2, <1>3, <1>4 DEF Promise!Start, AbstractFate, Returned
<1> QED
  BY <1>1, <1>5 DEF Promise!Next

LEMMA FinishRefines ==
  ASSUME Inv, NEW w \in Workers, Finish(w)
  PROVE  Promise!Next
<1> DEFINE k == cur[w]
           p == IF count = 1 THEN "notifyZero" ELSE "pop"
<1>1. /\ k \in Tasks /\ k # NoTask /\ fate[k] = "running"
      /\ Moves(w, p) /\ p \in Pcs /\ p # "returned" /\ w \in Threads
  BY WorkerMoves, PcsAre
     DEF Finish, Inv, TypeOK, Control, Free, OnePlace, WithOneWorker, Threads
<1>2. Returned' <=> Returned
  BY <1>1, ReturnedKept DEF Finish
<1>3. AbstractFate' = [AbstractFate EXCEPT ![k] = "done"]
  BY <1>1 DEF Finish, AbstractFate, Inv, TypeOK
<1>4. Promise!Finish(w)
  BY <1>1, <1>2, <1>3 DEF Promise!Finish, Finish, AbstractFate, Returned
<1> QED
  BY <1>4 DEF Promise!Next

LEMMA CloseRefines ==
  ASSUME Inv, Shutdown
  PROVE  Promise!Next
<1>1. ~stop /\ stop' = TRUE
  BY DEF Shutdown, Inv, Control, Closing
<1>2. Returned' <=> Returned
  BY ShutdownMoves, PcsAre, ReturnedKept DEF Shutdown, Inv
<1>3. Promise!Close
  BY <1>1, <1>2 DEF Promise!Close, Shutdown, Returned
<1> QED
  BY <1>3 DEF Promise!Next

LEMMA ReturnRefines ==
  ASSUME Inv, Join
  PROVE  Promise!Next
<1>1. stop /\ ~Returned /\ count = 0
  BY DEF Join, Inv, Control, Closing, Returned
<1>2. Returned'
  BY ShutdownMoves DEF Join, Inv, Moves, Returned
<1>3. Promise!Unfinished = {}
  BY <1>1, UnfinishedIsFinite, FS_EmptySet, PromiseUnfinished DEF Inv, CounterAccurate
<1>4. Promise!Return
  BY <1>1, <1>2, <1>3 DEF Promise!Return, Join, Returned
<1> QED
  BY <1>4 DEF Promise!Next

LEMMA SubmitStutters ==
  ASSUME Inv, NEW t \in Threads,
         \/ \E k \in Tasks : Submit(t, k)
         \/ LimitFails(t) \/ Route(t) \/ PushEnqueues(t) \/ PushFails(t)
         \/ NotifyPop(t) \/ NotifySubmit(t)
         \/ Sleep(t)
  PROVE  UNCHANGED Promise!vars
<1>1. TypeOK /\ Home(t) \in Pcs /\ Home(t) # "returned"
  BY PcsAre DEF Inv, Home
<1>2. PICK p \in Pcs \ {"returned"} : Moves(t, p)
  <2>1. CASE Sleep(t)
    BY <1>1, <2>1, GotoMoves, PcsAre DEF Sleep
  <2> QED
    BY <1>1, <2>1, SubmitMoves, PcsAre
<1>3. pc[t] # "returned"
  BY DEF Submit, LimitFails, Route, PushEnqueues, PushFails, NotifyPop, NotifySubmit, Sleep,
         Home
<1>4. UNCHANGED <<cur, stop>>
  BY DEF Submit, LimitFails, Route, PushEnqueues, PushFails, NotifyPop, NotifySubmit, Sleep
<1>5. AbstractFate' = AbstractFate
  <2>1. CASE \E k \in Tasks : Submit(t, k)
    BY <2>1 DEF Submit, AbstractFate, Inv, TypeOK
  <2>2. CASE fate' = fate
    BY <2>2 DEF AbstractFate
  <2> QED
    BY <2>1, <2>2
       DEF LimitFails, Route, PushEnqueues, PushFails, NotifyPop, NotifySubmit, Sleep
<1> QED
  BY <1>2, <1>3, <1>4, <1>5, Stutters

LEMMA WorkerStutters ==
  ASSUME Inv, NEW w \in Workers,
         PopExits(w) \/ PopFails(w) \/ NotifyPush(w) \/ NotifyZero(w)
  PROVE  UNCHANGED Promise!vars
<1>1. PICK p \in Pcs \ {"returned"} : Moves(w, p)
  BY WorkerMoves, PcsAre DEF Inv
<1>2. w \in Threads /\ pc[w] # "returned" /\ UNCHANGED <<cur, stop, fate>>
  BY DEF PopExits, PopFails, NotifyPush, NotifyZero, Threads
<1> QED
  BY <1>1, <1>2, Stutters DEF AbstractFate

LEMMA ShutdownStutters ==
  ASSUME Inv, WakePops \/ WakeSubmitters \/ DrainPasses \/ DrainFails
  PROVE  UNCHANGED Promise!vars
<1>1. TypeOK /\ Main \in Threads
  BY ShutdownMoves DEF Inv
<1>2. PICK p \in Pcs \ {"returned"} : Moves(Main, p)
  <2>1. CASE WakePops
    <3>1. wake \in Workers
      BY <2>1, SizesAreNat DEF Inv, Control, TypeOK, WakePops, Workers
    <3> QED
      BY <1>1, <2>1, <3>1, ShutdownMoves, PcsAre
  <2> QED
    BY <1>1, <2>1, ShutdownMoves, PcsAre
<1>3. pc[Main] # "returned" /\ UNCHANGED <<cur, stop, fate>>
  BY DEF WakePops, WakeSubmitters, DrainPasses, DrainFails
<1> QED
  BY <1>1, <1>2, <1>3, Stutters DEF AbstractFate

LEMMA StepRefines == Inv /\ [Next]_vars => [Promise!Next]_(Promise!vars)
<1> SUFFICES ASSUME Inv, [Next]_vars PROVE Promise!Next \/ UNCHANGED Promise!vars
  OBVIOUS
<1>1. ASSUME NEW t \in Threads, SubmitStep(t)
      PROVE  Promise!Next \/ UNCHANGED Promise!vars
  BY <1>1, AcceptRefines, RefuseRefines, SubmitStutters DEF SubmitStep
<1>2. ASSUME NEW t \in Threads, Sleep(t) \/ \E k \in Tasks : Submit(t, k)
      PROVE  UNCHANGED Promise!vars
  BY <1>2, SubmitStutters
<1>3. ASSUME NEW w \in Workers, WorkerStep(w)
      PROVE  Promise!Next \/ UNCHANGED Promise!vars
  BY <1>3, StartRefines, FinishRefines, WorkerStutters DEF WorkerStep
<1>4. CASE Shutdown \/ ShutdownStep
  BY <1>4, CloseRefines, ReturnRefines, ShutdownStutters DEF ShutdownStep
<1>5. CASE UNCHANGED vars
  BY <1>5 DEF vars, Promise!vars
<1> QED
  BY <1>1, <1>2, <1>3, <1>4, <1>5 DEF Next

\* The pool keeps TaskPool's promises: every accepted task is run once by one
\* worker, never more than MaxTasks are unfinished, nothing is accepted after
\* shutdown begins, and shutdown returns only when everything accepted is run.
THEOREM PoolRefinesTaskPool == Spec => Refines
<1>1. Init => Promise!Init
  BY ClientsAreOutside DEF Init, Promise!Init, Threads
<1>2. Inv /\ [Next]_vars => [Promise!Next]_(Promise!vars)
  BY StepRefines
<1> QED
  BY <1>1, <1>2, AlwaysInv, PTL DEF Spec, Refines, Promise!Spec
-----------------------------------------------------------------------------
(***************************************************************************)
(* No worker sleeps on work and no submitter sleeps on room.               *)
(*                                                                         *)
(* NoSleepOnWork is inductive once it is known that a worker about to      *)
(* sleep still sees an empty queue.  NoSleepOnRoom is not: one pop         *)
(* notifies one submitter, so what must be kept is a count.  EnoughWoken   *)
(* says that there are at least as many submitters about to test a queue   *)
(* (or about to be notified) as the queue has free places, for as long as  *)
(* some submitter sleeps.                                                  *)
(***************************************************************************)
\* The submitters that will next test the queue of w.
Awake(w) == {t \in Threads : pc[t] = "push" /\ dest[t] = w}

Room(w) == QueueCap - Size(w)

\* The worker of w has made a place and is about to notify a submitter.
Pending(w) == IF pc[w] = "notifyPush" THEN 1 ELSE 0

Enough(w) == NotFull(w) # {} => Cardinality(Awake(w)) + Pending(w) >= Room(w)

EnoughWoken == \A w \in Workers : Enough(w)

PopBlockingSawEmpty == \A w \in Workers : pc[w] = "popBlocking" => Size(w) = 0
PushBlockingSawFull == \A t \in Threads : pc[t] = "pushBlocking" => Room(dest[t]) <= 0
-----------------------------------------------------------------------------
(***************************************************************************)
(* Sets of threads are finite, so they can be counted.                     *)
(***************************************************************************)
LEMMA ThreadSets ==
  ASSUME NEW S \in SUBSET Threads
  PROVE  /\ IsFiniteSet(S) /\ Cardinality(S) \in Nat
         /\ \A T \in SUBSET S : Cardinality(T) \in Nat /\ Cardinality(T) <= Cardinality(S)
         /\ \A t \in S : Cardinality(S \ {t}) = Cardinality(S) - 1
         /\ \A t \in Threads \ S : Cardinality(S \cup {t}) = Cardinality(S) + 1
<1>1. IsFiniteSet(Workers)
  BY SizesAreNat, FS_Interval DEF Workers
<1>2. IsFiniteSet(Threads)
  BY <1>1, ClientsAreFinite, FS_Union DEF Threads
<1>3. IsFiniteSet(S)
  BY <1>2, FS_Subset
<1>4. Cardinality(S) \in Nat
  BY <1>3, FS_CardinalityType
<1>5. \A T \in SUBSET S : Cardinality(T) \in Nat /\ Cardinality(T) <= Cardinality(S)
  BY <1>3, FS_Subset, FS_CardinalityType
<1>6. \A t \in S : Cardinality(S \ {t}) = Cardinality(S) - 1
  BY <1>3, FS_RemoveElement
<1>7. \A t \in Threads \ S : Cardinality(S \cup {t}) = Cardinality(S) + 1
  BY <1>3, FS_AddElement
<1> QED
  BY <1>3, <1>4, <1>5, <1>6, <1>7

\* What a step of t may change of where the other threads wait.
LEMMA OthersWait ==
  ASSUME NEW t \in Threads, NEW p \in Pcs, Moves(t, p), NEW s \in Threads \ {t}
  PROVE  /\ pc[s] = "push" => pc'[s] = "push"
         /\ pc'[s] = "notifyPop" <=> pc[s] = "notifyPop"
         /\ pc'[s] = "notifyPush" <=> pc[s] = "notifyPush"
         /\ pc'[s] = "pushBlocking" <=> pc[s] = "pushBlocking"
         /\ pc'[s] = "popBlocking" <=> pc[s] = "popBlocking"
         /\ pc'[s] = "pushAsleep" => pc[s] = "pushAsleep"
         /\ pc'[s] = "popAsleep" => pc[s] = "popAsleep"
  BY DEF Moves, Woken

LEMMA RoomIsInt ==
  ASSUME Inv, NEW w \in Workers
  PROVE  Size(w) \in Nat /\ Room(w) \in Int /\ w \in Threads /\ Awake(w) \in SUBSET Threads
  BY SizeIsSum, SizesAreNat DEF Inv, Room, Threads, Awake
-----------------------------------------------------------------------------
(***************************************************************************)
(* The workers' side.                                                      *)
(***************************************************************************)
PopSide == NoSleepOnWork /\ PopBlockingSawEmpty

\* A step that neither notifies a worker nor puts one to sleep.
LEMMA PopSideKept ==
  ASSUME PopSide, NEW t \in Threads, NEW p \in Pcs, Moves(t, p), UNCHANGED queue,
         \A s \in Threads \ {t} : dest'[s] = dest[s],
         pc[t] # "notifyPop", p \notin {"popBlocking", "popAsleep"}
  PROVE  PopSide'
<1>1. \A w \in Workers : Size(w)' = Size(w) /\ w \in Threads
  BY DEF Size, Threads
<1>2. PopBlockingSawEmpty'
  BY <1>1, OthersWait DEF PopSide, PopBlockingSawEmpty, Moves
<1>3. NoSleepOnWork'
  <2>1. SUFFICES ASSUME NEW w \in Workers, pc'[w] = "popAsleep", Size(w)' > 0
                 PROVE  \E s \in Threads : pc'[s] = "notifyPop" /\ dest'[s] = w
    BY DEF NoSleepOnWork
  <2>2. w # t /\ pc[w] = "popAsleep"
    BY <1>1, <2>1, OthersWait DEF Moves
  <2>3. PICK s \in Threads : pc[s] = "notifyPop" /\ dest[s] = w
    BY <1>1, <2>1, <2>2 DEF PopSide, NoSleepOnWork
  <2> QED
    BY <2>3, OthersWait
<1> QED
  BY <1>2, <1>3 DEF PopSide

\* push adds to a queue whose worker may sleep, and is about to notify it.
LEMMA PushPopSide ==
  ASSUME Inv, PopSide, NEW t \in Threads, PushEnqueues(t)
  PROVE  PopSide'
<1>1. Moves(t, "notifyPop") /\ "notifyPop" \in Pcs /\ dest' = dest /\ dest[t] \in Workers
  BY PushFacts
<1>2. \A w \in Workers : /\ Size(w) \in Nat /\ w \in Threads
                         /\ w # dest[t] => Size(w)' = Size(w)
  BY PushSizes DEF Threads
<1>3. PopBlockingSawEmpty'
  <2>1. SUFFICES ASSUME NEW w \in Workers, pc'[w] = "popBlocking" PROVE Size(w)' = 0
    BY DEF PopBlockingSawEmpty
  <2>2. w # t /\ pc[w] = "popBlocking"
    BY <1>1, <1>2, <2>1, OthersWait DEF Moves
  <2>3. w # dest[t]
    BY <1>2, <2>2 DEF PushEnqueues, QueueMtx
  <2> QED
    BY <1>2, <2>2, <2>3 DEF PopSide, PopBlockingSawEmpty
<1>4. NoSleepOnWork'
  <2>1. SUFFICES ASSUME NEW w \in Workers, pc'[w] = "popAsleep", Size(w)' > 0
                 PROVE  \E s \in Threads : pc'[s] = "notifyPop" /\ dest'[s] = w
    BY DEF NoSleepOnWork
  <2>2. CASE w = dest[t]
    BY <1>1, <2>2 DEF Moves
  <2>3. CASE w # dest[t]
    <3>1. pc[w] = "popAsleep"
      BY <1>1, <1>2, <2>1, OthersWait DEF Moves
    <3>2. PICK s \in Threads : pc[s] = "notifyPop" /\ dest[s] = w
      BY <1>2, <2>1, <2>3, <3>1 DEF PopSide, NoSleepOnWork
    <3>3. s # t
      BY <3>2 DEF PushEnqueues
    <3> QED
      BY <1>1, <3>2, <3>3, OthersWait
  <2> QED
    BY <2>2, <2>3
<1> QED
  BY <1>3, <1>4 DEF PopSide

\* The notification of push wakes the worker if it sleeps.
LEMMA NotifyPopPopSide ==
  ASSUME Inv, PopSide, NEW t \in Threads, NotifyPop(t)
  PROVE  PopSide'
<1>1. /\ Moves(t, "notifySubmit") /\ "notifySubmit" \in Pcs
      /\ dest' = dest /\ queue' = queue /\ pc[t] = "notifyPop"
  BY SubmitMoves, PcsAre DEF NotifyPop, Inv
<1>2. \A w \in Workers : Size(w)' = Size(w) /\ w \in Threads
  BY <1>1 DEF Size, Threads
<1>3. PopBlockingSawEmpty'
  BY <1>1, <1>2, OthersWait DEF PopSide, PopBlockingSawEmpty, Moves
<1>4. NoSleepOnWork'
  <2>1. SUFFICES ASSUME NEW w \in Workers, pc'[w] = "popAsleep", Size(w)' > 0
                 PROVE  \E s \in Threads : pc'[s] = "notifyPop" /\ dest'[s] = w
    BY DEF NoSleepOnWork
  <2>2. w # t /\ pc[w] = "popAsleep"
    BY <1>1, <1>2, <2>1, OthersWait DEF Moves
  <2>3. w # dest[t]
    <3>1. SUFFICES ASSUME w = dest[t] PROVE FALSE
      OBVIOUS
    <3>2. NotEmpty(dest[t]) = {w}
      BY <1>2, <2>2, <3>1 DEF NotEmpty
    <3>3. pc' = [pc EXCEPT ![t] = "notifySubmit", ![w] = Retest[pc[w]]]
      BY <3>2 DEF NotifyPop, NotifyOne
    <3>4. pc'[w] = "pop"
      BY <1>2, <2>2, <3>3, RetestWakes DEF Inv, TypeOK
    <3> QED
      BY <2>1, <3>4
  <2>4. PICK s \in Threads : pc[s] = "notifyPop" /\ dest[s] = w
    BY <1>2, <2>1, <2>2 DEF PopSide, NoSleepOnWork
  <2>5. s # t
    BY <2>3, <2>4
  <2> QED
    BY <1>1, <2>4, <2>5, OthersWait
<1> QED
  BY <1>3, <1>4 DEF PopSide

\* pop takes from the queue of a worker that is awake.
LEMMA PopPopSide ==
  ASSUME Inv, PopSide, NEW w \in Workers, PopTakes(w)
  PROVE  PopSide'
<1>1. Moves(w, "notifyPush") /\ "notifyPush" \in Pcs /\ dest' = dest /\ w \in Threads
  BY PopFacts DEF Threads
<1>2. \A v \in Workers : v \in Threads /\ (v # w => Size(v)' = Size(v))
  BY PopSizes DEF Threads
<1>3. \A v \in Workers : pc'[v] \in {"popAsleep", "popBlocking"} =>
                           v # w /\ pc[v] = pc'[v]
  BY <1>1, <1>2, OthersWait DEF Moves
<1>4. PopBlockingSawEmpty'
  BY <1>2, <1>3 DEF PopSide, PopBlockingSawEmpty
<1>5. \A s \in Threads : pc[s] = "notifyPop" => pc'[s] = "notifyPop"
  BY <1>1, OthersWait DEF PopTakes
<1>6. NoSleepOnWork'
  BY <1>1, <1>2, <1>3, <1>5 DEF PopSide, NoSleepOnWork
<1> QED
  BY <1>4, <1>6 DEF PopSide

\* A worker falls asleep on an empty queue.
LEMMA SleepPopSide ==
  ASSUME Inv, PopSide, NEW w \in Workers,
         \/ PopFails(w)
         \/ pc[w] = "popBlocking" /\ Sleep(w)
  PROVE  PopSide'
<1>1. PICK p \in {"popBlocking", "popAsleep"} : Moves(w, p) /\ p \in Pcs
  <2>1. w \in Threads /\ TypeOK
    BY DEF Threads, Inv
  <2>2. CASE PopFails(w)
    BY <2>1, <2>2, WorkerMoves, PcsAre
  <2>3. CASE pc[w] = "popBlocking" /\ Sleep(w)
    BY <2>1, <2>3, GotoMoves, PcsAre DEF Sleep
  <2> QED
    BY <2>2, <2>3
<1>2. queue' = queue /\ dest' = dest /\ pc[w] # "notifyPop" /\ w \in Threads
  BY DEF PopFails, Sleep, Threads
<1>3. \A v \in Workers : Size(v)' = Size(v) /\ v \in Threads
  BY <1>2 DEF Size, Threads
<1>4. Size(w) = 0
  BY DEF PopFails, PopSide, PopBlockingSawEmpty
<1>5. \A v \in Workers \ {w} : pc'[v] \in {"popAsleep", "popBlocking"} => pc[v] = pc'[v]
  BY <1>1, <1>2, <1>3, OthersWait
<1>6. \A s \in Threads : pc[s] = "notifyPop" => pc'[s] = "notifyPop"
  BY <1>1, <1>2, OthersWait
<1>7. PopBlockingSawEmpty'
  BY <1>3, <1>4, <1>5 DEF PopSide, PopBlockingSawEmpty
<1>8. NoSleepOnWork'
  BY <1>2, <1>3, <1>4, <1>5, <1>6 DEF PopSide, NoSleepOnWork
<1> QED
  BY <1>7, <1>8 DEF PopSide
-----------------------------------------------------------------------------
(***************************************************************************)
(* The submitters' side.                                                   *)
(***************************************************************************)
PushSide == EnoughWoken /\ PushBlockingSawFull

\* Nobody has gone to sleep on the queue, and nothing else got worse.
LEMMA EnoughKept ==
  ASSUME NEW w \in Workers, Enough(w),
         NotFull(w)' # {} => NotFull(w) # {},
         Room(w) \in Int, Room(w)' = Room(w),
         Awake(w)' \in SUBSET Threads, Awake(w) \in SUBSET Awake(w)',
         Pending(w)' >= Pending(w)
  PROVE  Enough(w)'
<1>1. /\ Cardinality(Awake(w)) \in Nat /\ Cardinality(Awake(w)') \in Nat
      /\ Cardinality(Awake(w)) <= Cardinality(Awake(w)')
  BY ThreadSets
<1>2. Pending(w) \in Nat /\ Pending(w)' \in Nat
  BY DEF Pending
<1> QED
  BY <1>1, <1>2 DEF Enough

\* A step that leaves the queue of w alone, and whose thread neither was in
\* one of the counts of w nor falls asleep on it.
LEMMA OneQueueKept ==
  ASSUME Inv, NEW t \in Threads, NEW p \in Pcs, Moves(t, p),
         \A s \in Threads \ {t} : dest'[s] = dest[s],
         NEW w \in Workers, Size(w)' = Size(w), Enough(w),
         pc[t] = "push" => dest[t] # w,
         pc[t] = "notifyPush" => t # w,
         p = "pushAsleep" => dest'[t] # w
  PROVE  Enough(w)'
<1>1. Room(w) \in Int /\ Room(w)' = Room(w) /\ w \in Threads
  BY RoomIsInt DEF Room
<1>2. NotFull(w)' \subseteq NotFull(w)
  BY OthersWait DEF NotFull, Moves
<1>3. Awake(w)' \in SUBSET Threads /\ Awake(w) \in SUBSET Awake(w)'
  BY OthersWait DEF Awake
<1>4. Pending(w)' >= Pending(w)
  BY <1>1, OthersWait DEF Pending
<1> QED
  BY <1>1, <1>2, <1>3, <1>4, EnoughKept

LEMMA PushSideKept ==
  ASSUME Inv, PushSide, NEW t \in Threads, NEW p \in Pcs, Moves(t, p), UNCHANGED queue,
         \A s \in Threads \ {t} : dest'[s] = dest[s],
         pc[t] \notin {"push", "notifyPush"}, p \notin {"pushBlocking", "pushAsleep"}
  PROVE  PushSide'
<1>1. \A w \in Workers : Size(w)' = Size(w)
  BY DEF Size
<1>2. EnoughWoken'
  BY <1>1, OneQueueKept DEF PushSide, EnoughWoken
<1>3. PushBlockingSawFull'
  <2>1. SUFFICES ASSUME NEW s \in Threads, pc'[s] = "pushBlocking"
                 PROVE  Room(dest[s])' <= 0
    BY DEF PushBlockingSawFull
  <2>2. s # t /\ pc[s] = "pushBlocking" /\ dest'[s] = dest[s] /\ dest[s] \in Workers
    BY <2>1, OthersWait DEF Moves, Inv, TypeOK
  <2> QED
    BY <1>1, <2>2 DEF PushSide, PushBlockingSawFull, Room
<1> QED
  BY <1>2, <1>3 DEF PushSide

\* A submitter that was woken takes a place.
LEMMA PushPushSide ==
  ASSUME Inv, PushSide, NEW t \in Threads, PushEnqueues(t)
  PROVE  PushSide'
<1> DEFINE u == dest[t]
<1>1. /\ Moves(t, "notifyPop") /\ "notifyPop" \in Pcs /\ dest' = dest /\ u \in Workers
      /\ pc[t] = "push"
  BY PushFacts DEF PushEnqueues
<1>2. \A w \in Workers : Size(w)' = IF w = u THEN Size(w) + 1 ELSE Size(w)
  BY PushSizes
<1>3. Enough(u)'
  <2>1. Room(u) \in Int /\ Room(u)' = Room(u) - 1
    <3>1. Size(u)' = Size(u) + 1 /\ Size(u) \in Nat
      BY <1>1, <1>2, RoomIsInt
    <3> HIDE DEF u
    <3> QED
      BY <1>1, <3>1, SizesAreNat DEF Room
  <2>2. NotFull(u)' \subseteq NotFull(u)
    BY <1>1, OthersWait DEF NotFull, Moves
  <2>3. Awake(u) \ {t} \subseteq Awake(u)' /\ t \in Awake(u) /\ Awake(u)' \subseteq Threads
    BY <1>1, OthersWait DEF Awake
  <2>4. /\ Cardinality(Awake(u)) \in Nat /\ Cardinality(Awake(u)') \in Nat
        /\ Cardinality(Awake(u)) - 1 <= Cardinality(Awake(u)')
    <3>1. Cardinality(Awake(u) \ {t}) = Cardinality(Awake(u)) - 1
      BY <1>1, <2>3, RoomIsInt, ThreadSets
    <3>2. Cardinality(Awake(u) \ {t}) <= Cardinality(Awake(u)')
      BY <2>3, ThreadSets
    <3>3. Cardinality(Awake(u)) \in Nat /\ Cardinality(Awake(u)') \in Nat
      BY <1>1, <2>3, RoomIsInt, ThreadSets
    <3> QED
      BY <3>1, <3>2, <3>3
  <2>5. Pending(u) \in Nat /\ Pending(u)' \in Nat /\ Pending(u)' >= Pending(u)
    BY <1>1, OthersWait DEF Pending, Threads
  <2>6. Enough(u)
    BY <1>1 DEF PushSide, EnoughWoken
  <2> HIDE DEF u
  <2> QED
    BY <2>1, <2>2, <2>4, <2>5, <2>6 DEF Enough
<1>4. \A w \in Workers \ {u} : Enough(w)'
  BY <1>1, <1>2, OneQueueKept DEF PushSide, EnoughWoken
<1>5. PushBlockingSawFull'
  <2>1. SUFFICES ASSUME NEW s \in Threads, pc'[s] = "pushBlocking"
                 PROVE  Room(dest[s])' <= 0
    BY DEF PushBlockingSawFull
  <2>2. s # t /\ pc[s] = "pushBlocking" /\ dest'[s] = dest[s] /\ dest[s] \in Workers
    BY <1>1, <2>1, OthersWait DEF Moves, Inv, TypeOK
  <2>3. dest[s] # u
    BY <2>2 DEF PushEnqueues, QueueMtx
  <2> QED
    BY <1>2, <2>2, <2>3 DEF PushSide, PushBlockingSawFull, Room
<1> QED
  BY <1>1, <1>3, <1>4, <1>5 DEF PushSide, EnoughWoken

\* A submitter goes to sleep only on a full queue.
LEMMA SleepPushSide ==
  ASSUME Inv, PushSide, NEW t \in Threads,
         \/ PushFails(t)
         \/ pc[t] = "pushBlocking" /\ Sleep(t)
  PROVE  PushSide'
<1> DEFINE u == dest[t]
<1>1. PICK p \in {"pushBlocking", "pushAsleep"} : Moves(t, p) /\ p \in Pcs
  <2>1. TypeOK
    BY DEF Inv
  <2>2. CASE PushFails(t)
    BY <2>1, <2>2, SubmitMoves, PcsAre
  <2>3. CASE pc[t] = "pushBlocking" /\ Sleep(t)
    BY <2>1, <2>3, GotoMoves, PcsAre DEF Sleep
  <2> QED
    BY <2>2, <2>3
<1>2. queue' = queue /\ dest' = dest /\ pc[t] \in {"push", "pushBlocking"} /\ u \in Workers
  BY DEF PushFails, Sleep, Inv, TypeOK
<1>3. \A w \in Workers : Size(w)' = Size(w)
  BY <1>2 DEF Size
<1>4. Room(u) \in Int /\ Room(u) <= 0 /\ Room(u)' = Room(u)
  <2>1. Size(u) \in Nat /\ Size(u)' = Size(u)
    BY <1>2, <1>3, RoomIsInt
  <2>2. CASE PushFails(t)
    <3>1. Size(u) >= QueueCap
      BY <2>2 DEF PushFails
    <3> HIDE DEF u
    <3> QED
      BY <2>1, <3>1, SizesAreNat DEF Room
  <2>3. CASE pc[t] = "pushBlocking"
    BY <2>1, <2>3, SizesAreNat DEF PushSide, PushBlockingSawFull, Room
  <2> QED
    BY <2>2, <2>3
<1>5. Enough(u)'
  <2>1. Cardinality(Awake(u)') \in Nat
    BY ThreadSets DEF Awake
  <2>2. Pending(u)' \in Nat
    BY DEF Pending
  <2> HIDE DEF u
  <2> QED
    BY <1>4, <2>1, <2>2 DEF Enough
<1>6. \A w \in Workers \ {u} : Enough(w)'
  BY <1>1, <1>2, <1>3, OneQueueKept DEF PushSide, EnoughWoken
<1>7. PushBlockingSawFull'
  <2>1. SUFFICES ASSUME NEW s \in Threads, pc'[s] = "pushBlocking"
                 PROVE  Room(dest[s])' <= 0
    BY DEF PushBlockingSawFull
  <2>2. CASE s = t
    BY <1>2, <1>4, <2>2
  <2>3. CASE s # t
    <3>1. pc[s] = "pushBlocking" /\ dest'[s] = dest[s] /\ dest[s] \in Workers
      BY <1>1, <1>2, <2>1, <2>3, OthersWait DEF Inv, TypeOK
    <3> QED
      BY <1>3, <3>1 DEF PushSide, PushBlockingSawFull, Room
  <2> QED
    BY <2>2, <2>3
<1> QED
  BY <1>2, <1>5, <1>6, <1>7 DEF PushSide, EnoughWoken

\* pop makes a place, and from here on its worker owes a notification.
LEMMA PopPushSide ==
  ASSUME Inv, PushSide, NEW w \in Workers, PopTakes(w)
  PROVE  PushSide'
<1>1. /\ Moves(w, "notifyPush") /\ "notifyPush" \in Pcs /\ dest' = dest /\ w \in Threads
      /\ pc[w] = "pop"
  BY PopFacts DEF Threads
<1>2. /\ Size(w) \in Nat /\ Size(w)' = Size(w) - 1
      /\ \A v \in Workers \ {w} : Size(v)' = Size(v)
  BY PopSizes
<1>3. Enough(w)'
  <2>1. Room(w) \in Int /\ Room(w)' = Room(w) + 1
    BY <1>2, SizesAreNat DEF Room
  <2>2. NotFull(w)' \subseteq NotFull(w)
    BY <1>1, OthersWait DEF NotFull, Moves
  <2>3. Awake(w) \subseteq Awake(w)' /\ Awake(w)' \subseteq Threads
    BY <1>1, OthersWait DEF Awake
  <2>4. /\ Cardinality(Awake(w)) \in Nat /\ Cardinality(Awake(w)') \in Nat
        /\ Cardinality(Awake(w)) <= Cardinality(Awake(w)')
    BY <2>3, ThreadSets
  <2>5. Pending(w) = 0 /\ Pending(w)' = 1
    BY <1>1 DEF Pending, Moves
  <2>6. Enough(w)
    BY DEF PushSide, EnoughWoken
  <2> QED
    BY <2>1, <2>2, <2>4, <2>5, <2>6 DEF Enough
<1>4. \A v \in Workers \ {w} : Enough(v)'
  BY <1>1, <1>2, OneQueueKept DEF PushSide, EnoughWoken
<1>5. PushBlockingSawFull'
  <2>1. SUFFICES ASSUME NEW s \in Threads, pc'[s] = "pushBlocking"
                 PROVE  Room(dest[s])' <= 0
    BY DEF PushBlockingSawFull
  <2>2. s # w /\ pc[s] = "pushBlocking" /\ dest'[s] = dest[s] /\ dest[s] \in Workers
    BY <1>1, <2>1, OthersWait DEF Moves, Inv, TypeOK
  <2>3. dest[s] # w
    BY <2>2 DEF PopTakes, QueueMtx
  <2> QED
    BY <1>2, <2>2, <2>3 DEF PushSide, PushBlockingSawFull, Room
<1> QED
  BY <1>3, <1>4, <1>5 DEF PushSide, EnoughWoken

\* The notification of pop wakes a submitter, if one sleeps.
LEMMA NotifyPushPushSide ==
  ASSUME Inv, PushSide, NEW w \in Workers, NotifyPush(w)
  PROVE  PushSide'
<1>1. /\ Moves(w, "run") /\ "run" \in Pcs /\ dest' = dest /\ queue' = queue
      /\ w \in Threads /\ pc[w] = "notifyPush"
  BY WorkerMoves, PcsAre DEF Inv, NotifyPush, Threads
<1>2. \A v \in Workers : Size(v)' = Size(v)
  BY <1>1 DEF Size
<1>3. Enough(w)'
  <2>1. Room(w) \in Int /\ Room(w)' = Room(w)
    BY <1>2, RoomIsInt DEF Room
  <2>2. NotFull(w)' \subseteq NotFull(w)
    BY <1>1, OthersWait DEF NotFull, Moves
  <2>3. CASE NotFull(w) = {}
    BY <2>2, <2>3 DEF Enough
  <2>4. CASE NotFull(w) # {}
    <3>1. PICK s \in NotFull(w) : pc' = [pc EXCEPT ![w] = "run", ![s] = Retest[pc[s]]]
      BY <2>4 DEF NotifyPush, NotifyOne
    <3>2. s \in Threads \ Awake(w) /\ s # w /\ pc'[s] = "push" /\ dest[s] = w
      BY <1>1, <3>1, RetestWakes DEF NotFull, Awake, Inv, TypeOK
    <3>3. Awake(w) \cup {s} \subseteq Awake(w)' /\ Awake(w)' \subseteq Threads
      BY <1>1, <3>2, OthersWait DEF Awake
    <3>4. Cardinality(Awake(w) \cup {s}) = Cardinality(Awake(w)) + 1
      BY <3>2, RoomIsInt, ThreadSets
    <3>5. Cardinality(Awake(w) \cup {s}) <= Cardinality(Awake(w)')
      BY <3>3, ThreadSets
    <3>6. Cardinality(Awake(w)) \in Nat /\ Cardinality(Awake(w)') \in Nat
      BY <3>3, RoomIsInt, ThreadSets
    <3>7. Pending(w) = 1 /\ Pending(w)' = 0
      BY <1>1 DEF Pending, Moves
    <3>8. Enough(w)
      BY DEF PushSide, EnoughWoken
    <3> QED
      BY <2>1, <2>4, <3>4, <3>5, <3>6, <3>7, <3>8 DEF Enough
  <2> QED
    BY <2>3, <2>4
<1>4. \A v \in Workers \ {w} : Enough(v)'
  BY <1>1, <1>2, OneQueueKept DEF PushSide, EnoughWoken
<1>5. PushBlockingSawFull'
  <2>1. SUFFICES ASSUME NEW s \in Threads, pc'[s] = "pushBlocking"
                 PROVE  Room(dest[s])' <= 0
    BY DEF PushBlockingSawFull
  <2>2. s # w /\ pc[s] = "pushBlocking" /\ dest'[s] = dest[s] /\ dest[s] \in Workers
    BY <1>1, <2>1, OthersWait DEF Moves, Inv, TypeOK
  <2> QED
    BY <1>2, <2>2 DEF PushSide, PushBlockingSawFull, Room
<1> QED
  BY <1>3, <1>4, <1>5 DEF PushSide, EnoughWoken
-----------------------------------------------------------------------------
(***************************************************************************)
(* The rest of the steps, and the theorems.                                *)
(***************************************************************************)
\* A step of no concern to either side.
LEMMA BothKept ==
  ASSUME Inv, PopSide, PushSide, NEW t \in Threads, NEW p \in Pcs, Moves(t, p),
         UNCHANGED queue, \A s \in Threads \ {t} : dest'[s] = dest[s],
         pc[t] \notin {"notifyPop", "push", "notifyPush"},
         p \notin {"popBlocking", "popAsleep", "pushBlocking", "pushAsleep"}
  PROVE  PopSide' /\ PushSide'
<1>1. PopSide'
  BY PopSideKept
<1>2. PushSide'
  BY PushSideKept
<1> QED
  BY <1>1, <1>2

LEMMA WakeInit == Init => PopSide /\ PushSide
<1> SUFFICES ASSUME Init PROVE PopSide /\ PushSide
  OBVIOUS
<1>1. \A t \in Threads : pc[t] \in {"pop", "idle"}
  BY DEF Init
<1> QED
  BY <1>1 DEF PopSide, PushSide, NoSleepOnWork, PopBlockingSawEmpty, EnoughWoken,
              PushBlockingSawFull, Enough, NotFull, Threads

LEMMA WakeSubmit ==
  ASSUME Inv, PopSide, PushSide, NEW t \in Threads,
         SubmitStep(t) \/ \E k \in Tasks : Submit(t, k)
  PROVE  PopSide' /\ PushSide'
<1>1. TypeOK /\ Home(t) \in Pcs /\ Home(t) \in {"run", "idle"}
  BY PcsAre DEF Inv, Home
<1>2. CASE \E k \in Tasks : Submit(t, k)
  BY <1>1, <1>2, SubmitMoves, PcsAre, BothKept DEF Submit
<1>3. CASE LimitRefuses(t)
  BY <1>1, <1>3, SubmitMoves, BothKept DEF LimitRefuses
<1>4. CASE LimitPasses(t)
  BY <1>1, <1>4, SubmitMoves, PcsAre, BothKept DEF LimitPasses
<1>5. CASE LimitFails(t)
  BY <1>1, <1>5, SubmitMoves, PcsAre, BothKept DEF LimitFails
<1>6. CASE Route(t)
  <2>1. \A s \in Threads \ {t} : dest'[s] = dest[s]
    BY <1>1, <1>6 DEF Route, TypeOK
  <2> QED
    BY <1>1, <1>6, <2>1, SubmitMoves, PcsAre, BothKept DEF Route
<1>7. CASE PushEnqueues(t)
  BY <1>7, PushPopSide, PushPushSide
<1>8. CASE PushFails(t)
  <2>1. PopSide'
    BY <1>1, <1>8, SubmitMoves, PcsAre, PopSideKept DEF PushFails
  <2> QED
    BY <1>8, <2>1, SleepPushSide
<1>9. CASE NotifyPop(t)
  <2>1. PushSide'
    BY <1>1, <1>9, SubmitMoves, PcsAre, PushSideKept DEF NotifyPop
  <2> QED
    BY <1>9, <2>1, NotifyPopPopSide
<1>10. CASE NotifySubmit(t)
  <2>1. \A s \in Threads \ {t} : dest'[s] = dest[s]
    BY <1>1, <1>10 DEF NotifySubmit, TypeOK
  <2> QED
    BY <1>1, <1>10, <2>1, SubmitMoves, BothKept DEF NotifySubmit
<1> QED
  BY <1>2, <1>3, <1>4, <1>5, <1>6, <1>7, <1>8, <1>9, <1>10 DEF SubmitStep

LEMMA WakeWorker ==
  ASSUME Inv, PopSide, PushSide, NEW w \in Workers, WorkerStep(w)
  PROVE  PopSide' /\ PushSide'
<1>1. TypeOK /\ w \in Threads
  BY DEF Inv, Threads
<1>2. CASE PopTakes(w)
  BY <1>2, PopPopSide, PopPushSide
<1>3. CASE PopExits(w)
  BY <1>1, <1>3, WorkerMoves, PcsAre, BothKept DEF PopExits
<1>4. CASE PopFails(w)
  <2>1. PushSide'
    BY <1>1, <1>4, WorkerMoves, PcsAre, PushSideKept DEF PopFails
  <2> QED
    BY <1>4, <2>1, SleepPopSide
<1>5. CASE NotifyPush(w)
  <2>1. PopSide'
    BY <1>1, <1>5, WorkerMoves, PcsAre, PopSideKept DEF NotifyPush
  <2> QED
    BY <1>5, <2>1, NotifyPushPushSide
<1>6. CASE Finish(w)
  BY <1>1, <1>6, WorkerMoves, PcsAre, BothKept DEF Finish
<1>7. CASE NotifyZero(w)
  BY <1>1, <1>7, WorkerMoves, PcsAre, BothKept DEF NotifyZero
<1> QED
  BY <1>2, <1>3, <1>4, <1>5, <1>6, <1>7 DEF WorkerStep

LEMMA WakeShutdown ==
  ASSUME Inv, PopSide, PushSide, Shutdown \/ ShutdownStep
  PROVE  PopSide' /\ PushSide'
<1>1. TypeOK /\ Main \in Threads
  BY ShutdownMoves DEF Inv
<1>2. CASE Shutdown
  BY <1>1, <1>2, ShutdownMoves, PcsAre, BothKept DEF Shutdown
<1>3. CASE WakePops
  <2>1. wake \in Workers
    BY <1>3, SizesAreNat DEF Inv, Control, TypeOK, WakePops, Workers
  <2> QED
    BY <1>1, <1>3, <2>1, ShutdownMoves, PcsAre, BothKept DEF WakePops
<1>4. CASE WakeSubmitters
  BY <1>1, <1>4, ShutdownMoves, PcsAre, BothKept DEF WakeSubmitters
<1>5. CASE DrainPasses
  BY <1>1, <1>5, ShutdownMoves, PcsAre, BothKept DEF DrainPasses
<1>6. CASE DrainFails
  BY <1>1, <1>6, ShutdownMoves, PcsAre, BothKept DEF DrainFails
<1>7. CASE Join
  BY <1>1, <1>7, ShutdownMoves, PcsAre, BothKept DEF Join
<1> QED
  BY <1>2, <1>3, <1>4, <1>5, <1>6, <1>7 DEF ShutdownStep

LEMMA WakeSleep ==
  ASSUME Inv, PopSide, PushSide, NEW t \in Threads, Sleep(t)
  PROVE  PopSide' /\ PushSide'
<1>1. \A p \in Pcs : Goto(t, p) => Moves(t, p)
  BY GotoMoves DEF Inv
<1>2. queue' = queue /\ dest' = dest
  BY DEF Sleep
<1>3. CASE pc[t] = "limitBlocking"
  BY <1>1, <1>2, <1>3, PcsAre, BothKept DEF Sleep
<1>4. CASE pc[t] = "drainBlocking"
  BY <1>1, <1>2, <1>4, PcsAre, BothKept DEF Sleep
<1>5. CASE pc[t] = "pushBlocking"
  <2>1. PopSide'
    BY <1>1, <1>2, <1>5, PcsAre, PopSideKept DEF Sleep
  <2> QED
    BY <1>5, <2>1, SleepPushSide
<1>6. CASE pc[t] = "popBlocking"
  <2>1. PushSide'
    BY <1>1, <1>2, <1>6, PcsAre, PushSideKept DEF Sleep
  <2>2. t \in Workers
    BY <1>6 DEF Inv, Control, Threads, Outside, Closing, Submitting, Limiting, Pushing
  <2> QED
    BY <1>6, <2>1, <2>2, SleepPopSide
<1> QED
  BY <1>3, <1>4, <1>5, <1>6 DEF Sleep

LEMMA WakeStep == Inv /\ PopSide /\ PushSide /\ [Next]_vars => PopSide' /\ PushSide'
<1> SUFFICES ASSUME Inv, PopSide, PushSide, [Next]_vars PROVE PopSide' /\ PushSide'
  OBVIOUS
<1>1. CASE Next
  BY <1>1, WakeSubmit, WakeWorker, WakeShutdown, WakeSleep DEF Next
<1>2. CASE UNCHANGED vars
  <2> USE <1>2 DEF vars
  <2>1. PopSide'
    BY DEF PopSide, NoSleepOnWork, PopBlockingSawEmpty, Size
  <2>2. PushSide'
    BY DEF PushSide, EnoughWoken, PushBlockingSawFull, Enough, NotFull, Awake, Pending,
           Room, Size
  <2> QED
    BY <2>1, <2>2
<1> QED
  BY <1>1, <1>2

LEMMA WakeAlways == Spec => [](Inv /\ PopSide /\ PushSide)
<1>1. Init => Inv /\ PopSide /\ PushSide
  BY InitInv, WakeInit
<1>2. Inv /\ PopSide /\ PushSide /\ [Next]_vars => (Inv /\ PopSide /\ PushSide)'
  BY StepInv, WakeStep
<1> QED
  BY <1>1, <1>2, PTL DEF Spec

\* No worker sleeps on a queue with work in it, unless the thread that pushed
\* is about to notify it (WorkQueue::push and WorkQueue::pop).
THEOREM NoWorkerMissesWork == Spec => []NoSleepOnWork
<1>1. PopSide => NoSleepOnWork
  BY DEF PopSide
<1> QED
  BY <1>1, WakeAlways, PTL

\* No submitter sleeps on a queue with room in it, unless a notification or a
\* woken submitter is on its way: pop's notify_one per place is enough.
THEOREM NoSubmitterMissesRoom == Spec => []NoSleepOnRoom
<1>1. Inv /\ PushSide => NoSleepOnRoom
  <2>1. SUFFICES ASSUME Inv, PushSide, NEW w \in Workers,
                        NotFull(w) # {}, Size(w) < QueueCap, pc[w] # "notifyPush"
                 PROVE  \E t \in Threads : pc[t] = "push" /\ dest[t] = w
    BY DEF NoSleepOnRoom
  <2>2. Cardinality(Awake(w)) + Pending(w) >= Room(w)
    BY <2>1 DEF PushSide, EnoughWoken, Enough
  <2>3. Pending(w) = 0
    BY <2>1 DEF Pending
  <2>4. Cardinality(Awake(w)) \in Nat
    BY <2>1, RoomIsInt, ThreadSets
  <2>5. Room(w) \in Int /\ Room(w) > 0
    BY <2>1, RoomIsInt, SizesAreNat DEF Room
  <2>6. Cardinality(Awake(w)) # 0
    BY <2>2, <2>3, <2>4, <2>5
  <2>7. Awake(w) # {}
    BY <2>6, FS_EmptySet
  <2> QED
    BY <2>7 DEF Awake
<1> QED
  BY <1>1, WakeAlways, PTL
=============================================================================
