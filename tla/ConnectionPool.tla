--------------------------- MODULE ConnectionPool ---------------------------
(***************************************************************************)
(* ConnectionPool.h and ConnectionPool.cpp: a queue of database            *)
(* connections behind a mutex and a condition variable.  Every repository  *)
(* call holds one connection for its whole duration, in a LeasedConnection *)
(* whose destructor returns it.                                            *)
(*                                                                         *)
(* Where a thread is:                                                      *)
(*   "out"       outside the pool, with no lease                           *)
(*   "acquire"   in acquire(), about to take the mutex and test the queue  *)
(*   "blocking"  found the queue empty under the mutex, which it still     *)
(*               holds, and is about to block in cv.wait                   *)
(*   "asleep"    blocked in cv.wait, mutex released                        *)
(*   "holding"   has a LeasedConnection                                    *)
(*   "release"   in its destructor, about to take the mutex                *)
(* The mutex is held between two steps in "blocking" only: every other     *)
(* critical section is one action.                                         *)
(***************************************************************************)
EXTENDS Naturals, Sequences, FiniteSets

CONSTANTS Threads,      \* the threads that call into the repositories
          PoolSize,     \* config.database.pool_size
          NoConnection  \* a LeasedConnection whose dbc is null

Connections == 1..PoolSize

ASSUME ThreadsAreFinite == IsFiniteSet(Threads)
ASSUME PoolSizeIsNat == PoolSize \in Nat
ASSUME NoConnectionIsNone == NoConnection \notin Connections

VARIABLES available,    \* the queue of connections nobody holds
          lease,        \* the connection in each thread's LeasedConnection
          pc            \* where each thread is

vars == <<available, lease, pc>>

Mutex == {t \in Threads : pc[t] = "blocking"}  \* its holder, if any
Asleep == {t \in Threads : pc[t] = "asleep"}   \* the wait set of cv

-----------------------------------------------------------------------------
(***************************************************************************)
(* Faulty variants of the actions below, not part of the specification:    *)
(* each is a mistake that some property at the end of the module catches.  *)
(***************************************************************************)
\* acquire() copies the front connection and forgets to pop it.
TakeWithoutPop(t) ==
  /\ pc[t] = "acquire"
  /\ Mutex = {}
  /\ available # <<>>
  /\ lease' = [lease EXCEPT ![t] = Head(available)]
  /\ pc' = [pc EXCEPT ![t] = "holding"]
  /\ UNCHANGED available

\* A path out of a repository method drops the lease without returning it.
LeaveScopeLeaking(t) ==
  /\ pc[t] = "holding"
  /\ lease' = [lease EXCEPT ![t] = NoConnection]
  /\ pc' = [pc EXCEPT ![t] = "out"]
  /\ UNCHANGED available

\* The moved-from lease keeps its handle after the connection was returned.
ReleaseKeepingHandle(t) ==
  /\ pc[t] = "release"
  /\ Mutex = {}
  /\ available' = Append(available, lease[t])
  /\ \/ Asleep = {} /\ pc' = [pc EXCEPT ![t] = "out"]
     \/ \E s \in Asleep : pc' = [pc EXCEPT ![t] = "out", ![s] = "acquire"]
  /\ UNCHANGED lease

\* release() does not notify.
ReleaseWithoutNotify(t) ==
  /\ pc[t] = "release"
  /\ Mutex = {}
  /\ available' = Append(available, lease[t])
  /\ lease' = [lease EXCEPT ![t] = NoConnection]
  /\ pc' = [pc EXCEPT ![t] = "out"]

\* release() does not take the mutex.
ReleaseWithoutMutex(t) ==
  /\ pc[t] = "release"
  /\ available' = Append(available, lease[t])
  /\ lease' = [lease EXCEPT ![t] = NoConnection]
  /\ \/ Asleep = {} /\ pc' = [pc EXCEPT ![t] = "out"]
     \/ \E s \in Asleep : pc' = [pc EXCEPT ![t] = "out", ![s] = "acquire"]
-----------------------------------------------------------------------------
\* The constructor fills the queue before any thread can see the pool; when
\* a connection cannot be made it throws and there is no pool.
Init ==
  /\ available = [i \in 1..PoolSize |-> i]
  /\ lease = [t \in Threads |-> NoConnection]
  /\ pc = [t \in Threads |-> "out"]

\* A repository method starts: `auto leased = pool.acquire()`.
Call(t) ==
  /\ pc[t] = "out"
  /\ pc' = [pc EXCEPT ![t] = "acquire"]
  /\ UNCHANGED <<available, lease>>

\* acquire() with the queue not empty: the front connection is leased.
Take(t) ==
  /\ pc[t] = "acquire"
  /\ Mutex = {}
  /\ available # <<>>
  /\ lease' = [lease EXCEPT ![t] = Head(available)]
  /\ available' = Tail(available)
  /\ pc' = [pc EXCEPT ![t] = "holding"]

\* acquire() finds the predicate of cv.wait false; the mutex stays held.
TestFails(t) ==
  /\ pc[t] = "acquire"
  /\ Mutex = {}
  /\ available = <<>>
  /\ pc' = [pc EXCEPT ![t] = "blocking"]
  /\ UNCHANGED <<available, lease>>

\* cv.wait joins the wait set and lets go of the mutex in one step.
Sleep(t) ==
  /\ pc[t] = "blocking"
  /\ pc' = [pc EXCEPT ![t] = "asleep"]
  /\ UNCHANGED <<available, lease>>

\* The repository method returns, by whatever path: the LeasedConnection
\* goes out of scope and its destructor calls release().
LeaveScope(t) ==
  /\ pc[t] = "holding"
  /\ pc' = [pc EXCEPT ![t] = "release"]
  /\ UNCHANGED <<available, lease>>

\* release(): the connection joins the back of the queue and notify_one
\* wakes some sleeper, all under the mutex.
Release(t) ==
  /\ pc[t] = "release"
  /\ Mutex = {}
  /\ available' = Append(available, lease[t])
  /\ lease' = [lease EXCEPT ![t] = NoConnection]
  /\ \/ Asleep = {} /\ pc' = [pc EXCEPT ![t] = "out"]
     \/ \E s \in Asleep : pc' = [pc EXCEPT ![t] = "out", ![s] = "acquire"]

Step(t) == Take(t) \/ TestFails(t) \/ Sleep(t) \/ LeaveScope(t) \/ Release(t)

Next == \E t \in Threads : Call(t) \/ Step(t)

Spec == Init /\ [][Next]_vars

\* Every thread that is inside the pool keeps running, and a repository call
\* ends: the statements it waits for are answered.  Nothing makes a thread
\* call the pool, and no thread has priority at the mutex.
Fairness == \A t \in Threads : WF_vars(Step(t))

FairSpec == Spec /\ Fairness
-----------------------------------------------------------------------------
\* Every variable has its type, and only a thread that is between taking and
\* returning a connection has one.
TypeOK ==
  /\ available \in Seq(Connections)
  /\ lease \in [Threads -> Connections \cup {NoConnection}]
  /\ pc \in [Threads ->
       {"out", "acquire", "blocking", "asleep", "holding", "release"}]
  /\ \A t \in Threads : (lease[t] # NoConnection) <=> (pc[t] \in {"holding", "release"})

\* A connection is in the queue or with one thread, never in both, never in
\* two places of the queue, never with two threads: two statements of
\* different requests never share an ODBC handle (acquire, ~LeasedConnection).
Exclusive ==
  /\ \A s, t \in Threads :
       lease[s] = lease[t] /\ lease[s] # NoConnection => s = t
  /\ \A i, j \in DOMAIN available : available[i] = available[j] => i = j
  /\ \A i \in DOMAIN available, t \in Threads : available[i] # lease[t]

\* No connection is ever lost: each is in the queue or on loan
\* (the destructor returns it on every path out of a repository method).
Conserved ==
  \A c \in Connections :
    \/ \E i \in DOMAIN available : available[i] = c
    \/ \E t \in Threads : lease[t] = c

\* A connection never lies idle while everyone who wants one sleeps: as long
\* as somebody sleeps, enough threads are on their way to test the queue
\* again to take every connection in it (release notifies under the mutex).
NoLostWakeup ==
  Asleep # {} =>
    Cardinality({t \in Threads : pc[t] = "acquire"}) >= Len(available)

\* At most one thread holds the mutex, and then the queue is empty: what it
\* tested is still true when it goes to sleep.
BlockingSawTheQueue ==
  /\ \A s, t \in Mutex : s = t
  /\ Mutex # {} => available = <<>>

\* As long as some thread waits for a connection, connections keep being
\* handed out: no order of sleeping, waking and overtaking stops the pool.
Waiting == {t \in Threads : pc[t] \in {"acquire", "blocking", "asleep"}}
PoolKeepsServing ==
  <>[](Waiting # {}) => []<><<\E t \in Threads : Take(t)>>_vars

\* The pool implements the abstract lender.
Lender == INSTANCE Leases
Refines == Lender!Spec
=============================================================================
