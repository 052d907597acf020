----------------------- MODULE ConnectionPoolProofs -------------------------
(***************************************************************************)
(* Proofs about ConnectionPool, for every set of threads and every number  *)
(* of connections.  The safety part of the specification is enough; the    *)
(* inductive invariant is the conjunction of the invariants themselves:    *)
(* exclusivity needs the types, and the freedom from lost wakeups needs to *)
(* know that a thread about to block still sees an empty queue.            *)
(***************************************************************************)
EXTENDS ConnectionPool, DataLemmas, TLAPS, FiniteSetTheorems

Inv == TypeOK /\ Exclusive /\ Conserved /\ BlockingSawTheQueue

LEMMA InitInv == Init => Inv
<1> SUFFICES ASSUME Init PROVE Inv
  OBVIOUS
<1> USE DEF Init
<1>1. TypeOK
  BY PoolSizeIsNat DEF TypeOK, Connections
<1>2. Exclusive
  BY NoConnectionIsNone, PoolSizeIsNat DEF Exclusive, Connections
<1>3. Conserved
  BY PoolSizeIsNat DEF Conserved, Connections
<1>4. BlockingSawTheQueue
  BY DEF BlockingSawTheQueue, Mutex
<1> QED
  BY <1>1, <1>2, <1>3, <1>4 DEF Inv

LEMMA TakeInv ==
  ASSUME Inv, NEW t \in Threads, Take(t)
  PROVE  Inv'
<1> USE DEF Inv
<1> DEFINE c == Head(available)
<1>1. /\ c \in Connections /\ c = available[1]
      /\ Tail(available) \in Seq(Connections)
      /\ Len(available) \in Nat \ {0}
      /\ DOMAIN available = 1..Len(available)
      /\ DOMAIN Tail(available) = 1..(Len(available) - 1)
      /\ \A i \in 1..(Len(available) - 1) : Tail(available)[i] = available[i + 1]
  BY TailElements DEF Take, TypeOK
<1>2. TypeOK'
  BY <1>1, NoConnectionIsNone DEF Take, TypeOK
<1>3. Exclusive'
  <2>1. \A s \in Threads : lease[s] # c
    BY <1>1 DEF Exclusive
  <2>2. \A r, s \in Threads :
          lease'[r] = lease'[s] /\ lease'[r] # NoConnection => r = s
    BY <2>1 DEF Take, TypeOK, Exclusive
  <2>3. \A i, j \in DOMAIN available' : available'[i] = available'[j] => i = j
    BY <1>1 DEF Take, Exclusive
  <2>4. \A i \in DOMAIN available', s \in Threads : available'[i] # lease'[s]
    <3>1. \A i \in DOMAIN available' : available'[i] # c
      BY <1>1 DEF Take, Exclusive
    <3>2. \A i \in DOMAIN available', s \in Threads : available'[i] # lease[s]
      BY <1>1 DEF Take, Exclusive
    <3> QED
      BY <3>1, <3>2 DEF Take, TypeOK
  <2> QED
    BY <2>2, <2>3, <2>4 DEF Exclusive
<1>4. Conserved'
  <2> SUFFICES ASSUME NEW d \in Connections
               PROVE  \/ \E i \in DOMAIN available' : available'[i] = d
                      \/ \E s \in Threads : lease'[s] = d
    BY DEF Conserved
  <2>1. CASE d = c
    BY <2>1 DEF Take, TypeOK
  <2>2. CASE \E s \in Threads : lease[s] = d
    BY <2>2, NoConnectionIsNone DEF Take, TypeOK
  <2>3. CASE d # c /\ \E i \in DOMAIN available : available[i] = d
    <3>1. PICK i \in DOMAIN available : available[i] = d
      BY <2>3
    <3>2. i - 1 \in 1..(Len(available) - 1) /\ available'[i - 1] = d
      BY <1>1, <2>3, <3>1 DEF Take
    <3> QED
      BY <1>1, <3>2 DEF Take
  <2> QED
    BY <2>1, <2>2, <2>3 DEF Conserved
<1>5. BlockingSawTheQueue'
  BY DEF Take, TypeOK, Mutex, BlockingSawTheQueue
<1> QED
  BY <1>2, <1>3, <1>4, <1>5

LEMMA ReleaseInv ==
  ASSUME Inv, NEW t \in Threads, Release(t)
  PROVE  Inv'
<1> USE DEF Inv
<1> DEFINE c == lease[t]
<1>1. c \in Connections /\ c # NoConnection
  BY DEF Release, TypeOK
<1>2. /\ Append(available, c) \in Seq(Connections)
      /\ Len(available) \in Nat
      /\ DOMAIN available = 1..Len(available)
      /\ DOMAIN Append(available, c) = 1..(Len(available) + 1)
      /\ \A i \in 1..Len(available) : Append(available, c)[i] = available[i]
      /\ Append(available, c)[Len(available) + 1] = c
  BY <1>1, AppendElements DEF TypeOK
<1>3. available' = Append(available, c) /\ lease' = [lease EXCEPT ![t] = NoConnection]
  BY DEF Release
<1>4. \A s \in Threads : \/ pc'[s] = pc[s] /\ s # t
                         \/ s = t /\ pc'[s] = "out"
                         \/ s # t /\ pc[s] = "asleep" /\ pc'[s] = "acquire"
  BY DEF Release, TypeOK, Asleep
<1>5. TypeOK'
  <2>1. available' \in Seq(Connections)
    BY <1>2, <1>3
  <2>2. lease' \in [Threads -> Connections \cup {NoConnection}]
    BY <1>3 DEF TypeOK
  <2>3. pc' \in [Threads ->
          {"out", "acquire", "blocking", "asleep", "holding", "release"}]
    BY DEF Release, TypeOK, Asleep
  <2>4. \A s \in Threads : (lease'[s] # NoConnection) <=> (pc'[s] \in {"holding", "release"})
    BY <1>3, <1>4 DEF TypeOK
  <2> QED
    BY <2>1, <2>2, <2>3, <2>4 DEF TypeOK
<1>6. Exclusive'
  <2>1. \A r, s \in Threads :
          lease'[r] = lease'[s] /\ lease'[r] # NoConnection => r = s
    BY <1>3 DEF TypeOK, Exclusive
  <2>2. \A i \in 1..Len(available) : available[i] # c
    BY <1>2 DEF Exclusive
  <2>3. \A i, j \in DOMAIN available' : available'[i] = available'[j] => i = j
    BY <1>2, <1>3, <2>2 DEF Exclusive
  <2>4. \A i \in DOMAIN available', s \in Threads : available'[i] # lease'[s]
    <3>1. ASSUME NEW i \in DOMAIN available', NEW s \in Threads
          PROVE  available'[i] # lease'[s]
      <4>1. available'[i] \in Connections
        BY <1>1, <1>2, <1>3 DEF TypeOK
      <4>2. CASE s = t
        BY <1>3, <4>1, <4>2, NoConnectionIsNone DEF TypeOK
      <4>3. CASE s # t /\ i = Len(available) + 1
        BY <1>1, <1>2, <1>3, <4>3 DEF TypeOK, Exclusive
      <4>4. CASE s # t /\ i # Len(available) + 1
        BY <1>2, <1>3, <4>4 DEF TypeOK, Exclusive
      <4> QED
        BY <4>2, <4>3, <4>4
    <3> QED
      BY <3>1
  <2> QED
    BY <2>1, <2>3, <2>4 DEF Exclusive
<1>7. Conserved'
  <2> SUFFICES ASSUME NEW d \in Connections
               PROVE  \/ \E i \in DOMAIN available' : available'[i] = d
                      \/ \E s \in Threads : lease'[s] = d
    BY DEF Conserved
  <2>1. CASE d = c
    BY <1>2, <1>3, <2>1
  <2>2. CASE \E i \in DOMAIN available : available[i] = d
    BY <1>2, <1>3, <2>2
  <2>3. CASE d # c /\ \E s \in Threads : lease[s] = d
    BY <1>3, <2>3 DEF TypeOK
  <2> QED
    BY <2>1, <2>2, <2>3 DEF Conserved
<1>8. BlockingSawTheQueue'
  BY <1>4 DEF Release, Mutex, BlockingSawTheQueue
<1> QED
  BY <1>5, <1>6, <1>7, <1>8

LEMMA NextInv == Inv /\ [Next]_vars => Inv'
<1> SUFFICES ASSUME Inv, [Next]_vars PROVE Inv'
  OBVIOUS
<1>1. CASE UNCHANGED vars
  BY <1>1 DEF vars, Inv, TypeOK, Exclusive, Conserved, BlockingSawTheQueue, Mutex
<1>2. ASSUME NEW t \in Threads, Take(t) PROVE Inv'
  BY <1>2, TakeInv
<1>3. ASSUME NEW t \in Threads, Release(t) PROVE Inv'
  BY <1>3, ReleaseInv
<1>4. ASSUME NEW t \in Threads, Call(t) \/ TestFails(t) \/ Sleep(t) \/ LeaveScope(t)
      PROVE  Inv'
  <2> USE <1>4 DEF Inv, Call, TestFails, Sleep, LeaveScope
  <2>1. TypeOK'
    BY DEF TypeOK
  <2>2. Exclusive' /\ Conserved'
    BY DEF Exclusive, Conserved
  <2>3. BlockingSawTheQueue'
    BY DEF TypeOK, Mutex, BlockingSawTheQueue
  <2> QED
    BY <2>1, <2>2, <2>3
<1> QED
  BY <1>1, <1>2, <1>3, <1>4 DEF Next, Step

\* Types, exclusive leases, no connection lost and the truth of what a thread
\* tested before it blocks hold in every reachable state of acquire/release.
THEOREM Invariance == Spec => [](TypeOK /\ Exclusive /\ Conserved /\ BlockingSawTheQueue)
BY InitInv, NextInv, PTL DEF Spec, Inv

\* Every variable of acquire and release keeps its type.
THEOREM TypesAreKept == Spec => []TypeOK
BY Invariance, PTL

\* Every connection is in the queue or in a lease, whichever way a handler
\* leaves the scope of its LeasedConnection.
THEOREM NoConnectionIsLost == Spec => []Conserved
BY Invariance, PTL

\* A thread that acquire() is about to put to sleep still sees an empty queue.
THEOREM NobodyBlocksOnAConnection == Spec => []BlockingSawTheQueue
BY Invariance, PTL
-----------------------------------------------------------------------------
Awake == {t \in Threads : pc[t] = "acquire"}

LEMMA AwakeIsCounted == IsFiniteSet(Awake) /\ Cardinality(Awake) \in Nat
BY ThreadsAreFinite, FS_Subset, FS_CardinalityType, Zenon DEF Awake

\* A step keeps enough threads awake.  Only release() adds a connection, and
\* it wakes a sleeper; only a thread that takes one stops testing while the
\* queue has connections.
LEMMA WakeupInv ==
  ASSUME Inv, NoLostWakeup, [Next]_vars
  PROVE  NoLostWakeup'
<1> DEFINE Enough == Asleep # {} => Cardinality(Awake) >= Len(available)
<1>1. NoLostWakeup <=> Enough
  BY DEF NoLostWakeup, Awake
<1>2. NoLostWakeup' <=> Enough'
  BY DEF NoLostWakeup, Awake
<1>3. IsFiniteSet(Awake) /\ Cardinality(Awake) \in Nat
  BY AwakeIsCounted
<1>4. Len(available) \in Nat /\ available \in Seq(Connections)
  BY DEF Inv, TypeOK
<1>5. CASE UNCHANGED vars
  BY <1>1, <1>2, <1>5 DEF vars, Asleep, Awake
<1>6. ASSUME NEW t \in Threads, Call(t) PROVE Enough'
  <2>1. Awake' = Awake \cup {t} /\ t \notin Awake /\ Asleep' = Asleep
    BY <1>6 DEF Call, Awake, Asleep, Inv, TypeOK
  <2>2. Cardinality(Awake') = Cardinality(Awake) + 1
    BY <1>3, <2>1, FS_AddElement
  <2> QED
    BY <1>1, <1>3, <1>4, <1>6, <2>1, <2>2 DEF Call
<1>7. ASSUME NEW t \in Threads, Take(t) PROVE Enough'
  <2>1. Awake' = Awake \ {t} /\ t \in Awake /\ Asleep' = Asleep
    BY <1>7 DEF Take, Awake, Asleep, Inv, TypeOK
  <2>2. Cardinality(Awake') = Cardinality(Awake) - 1
    BY <1>3, <2>1, FS_RemoveElement
  <2>3. Len(available') = Len(available) - 1
    BY <1>4, <1>7, TailElements DEF Take
  <2> QED
    BY <1>1, <1>3, <1>4, <2>1, <2>2, <2>3
<1>8. ASSUME NEW t \in Threads, TestFails(t) \/ Sleep(t) PROVE Enough'
  <2>1. available = <<>> /\ available' = available
    BY <1>8 DEF TestFails, Sleep, Inv, TypeOK, Mutex, BlockingSawTheQueue
  <2>2. Cardinality(Awake') \in Nat
    BY ThreadsAreFinite, FS_Subset, FS_CardinalityType, Zenon DEF Awake
  <2> QED
    BY <2>1, <2>2
<1>9. ASSUME NEW t \in Threads, LeaveScope(t) PROVE Enough'
  <2>1. Awake' = Awake /\ Asleep' = Asleep
    BY <1>9 DEF LeaveScope, Awake, Asleep, Inv, TypeOK
  <2> QED
    BY <1>1, <1>9, <2>1 DEF LeaveScope
<1>10. ASSUME NEW t \in Threads, Release(t) PROVE Enough'
  <2>1. CASE Asleep = {} /\ pc' = [pc EXCEPT ![t] = "out"]
    <3>1. Asleep' = {}
      BY <2>1 DEF Asleep, Inv, TypeOK
    <3> QED
      BY <3>1
  <2>2. ASSUME NEW s \in Asleep, pc' = [pc EXCEPT ![t] = "out", ![s] = "acquire"]
        PROVE  Enough'
    <3>1. Awake' = Awake \cup {s} /\ s \notin Awake
      BY <1>10, <2>2 DEF Release, Awake, Asleep, Inv, TypeOK
    <3>2. Cardinality(Awake') = Cardinality(Awake) + 1
      BY <1>3, <3>1, FS_AddElement
    <3>3. Len(available') = Len(available) + 1
      BY <1>4, <1>10, AppendElements DEF Release, Inv, TypeOK
    <3> QED
      BY <1>1, <1>3, <1>4, <2>2, <3>2, <3>3
  <2> QED
    BY <1>10, <2>1, <2>2 DEF Release
<1> QED
  BY <1>2, <1>5, <1>6, <1>7, <1>8, <1>9, <1>10 DEF Next, Step

\* No connection lies in the queue while the threads that want one all sleep:
\* the notify_one of release() under the mutex is never lost.
THEOREM NoWakeupIsLost == Spec => []NoLostWakeup
<1>1. Init => NoLostWakeup
  BY DEF Init, NoLostWakeup, Asleep
<1> QED
  BY <1>1, InitInv, NextInv, WakeupInv, PTL DEF Spec
-----------------------------------------------------------------------------
\* A step of the pool is a step of the abstract lender or leaves the leases
\* as they are.
LEMMA StepRefines == Inv /\ [Next]_vars => [Lender!Next]_lease
<1> SUFFICES ASSUME Inv, [Next]_vars PROVE Lender!Next \/ lease' = lease
  OBVIOUS
<1>1. ASSUME NEW t \in Threads, Take(t) PROVE Lender!Borrow(t)
  <2>1. /\ Head(available) \in Connections
        /\ Head(available) = available[1] /\ 1 \in DOMAIN available
    BY <1>1, TailElements DEF Take, Inv, TypeOK
  <2>2. Head(available) \notin Lender!Lent
    BY <2>1 DEF Lender!Lent, Inv, Exclusive
  <2>3. lease[t] = NoConnection
    BY <1>1 DEF Take, Inv, TypeOK
  <2> QED
    BY <1>1, <2>1, <2>2, <2>3 DEF Take, Lender!Borrow
<1>2. ASSUME NEW t \in Threads, Release(t) PROVE Lender!GiveBack(t)
  BY <1>2 DEF Release, Lender!GiveBack, Inv, TypeOK
<1>3. ASSUME NEW t \in Threads, Call(t) \/ TestFails(t) \/ Sleep(t) \/ LeaveScope(t)
      PROVE  lease' = lease
  BY <1>3 DEF Call, TestFails, Sleep, LeaveScope
<1>4. CASE UNCHANGED vars
  BY <1>4 DEF vars
<1> QED
  BY <1>1, <1>2, <1>3, <1>4 DEF Next, Step, Lender!Next

\* The queue, the mutex and the condition variable of ConnectionPool lend out
\* connections the way Leases says.
THEOREM PoolRefinesLeases == Spec => Refines
<1>1. Init => Lender!Init
  BY DEF Init, Lender!Init
<1> QED
  BY <1>1, InitInv, NextInv, StepRefines, PTL DEF Spec, Refines, Lender!Spec
=============================================================================
