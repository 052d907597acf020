------------------------------- MODULE Leases -------------------------------
(***************************************************************************)
(* What the connection pool promises its callers: a set of connections is  *)
(* lent out, each to at most one thread at a time, and a thread that wants *)
(* one gets one that nobody else has.  How callers wait is not said here:  *)
(* ConnectionPool does, and is shown to implement this specification.      *)
(***************************************************************************)
CONSTANTS Threads,      \* the threads that call into the repositories
          Connections,  \* the connections the pool owns
          NoConnection  \* what a thread without a lease holds

VARIABLE lease          \* the connection each thread has on loan

Lent == {lease[t] : t \in Threads} \ {NoConnection}

Init == lease = [t \in Threads |-> NoConnection]

\* t borrows a connection that nobody holds.
Borrow(t) ==
  /\ lease[t] = NoConnection
  /\ \E c \in Connections \ Lent : lease' = [lease EXCEPT ![t] = c]

\* t gives its connection back.
GiveBack(t) ==
  /\ lease[t] # NoConnection
  /\ lease' = [lease EXCEPT ![t] = NoConnection]

Next == \E t \in Threads : Borrow(t) \/ GiveBack(t)

Spec == Init /\ [][Next]_lease
=============================================================================
