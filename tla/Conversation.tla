---------------------------- MODULE Conversation ----------------------------
(***************************************************************************)
(* What a session promises its client: requests are taken in the order in  *)
(* which they were sent and as the client meant them, each is answered     *)
(* before the next is taken, and a conversation in which everything was    *)
(* answered ends after the reply to a request that asked for that.  It may *)
(* also end at any other moment, for either side may go away; what is left *)
(* then is not answered.  Once a request was not as it should be, what the *)
(* server makes of the rest is open.                                       *)
(*                                                                         *)
(* How bytes are read, parsed and written, and which thread does what, is  *)
(* Session's business.                                                     *)
(***************************************************************************)
EXTENDS Naturals, Sequences

CONSTANTS Streams,        \* what a client may send: sequences of requests
          WellFormed(_),  \* a request is as it should be
          Meaning(_)      \* what it says; close is its wish to end

VARIABLES sent,      \* the requests the client sends
          requests,  \* what was taken for requests, so far
          answered,  \* the numbers of those that were answered
          ended

vars == <<sent, requests, answered, ended>>

Init ==
  /\ sent \in Streams
  /\ requests = <<>>
  /\ answered = <<>>
  /\ ended = FALSE

\* The client's requests up to number n were as they should be.
Understood(n) == \A m \in DOMAIN sent : m <= n => WellFormed(sent[m])

\* The next request is taken, once nothing waits for an answer.
Take ==
  /\ ~ended
  /\ Len(answered) = Len(requests)
  /\ LET n == Len(requests) + 1
     IN  /\ Len(requests') = n
         /\ SubSeq(requests', 1, n - 1) = requests
         /\ Understood(n) => n \in DOMAIN sent /\ requests'[n] = Meaning(sent[n])
  /\ UNCHANGED <<sent, answered, ended>>

\* The last request is answered: the conversation is over exactly if that
\* request asked for it.
Answer ==
  /\ ~ended
  /\ Len(answered) = Len(requests) - 1
  /\ answered' = Append(answered, Len(requests))
  /\ ended' = requests[Len(requests)].close
  /\ UNCHANGED <<sent, requests>>

End ==
  /\ ~ended
  /\ ended' = TRUE
  /\ UNCHANGED <<sent, requests, answered>>

Next == Take \/ Answer \/ End

Spec == Init /\ [][Next]_vars
=============================================================================
