------------------------------ MODULE Session -------------------------------
(***************************************************************************)
(* Session.cpp: one client connection.  The io thread reads bytes into     *)
(* buffer, parses a request out of it, hands it to the thread pool, writes *)
(* the reply the worker posts back, and only then parses or reads again.   *)
(*                                                                         *)
(* What travels is a sequence of units: a carriage return, a line feed, or *)
(* a word, which stands for its spellings in either case and has a space   *)
(* before it where it follows another word of its line.  A unit counts as  *)
(* one byte where sizes are compared.  A read may end after any unit,      *)
(* between the CR and the LF of a line and anywhere in a body too; one     *)
(* that ends inside a word is not told from one that ends before it, for   *)
(* parse looks at nothing of a line, or of a body, until it is all there.  *)
(*                                                                         *)
(* io is what the io thread is doing for this session: nothing, entering   *)
(* do_read, or running the loop of parse, one iteration a step; no other   *)
(* completion handler of the session runs meanwhile.  The session keeps    *)
(* going through completions that are still to come: a read, a worker's    *)
(* reply, a posted function, a write, the handshake or the TLS shutdown.   *)
(***************************************************************************)
EXTENDS Integers, Sequences, FiniteSets, SequencesExt, FiniteSetsExt

CONSTANTS Words,           \* what lines and bodies are made of
          Colons,          \* the words with a colon, which is their last byte
          Number,          \* what std::stoll makes of the words it reads to the end
          Streams,         \* what a client may send: sequences of requests
          MaxRequestSize   \* MAX_REQUEST_SIZE

Breaks == {"cr", "lf"}
Units == Words \cup Breaks

ASSUME WordsAreNoBreaks == Words \cap Breaks = {} /\ Colons \subseteq Words
ASSUME NumbersAreIntegers == \A w \in DOMAIN Number : w \in Words /\ Number[w] \in Int
ASSUME SizeIsNatural == MaxRequestSize \in Nat

\* What parse makes of a line: its first two words are method and path if it
\* is a request line, what is up to its first colon the name of a header, in
\* lower case, and the rest that header's value.
WordsIn(line) == {n \in DOMAIN line : line[n] \notin Breaks}
IsRequestLine(line) == Cardinality(WordsIn(line)) >= 3
Target(line) ==
  LET method == Min(WordsIn(line))
  IN  <<line[method], line[Min(WordsIn(line) \ {method})]>>
ColonsIn(line) == {n \in DOMAIN line : line[n] \in Colons}
Key(line) == SubSeq(line, 1, Min(ColonsIn(line)))
Value(line) == SubSeq(line, Min(ColonsIn(line)) + 1, Len(line))

\* What the end of the headers makes of them.  std::stoll skips white space
\* in front of the number, and nothing may follow it.
Closes(h) ==
  /\ <<"connection:">> \in DOMAIN h
  /\ h[<<"connection:">>] = <<"close">>
LengthKey == <<"content-length:">>
Numeric(value) ==
  /\ value # <<>>
  /\ value[Len(value)] \in DOMAIN Number
  /\ \A n \in 1..(Len(value) - 1) : value[n] \in Breaks
ContentLength(h) ==
  IF LengthKey \in DOMAIN h
    THEN Number[h[LengthKey][Len(h[LengthKey])]]
    ELSE 0
LengthRefused(h) ==
  /\ LengthKey \in DOMAIN h
  /\ ~(Numeric(h[LengthKey]) /\ ContentLength(h) \in 0..MaxRequestSize)

\* A request as the client sends it: lines, and a body.  It is as it should be
\* when it has a request line, headers, a blank line and a body as long as its
\* headers announce; of two headers of one name the later counts.
Requests == [lines : Seq(Seq(Words)), body : Seq(Units)]
TextOf(r) == FlattenSeq([n \in DOMAIN r.lines |-> r.lines[n] \o <<"cr", "lf">>]) \o r.body
HeadersUpTo(lines, n) ==
  [key \in {Key(lines[i]) : i \in 2..n} |->
     Value(lines[Max({i \in 2..n : Key(lines[i]) = key})])]
HeadersOf(r) == HeadersUpTo(r.lines, Len(r.lines) - 1)
WellFormed(r) ==
  /\ Len(r.lines) >= 2
  /\ Len(r.lines[1]) >= 3
  /\ \A n \in 2..(Len(r.lines) - 1) : ColonsIn(r.lines[n]) # {}
  /\ r.lines[Len(r.lines)] = <<>>
  /\ ~LengthRefused(HeadersOf(r))
  /\ Len(r.body) = ContentLength(HeadersOf(r))

\* What is handed to the pool for it, with what keep_alive was set to.
Meaning(r) ==
  [target |-> SubSeq(r.lines[1], 1, 2), headers |-> HeadersOf(r), body |-> r.body,
   close |-> Closes(HeadersOf(r))]

ASSUME StreamsAreRequests == \A s \in Streams : s \in Seq(Requests)

VARIABLES sent,        \* the requests the client sends, fixed at the start
          wire,        \* the units on their way to the server
          buffer,      \* the units read and not yet parsed
          state,       \* ParseState
          target,      \* method and path
          headers,
          length,      \* content_length
          keepAlive,
          io,          \* "none", "read" or "parse"
          reading,     \* async_read_some is outstanding
          requests,    \* the requests handed to the pool so far
          working,     \* those among them, by number, that a worker has
          posted,      \* the functions posted to the io thread
          outbox,      \* write_queue
          writing,     \* the writing flag; async_write is outstanding
          conn,        \* "handshake", "open", "shutdown", "closed" or "dropped"
          answered     \* the requests whose replies were written, in order

netVars == <<sent, wire>>
parseVars == <<state, target, headers, length, keepAlive>>
writeVars == <<outbox, writing, answered>>
vars == <<netVars, buffer, parseVars, io, reading, requests, working, posted,
          writeVars, conn>>

\* A posted function: send_response, or send_response_safe, which posts it.
\* reply is the number of the request it answers, 0 for an error reply.
Send(reply) == [safe |-> FALSE, reply |-> reply]
SendSafe(reply) == [safe |-> TRUE, reply |-> reply]
Post(f) == posted' = Append(posted, f)

NoHeaders == [key \in {} |-> <<>>]

Init ==
  /\ sent \in Streams
  /\ wire = FlattenSeq([n \in DOMAIN sent |-> TextOf(sent[n])])
  /\ buffer = <<>>
  /\ state = "RequestLine" /\ target = <<>> /\ headers = NoHeaders /\ length = 0
  /\ keepAlive = TRUE
  /\ io = "none" /\ reading = FALSE
  /\ requests = <<>> /\ working = {}
  /\ posted = <<>> /\ outbox = <<>> /\ writing = FALSE
  /\ conn = "handshake"
  /\ answered = <<>>

\* parse looks for the first CR that an LF follows.  The line before it may
\* hold a CR or an LF alone.
LineEnd ==
  {n \in DOMAIN buffer : buffer[n] = "cr" /\ n + 1 \in DOMAIN buffer /\ buffer[n + 1] = "lf"}
FirstLine == SubSeq(buffer, 1, Min(LineEnd) - 1)
AfterLine == SubSeq(buffer, Min(LineEnd) + 2, Len(buffer))
-----------------------------------------------------------------------------
(***************************************************************************)
(* Faulty variants of the definitions below, not part of the               *)
(* specification: each is a mistake that some property at the end of the   *)
(* module catches.                                                         *)
(***************************************************************************)
\* After the 400 for a bad request line, parse goes on with its loop.
ParseRequestLineGoesOn ==
  /\ io = "parse"
  /\ state = "RequestLine"
  /\ LineEnd # {}
  /\ buffer' = AfterLine
  /\ IF IsRequestLine(FirstLine)
       THEN state' = "Header" /\ target' = Target(FirstLine) /\ UNCHANGED <<io, posted>>
       ELSE Post(Send(0)) /\ UNCHANGED <<io, state, target>>
  /\ UNCHANGED <<netVars, headers, length, keepAlive, reading, requests, working,
                 writeVars, conn>>

\* The first header of a name counts, as if it were inserted into the map.
ParseHeaderOnce ==
  /\ io = "parse"
  /\ state = "Header"
  /\ LineEnd # {}
  /\ FirstLine # <<>>
  /\ buffer' = AfterLine
  /\ IF ColonsIn(FirstLine) = {}
       THEN io' = "none" /\ Post(Send(0)) /\ UNCHANGED headers
       ELSE /\ headers' = [key \in DOMAIN headers \cup {Key(FirstLine)} |->
                            IF key \in DOMAIN headers THEN headers[key] ELSE Value(FirstLine)]
            /\ UNCHANGED <<io, posted>>
  /\ UNCHANGED <<netVars, state, target, length, keepAlive, reading, requests, working,
                 writeVars, conn>>

\* What reset_parser does not touch when it forgets to clear the headers.
Dispatch(body, alive) ==
  /\ requests' = Append(requests, [target |-> target, headers |-> headers,
                                   body |-> body, close |-> ~alive])
  /\ working' = working \cup {Len(requests) + 1}
CompleteWithoutReset(body, alive) ==
  /\ Dispatch(body, alive)
  /\ state' = "RequestLine" /\ target' = <<>> /\ length' = 0 /\ UNCHANGED headers
  /\ io' = "none"

\* A pipelined request is parsed while the first is with a worker.
CompleteAndGoOn(body, alive) ==
  /\ Dispatch(body, alive)
  /\ state' = "RequestLine" /\ target' = <<>> /\ headers' = NoHeaders /\ length' = 0
  /\ io' = "parse"

\* Only the syntax of Content-Length is tested, not its size.
ParseAnyLength ==
  /\ io = "parse"
  /\ state = "Header"
  /\ LineEnd # {}
  /\ FirstLine = <<>>
  /\ LengthKey \in DOMAIN headers /\ Numeric(headers[LengthKey])
  /\ buffer' = AfterLine
  /\ keepAlive' = ~Closes(headers)
  /\ length' = ContentLength(headers)
  /\ state' = "Body"
  /\ UNCHANGED <<netVars, target, headers, io, posted, requests, working, reading,
                 writeVars, conn>>

\* do_write does not look at keep_alive.
WriteCompletesAlive ==
  /\ io = "none"
  /\ writing
  /\ answered' = IF Head(outbox) = 0 THEN answered ELSE Append(answered, Head(outbox))
  /\ outbox' = Tail(outbox)
  /\ IF Tail(outbox) # <<>>
       THEN UNCHANGED <<writing, conn, io>>
       ELSE writing' = FALSE /\ io' = "read" /\ UNCHANGED conn
  /\ UNCHANGED <<netVars, buffer, parseVars, reading, requests, working, posted>>

\* A failed write does not close the connection.
WriteFailsSilently ==
  /\ io = "none"
  /\ writing
  /\ writing' = FALSE
  /\ outbox' = <<>>
  /\ UNCHANGED <<netVars, buffer, parseVars, io, reading, requests, working, posted,
                 answered, conn>>
-----------------------------------------------------------------------------
\* start: after the handshake do_read begins, unless it failed.
Handshake ==
  /\ conn = "handshake"
  /\ \/ conn' = "open" /\ io' = "read"
     \/ conn' = "dropped" /\ UNCHANGED io
  /\ UNCHANGED <<netVars, buffer, parseVars, reading, requests, working, posted, writeVars>>

\* do_read: what is in the buffer is parsed first; an empty buffer, or one
\* that is too long, is not.
DoRead ==
  /\ io = "read"
  /\ IF buffer = <<>>
       THEN io' = "none" /\ reading' = TRUE /\ UNCHANGED posted
       ELSE IF Len(buffer) > MaxRequestSize
         THEN io' = "none" /\ Post(Send(0)) /\ UNCHANGED reading
         ELSE io' = "parse" /\ UNCHANGED <<reading, posted>>
  /\ UNCHANGED <<netVars, buffer, parseVars, requests, working, writeVars, conn>>

\* The read completes with some of what the client sent, in any portion.
ReadCompletes ==
  /\ reading
  /\ \E n \in 1..Len(wire) :
       /\ buffer' = buffer \o SubSeq(wire, 1, n)
       /\ wire' = SubSeq(wire, n + 1, Len(wire))
       /\ IF Len(buffer) + n > MaxRequestSize
            THEN io' = "none" /\ Post(Send(0))
            ELSE io' = "parse" /\ UNCHANGED posted
  /\ reading' = FALSE
  /\ UNCHANGED <<sent, parseVars, requests, working, writeVars, conn>>

\* The read fails, or the client has closed its side: the session is let go.
ReadFails ==
  /\ reading
  /\ reading' = FALSE
  /\ conn' = "dropped"
  /\ UNCHANGED <<netVars, buffer, parseVars, io, requests, working, posted, writeVars>>
-----------------------------------------------------------------------------
\* parse returns Incomplete: do_read goes on to async_read_some.  (The read's
\* handler calls do_read, which parses the same buffer to the same end.)
ParseIncomplete ==
  /\ io = "parse"
  /\ IF state = "Body" THEN Len(buffer) < length ELSE LineEnd = {}
  /\ io' = "none"
  /\ reading' = TRUE
  /\ UNCHANGED <<netVars, buffer, parseVars, requests, working, posted, writeVars, conn>>

\* A request line of three words, or an error reply; the line is consumed and
\* the state stays as it is.  (What a line of fewer words leaves in method and
\* path is overwritten before anything reads it.)
ParseRequestLine ==
  /\ io = "parse"
  /\ state = "RequestLine"
  /\ LineEnd # {}
  /\ buffer' = AfterLine
  /\ IF IsRequestLine(FirstLine)
       THEN state' = "Header" /\ target' = Target(FirstLine) /\ UNCHANGED <<io, posted>>
       ELSE io' = "none" /\ Post(Send(0)) /\ UNCHANGED <<state, target>>
  /\ UNCHANGED <<netVars, headers, length, keepAlive, reading, requests, working,
                 writeVars, conn>>

\* A header line: the last of a name counts.  A line without a colon is an
\* error, and the state stays "Header".
ParseHeader ==
  /\ io = "parse"
  /\ state = "Header"
  /\ LineEnd # {}
  /\ FirstLine # <<>>
  /\ buffer' = AfterLine
  /\ IF ColonsIn(FirstLine) = {}
       THEN io' = "none" /\ Post(Send(0)) /\ UNCHANGED headers
       ELSE /\ headers' = [key \in DOMAIN headers \cup {Key(FirstLine)} |->
                            IF key = Key(FirstLine) THEN Value(FirstLine) ELSE headers[key]]
            /\ UNCHANGED <<io, posted>>
  /\ UNCHANGED <<netVars, state, target, length, keepAlive, reading, requests, working,
                 writeVars, conn>>

\* parse returns Complete: process_request submits the request to the pool,
\* and reset_parser clears everything but keep_alive.
Complete(body, alive) ==
  /\ requests' = Append(requests, [target |-> target, headers |-> headers,
                                   body |-> body, close |-> ~alive])
  /\ working' = working \cup {Len(requests) + 1}
  /\ state' = "RequestLine" /\ target' = <<>> /\ headers' = NoHeaders /\ length' = 0
  /\ io' = "none"

\* The blank line that ends the headers: an error reply, after which state and
\* headers stay as they are, a body to wait for, or a request without one.
ParseEndOfHeaders ==
  /\ io = "parse"
  /\ state = "Header"
  /\ LineEnd # {}
  /\ FirstLine = <<>>
  /\ buffer' = AfterLine
  /\ keepAlive' = ~Closes(headers)
  /\ \/ /\ LengthRefused(headers)
        /\ io' = "none" /\ Post(Send(0))
        /\ UNCHANGED <<state, target, headers, length, requests, working>>
     \/ /\ ~LengthRefused(headers) /\ ContentLength(headers) > 0
        /\ length' = ContentLength(headers) /\ state' = "Body"
        /\ UNCHANGED <<target, headers, io, posted, requests, working>>
     \/ /\ ~LengthRefused(headers) /\ ContentLength(headers) = 0
        /\ Complete(<<>>, ~Closes(headers))
        /\ UNCHANGED posted
  /\ UNCHANGED <<netVars, reading, writeVars, conn>>

\* The whole body is there.
ParseBody ==
  /\ io = "parse"
  /\ state = "Body"
  /\ Len(buffer) >= length
  /\ buffer' = SubSeq(buffer, length + 1, Len(buffer))
  /\ Complete(SubSeq(buffer, 1, length), keepAlive)
  /\ UNCHANGED <<netVars, keepAlive, reading, posted, writeVars, conn>>
-----------------------------------------------------------------------------
\* A worker has routed the request and posts its reply to the io thread.
WorkerReplies(r) ==
  /\ r \in working
  /\ working' = working \ {r}
  /\ Post(SendSafe(r))
  /\ UNCHANGED <<netVars, buffer, parseVars, io, reading, requests, writeVars, conn>>

\* The io thread runs a posted function: send_response_safe posts once more,
\* send_response queues the reply and starts to write unless a write runs.
RunPosted ==
  /\ io = "none"
  /\ posted # <<>>
  /\ LET f == Head(posted)
     IN  IF f.safe
           THEN /\ posted' = Append(Tail(posted), Send(f.reply))
                /\ UNCHANGED <<outbox, writing>>
           ELSE /\ posted' = Tail(posted)
                /\ outbox' = Append(outbox, f.reply)
                /\ writing' = TRUE
  /\ UNCHANGED <<netVars, buffer, parseVars, io, reading, requests, working, answered, conn>>

\* A write completes; do_write takes the next reply, or, when there is none,
\* closes the connection or goes on with do_read.
WriteCompletes ==
  /\ io = "none"
  /\ writing
  /\ answered' = IF Head(outbox) = 0 THEN answered ELSE Append(answered, Head(outbox))
  /\ outbox' = Tail(outbox)
  /\ IF Tail(outbox) # <<>>
       THEN UNCHANGED <<writing, conn, io>>
       ELSE /\ writing' = FALSE
            /\ IF keepAlive THEN io' = "read" /\ UNCHANGED conn
                            ELSE conn' = "shutdown" /\ UNCHANGED io
  /\ UNCHANGED <<netVars, buffer, parseVars, reading, requests, working, posted>>

\* A write fails: the queue is dropped and the connection closed.
WriteFails ==
  /\ io = "none"
  /\ writing
  /\ writing' = FALSE
  /\ outbox' = <<>>
  /\ conn' = "shutdown"
  /\ UNCHANGED <<netVars, buffer, parseVars, io, reading, requests, working, posted, answered>>

\* do_shutdown's handler closes the socket, whatever async_shutdown says.
ShutdownCompletes ==
  /\ conn = "shutdown"
  /\ conn' = "closed"
  /\ UNCHANGED <<netVars, buffer, parseVars, io, reading, requests, working, posted, writeVars>>

Parse == \/ ParseIncomplete \/ ParseRequestLine \/ ParseHeader
         \/ ParseEndOfHeaders \/ ParseBody
Completion == \/ Handshake \/ ReadCompletes \/ ReadFails
              \/ RunPosted \/ WriteCompletes \/ WriteFails \/ ShutdownCompletes

Next == Completion \/ DoRead \/ Parse \/ \E r \in working : WorkerReplies(r)

Spec == Init /\ [][Next]_vars

\* The io thread runs what is ready, and workers finish.  Nothing makes a
\* client send, and nothing makes it read: no timer limits an async_write.
Fairness ==
  /\ WF_vars(DoRead \/ Parse)
  /\ WF_vars(RunPosted)
  /\ WF_vars(\E r \in working : WorkerReplies(r))

FairSpec == Spec /\ Fairness
-----------------------------------------------------------------------------
TypeOK ==
  /\ state \in {"RequestLine", "Header", "Body"}
  /\ target = <<>> \/ target \in Words \X Words
  /\ \A key \in DOMAIN headers : key \in Seq(Units) /\ headers[key] \in Seq(Units)
  /\ length \in 0..MaxRequestSize /\ keepAlive \in BOOLEAN
  /\ io \in {"none", "read", "parse"}
  /\ reading \in BOOLEAN /\ writing \in BOOLEAN
  /\ working \subseteq 1..Len(requests)
  /\ \A n \in DOMAIN posted :
       posted[n].safe \in BOOLEAN /\ posted[n].reply \in 0..Len(requests)
  /\ \A n \in DOMAIN outbox : outbox[n] \in 0..Len(requests)
  /\ conn \in {"handshake", "open", "shutdown", "closed", "dropped"}

\* Exactly one thing is outstanding for a session until it has ended: two
\* reads never share temp and buffer, no request is parsed while another is
\* with a worker or its reply is being written, and the session never falls
\* silent (do_read, process_request, send_response, do_write).
Outstanding ==
  (IF io # "none" THEN {"io"} ELSE {}) \cup (IF reading THEN {"read"} ELSE {})
  \cup (IF working # {} THEN {"worker"} ELSE {}) \cup (IF posted # <<>> THEN {"posted"} ELSE {})
  \cup (IF writing THEN {"write"} ELSE {})
  \cup (IF conn \in {"handshake", "shutdown"} THEN {"tls"} ELSE {})
  \cup (IF conn \in {"closed", "dropped"} THEN {"ended"} ELSE {})
OneActivity ==
  /\ \A a, b \in Outstanding : a = b
  /\ Outstanding # {}
  /\ \A r, s \in working : r = s
  /\ Len(posted) <= 1
  /\ outbox # <<>> <=> writing
  /\ Len(outbox) <= 1

\* Replies are written in the order of the requests, each once, and at most
\* one request at a time waits for its reply.
RepliesInOrder ==
  /\ answered = [n \in 1..Len(answered) |-> n]
  /\ Len(requests) - 1 <= Len(answered) /\ Len(answered) <= Len(requests)

\* Nothing is dispatched after a request that asked for the connection to be
\* closed.
CloseIsLast == \A n \in 1..(Len(requests) - 1) : ~requests[n].close

\* However reads cut the stream, within a line, between the CR and the LF that
\* end it, or within a body, the requests dispatched are those the client sent,
\* in its order, each with its method and path, its headers, its body and its
\* wish to close, up to the first that is not as it should be.
Meant(n) == \A m \in 1..n : WellFormed(sent[m])
Framing ==
  \A n \in DOMAIN requests :
    IF n \in DOMAIN sent /\ Meant(n)
      THEN requests[n] = Meaning(sent[n])
      ELSE \E m \in DOMAIN sent : ~WellFormed(sent[m])

\* If writes end, which takes a client that reads or goes away, every
\* dispatched request is answered or the connection ends.
WritesEnd == WF_vars(WriteCompletes \/ WriteFails)
EveryRequestAnswered ==
  WritesEnd =>
    \A n \in 1..3 :
      Len(requests) = n ~> (Len(answered) >= n \/ conn \in {"shutdown", "closed", "dropped"})

\* The session implements a conversation: however reads cut the stream, and
\* workers, posted functions and writes interleave, the client's requests are
\* taken in order and as it meant them, each is answered before the next, and
\* a reply ends the connection exactly if its request said so.
Ended == conn \in {"shutdown", "closed", "dropped"}
Promise == INSTANCE Conversation WITH ended <- Ended
Refines == Promise!Spec
=============================================================================
