---------------------------- MODULE SessionProofs ---------------------------
(***************************************************************************)
(* A session does one thing at a time, answers in order, dispatches        *)
(* nothing after a request that closes the connection, and dispatches what *)
(* the client sent, for every stream and every limit.                      *)
(*                                                                         *)
(* The first three belong together: the invariant SInv says in which of    *)
(* six places the session is, and what has been answered there: while the  *)
(* io thread reads or parses, everything, and no request asked for a       *)
(* close; while a reply is on its way, all but the request it answers.     *)
(*                                                                         *)
(* Framing needs more: where the parser stands in what the client sent.    *)
(* The invariant FInv says that buffer and wire are the rest of the stream *)
(* and that, until a request turns up that is not as it should be, the     *)
(* parser is at the start of the request after the last one dispatched, or *)
(* after so many of its lines, with the headers those make, or before its  *)
(* body.  The heart of it is NextLine: where a line of the client's is     *)
(* next in the stream, what parse cuts off the buffer is that line, for    *)
(* the buffer is a beginning of what is left and the line holds no CR.  So *)
(* a read may end anywhere and nothing is lost or shifted.                 *)
(*                                                                         *)
(* From the two together the last section shows that a session implements  *)
(* Conversation.                                                           *)
(***************************************************************************)
EXTENDS Session, DataLemmas, TLAPS

\* What the parser holds, and what is kept of a request once it is dispatched.
Targets == {<<>>} \cup (Words \X Words)
HeaderMaps == UNION {[K -> Seq(Units)] : K \in SUBSET Seq(Units)}
Request == [target : Targets, headers : HeaderMaps, body : Seq(Units), close : BOOLEAN]
Spelt ==
  /\ buffer \in Seq(Units) /\ wire \in Seq(Units)
  /\ target \in Targets /\ headers \in HeaderMaps

Typed ==
  /\ state \in {"RequestLine", "Header", "Body"}
  /\ keepAlive \in BOOLEAN /\ length \in 0..MaxRequestSize
  /\ io \in {"none", "read", "parse"}
  /\ reading \in BOOLEAN /\ writing \in BOOLEAN
  /\ requests \in Seq(Request)
  /\ answered \in Seq(Nat)
  /\ \A n \in 1..Len(answered) : answered[n] = n

Alive(n) == \A m \in 1..n : ~requests[m].close

\* All requests are answered, and none was the last.
UpToDate == Len(answered) = Len(requests) /\ Alive(Len(requests))

\* The reply r that is on its way: of the last request, or of an error.
Due(r) ==
  \/ r = 0 /\ UpToDate
  \/ /\ r = Len(requests) /\ r > 0 /\ Len(answered) = r - 1
     /\ Alive(r - 1)
     /\ requests[r].close = ~keepAlive

NoReply == working = {} /\ posted = <<>> /\ outbox = <<>> /\ ~writing
NoInput == io = "none" /\ ~reading

\* The six places.
OnIo == io # "none" /\ ~reading /\ NoReply /\ conn = "open" /\ UpToDate
InRead == io = "none" /\ reading /\ NoReply /\ conn = "open" /\ UpToDate
WithWorker ==
  /\ NoInput /\ conn = "open" /\ posted = <<>> /\ outbox = <<>> /\ ~writing
  /\ working = {Len(requests)} /\ Len(requests) > 0 /\ Due(Len(requests))
InPost ==
  /\ NoInput /\ conn = "open" /\ working = {} /\ outbox = <<>> /\ ~writing
  /\ \E f \in [safe : BOOLEAN, reply : Nat] : posted = <<f>> /\ Due(f.reply)
InWrite ==
  /\ NoInput /\ conn = "open" /\ working = {} /\ posted = <<>> /\ writing
  /\ \E r \in Nat : outbox = <<r>> /\ Due(r)
Outside ==
  /\ NoInput /\ NoReply
  /\ \/ conn = "handshake" /\ UpToDate
     \/ /\ conn \in {"shutdown", "closed", "dropped"}
        /\ Len(requests) - 1 <= Len(answered) /\ Len(answered) <= Len(requests)
        /\ Alive(Len(requests) - 1)

SInv == Typed /\ (OnIo \/ InRead \/ WithWorker \/ InPost \/ InWrite \/ Outside)
-----------------------------------------------------------------------------
(***************************************************************************)
(* What lines are made of.                                                 *)
(***************************************************************************)
\* The least of some places in a sequence.
LEMMA LeastPlace ==
  ASSUME NEW n \in Nat, NEW S, S \subseteq 1..n, S # {}
  PROVE  Min(S) \in S /\ Min(S) \in 1..n /\ \A m \in S : Min(S) <= m
<1>1. IsFiniteSet(1..n) /\ 1..n \subseteq Int
  BY FS_Interval
<1>2. IsFiniteSet(S)
  BY <1>1, FS_Subset
<1> QED
  BY <1>1, <1>2, FiniteSetHasMinimum

\* The first line of a buffer, and what is after it.
LEMMA LineIsCut ==
  ASSUME Spelt, LineEnd # {}
  PROVE  /\ Min(LineEnd) \in LineEnd /\ Min(LineEnd) \in 1..(Len(buffer) - 1)
         /\ \A m \in LineEnd : Min(LineEnd) <= m
         /\ FirstLine \in Seq(Units) /\ AfterLine \in Seq(Units)
<1>1. Len(buffer) \in Nat /\ DOMAIN buffer = 1..Len(buffer)
  BY DEF Spelt
<1>2. LineEnd \subseteq 1..Len(buffer)
  BY <1>1 DEF LineEnd
<1>3. Min(LineEnd) \in LineEnd /\ \A m \in LineEnd : Min(LineEnd) <= m
  BY <1>1, <1>2, LeastPlace
<1>4. Min(LineEnd) \in 1..(Len(buffer) - 1)
  BY <1>1, <1>3 DEF LineEnd
<1> HIDE DEF LineEnd
<1>5. FirstLine \in Seq(Units) /\ AfterLine \in Seq(Units)
  <2> DEFINE m == Min(LineEnd)
  <2>1. m \in 1..(Len(buffer) - 1)
    BY <1>4
  <2> HIDE DEF m
  <2>2. SubSeq(buffer, 1, m - 1) \in Seq(Units)
    BY <1>1, <2>1 DEF Spelt
  <2>3. SubSeq(buffer, m + 2, Len(buffer)) \in Seq(Units)
    BY <1>1, <2>1 DEF Spelt
  <2> QED
    BY <2>2, <2>3 DEF FirstLine, AfterLine, m
<1> QED
  BY <1>3, <1>4, <1>5

\* A request line has its method and its path.
LEMMA TargetIsTwoWords ==
  ASSUME NEW line \in Seq(Units), IsRequestLine(line)
  PROVE  Target(line) \in Words \X Words
<1> DEFINE W == WordsIn(line)
<1>1. Len(line) \in Nat /\ W \subseteq 1..Len(line) /\ \A n \in W : line[n] \in Words
  BY DEF WordsIn, Units
<1>2. IsFiniteSet(W) /\ Cardinality(W) >= 3
  <2>1. IsFiniteSet(1..Len(line))
    BY <1>1, FS_Interval
  <2>2. IsFiniteSet(W)
    BY <1>1, <2>1, FS_Subset
  <2> QED
    BY <2>2 DEF IsRequestLine
<1>3. W # {}
  BY <1>2, FS_EmptySet
<1> HIDE DEF W
<1>4. Min(W) \in W
  BY <1>1, <1>3, LeastPlace
<1> DEFINE V == W \ {Min(W)}
<1>5. V # {}
  <2>1. Cardinality(V) = Cardinality(W) - 1
    BY <1>2, <1>4, FS_RemoveElement
  <2>2. Cardinality(V) # 0
    BY <1>2, <2>1, FS_CardinalityType
  <2> QED
    BY <2>2, FS_EmptySet
<1>6. V \subseteq 1..Len(line)
  BY <1>1
<1> HIDE DEF V
<1>7. Min(V) \in V
  BY <1>1, <1>5, <1>6, LeastPlace
<1>8. line[Min(W)] \in Words /\ line[Min(V)] \in Words
  BY <1>1, <1>4, <1>7 DEF V
<1> QED
  BY <1>8 DEF Target, W, V

\* A header has a name and a value.
LEMMA KeyAndValue ==
  ASSUME NEW line \in Seq(Units), ColonsIn(line) # {}
  PROVE  Key(line) \in Seq(Units) /\ Value(line) \in Seq(Units)
<1>1. Len(line) \in Nat /\ ColonsIn(line) \subseteq 1..Len(line)
  BY DEF ColonsIn
<1> DEFINE m == Min(ColonsIn(line))
<1>2. m \in 1..Len(line)
  BY <1>1, LeastPlace
<1> HIDE DEF m
<1>3. SubSeq(line, 1, m) \in Seq(Units) /\ SubSeq(line, m + 1, Len(line)) \in Seq(Units)
  BY <1>1, <1>2
<1> QED
  BY <1>3 DEF Key, Value, m

LEMMA NothingIsKept == NoHeaders \in HeaderMaps /\ <<>> \in Targets
<1>1. {} \in SUBSET Seq(Units) /\ NoHeaders \in [{} -> Seq(Units)]
  BY DEF NoHeaders
<1> QED
  BY <1>1 DEF HeaderMaps, Targets

(***************************************************************************)
(* The stream: requests one after another, each its lines, one after       *)
(* another, and its body.                                                  *)
(***************************************************************************)
Crlf == <<"cr", "lf">>
LinesOf(r) == [n \in DOMAIN r.lines |-> r.lines[n] \o Crlf]
HeadOf(r) == FlattenSeq(LinesOf(r))
LineStart(r) == CHOOSE start : Laid(LinesOf(r), HeadOf(r), start)

Texts == [n \in DOMAIN sent |-> TextOf(sent[n])]
All == FlattenSeq(Texts)
Start == CHOOSE start : Laid(Texts, All, start)

\* A line ends with its CRLF.
LEMMA LineEnds ==
  ASSUME NEW line \in Seq(Words)
  PROVE  /\ line \o Crlf \in Seq(Units) /\ Len(line \o Crlf) = Len(line) + 2
         /\ \A i \in 1..Len(line) : (line \o Crlf)[i] = line[i]
         /\ (line \o Crlf)[Len(line) + 1] = "cr" /\ (line \o Crlf)[Len(line) + 2] = "lf"
<1>1. line \in Seq(Units) /\ Crlf \in Seq(Units) /\ Len(Crlf) = 2
      /\ Crlf[1] = "cr" /\ Crlf[2] = "lf"
  BY DEF Units, Breaks, Crlf
<1> HIDE DEF Crlf
<1>2. /\ line \o Crlf \in Seq(Units) /\ Len(line \o Crlf) = Len(line) + 2
      /\ \A i \in 1..Len(line) : (line \o Crlf)[i] = line[i]
      /\ \A i \in 1..2 : (line \o Crlf)[Len(line) + i] = Crlf[i]
  BY <1>1, Appended
<1> QED
  BY <1>1, <1>2

\* A request as it was sent.
LEMMA RequestIsLaid ==
  ASSUME NEW r \in Requests
  PROVE  /\ r.lines \in Seq(Seq(Words)) /\ Len(r.lines) \in Nat /\ r.body \in Seq(Units)
         /\ Len(r.body) \in Nat
         /\ LinesOf(r) \in Seq(Seq(Units)) /\ Len(LinesOf(r)) = Len(r.lines)
         /\ \A n \in 1..Len(r.lines) : LinesOf(r)[n] = r.lines[n] \o Crlf
         /\ HeadOf(r) \in Seq(Units) /\ Len(HeadOf(r)) \in Nat
         /\ Laid(LinesOf(r), HeadOf(r), LineStart(r))
         /\ TextOf(r) = HeadOf(r) \o r.body /\ TextOf(r) \in Seq(Units)
<1>1. r.lines \in Seq(Seq(Words)) /\ r.body \in Seq(Units)
  BY DEF Requests
<1>2. Len(r.lines) \in Nat /\ Len(r.body) \in Nat /\ DOMAIN r.lines = 1..Len(r.lines)
  BY <1>1
<1>3. \A n \in 1..Len(r.lines) : r.lines[n] \o Crlf \in Seq(Units)
  <2>1. \A n \in 1..Len(r.lines) : r.lines[n] \in Seq(Words)
    BY <1>1
  <2> QED
    BY <2>1, LineEnds
<1>4. LinesOf(r) = [n \in 1..Len(r.lines) |-> r.lines[n] \o Crlf]
  BY <1>2 DEF LinesOf
<1>5. /\ LinesOf(r) \in Seq(Seq(Units)) /\ Len(LinesOf(r)) = Len(r.lines)
      /\ \A n \in 1..Len(r.lines) : LinesOf(r)[n] = r.lines[n] \o Crlf
  BY <1>2, <1>3, <1>4
<1>6. HeadOf(r) \in Seq(Units) /\ \E start : Laid(LinesOf(r), HeadOf(r), start)
  BY <1>5, FlattenLays DEF HeadOf
<1>7. Laid(LinesOf(r), HeadOf(r), LineStart(r))
  BY <1>6 DEF LineStart
<1>8. TextOf(r) = HeadOf(r) \o r.body
  BY DEF TextOf, HeadOf, LinesOf, Crlf
<1>9. TextOf(r) \in Seq(Units) /\ Len(HeadOf(r)) \in Nat
  BY <1>1, <1>6, <1>8
<1> QED
  BY <1>1, <1>2, <1>5, <1>6, <1>7, <1>8, <1>9

\* A stream as it was sent.
LEMMA SentIsLaid ==
  ASSUME sent \in Streams
  PROVE  /\ sent \in Seq(Requests) /\ Len(sent) \in Nat /\ DOMAIN sent = 1..Len(sent)
         /\ All \in Seq(Units) /\ Laid(Texts, All, Start) /\ Len(All) \in Nat
         /\ Len(Texts) = Len(sent) /\ \A n \in DOMAIN sent : Texts[n] = TextOf(sent[n])
<1>1. sent \in Seq(Requests) /\ Len(sent) \in Nat /\ DOMAIN sent = 1..Len(sent)
  BY StreamsAreRequests
<1>2. \A n \in DOMAIN sent : TextOf(sent[n]) \in Seq(Units)
  <2>1. \A n \in DOMAIN sent : sent[n] \in Requests
    BY <1>1
  <2> QED
    BY <2>1, RequestIsLaid
<1>3. Texts \in Seq(Seq(Units)) /\ Len(Texts) = Len(sent)
      /\ \A n \in DOMAIN sent : Texts[n] = TextOf(sent[n])
  BY <1>1, <1>2 DEF Texts
<1>4. All \in Seq(Units) /\ \E start : Laid(Texts, All, start)
  BY <1>3, FlattenLays DEF All
<1>5. Laid(Texts, All, Start)
  BY <1>4 DEF Start
<1> QED
  BY <1>1, <1>3, <1>4, <1>5

LEMMA InitSpelt == Init => Spelt
<1> SUFFICES ASSUME Init PROVE Spelt
  OBVIOUS
<1>1. wire = All /\ sent \in Streams
  BY DEF Init, All, Texts
<1>2. wire \in Seq(Units)
  BY <1>1, SentIsLaid
<1> QED
  BY <1>2, NothingIsKept DEF Init, Spelt

LEMMA NextKeepsSpelt == Spelt /\ SInv /\ [Next]_vars => Spelt'
<1> SUFFICES ASSUME Spelt, SInv, [Next]_vars PROVE Spelt'
  OBVIOUS
<1>1. ASSUME UNCHANGED <<wire, buffer, target, headers>> PROVE Spelt'
  BY <1>1 DEF Spelt
<1>2. CASE Handshake \/ DoRead \/ ReadFails \/ ParseIncomplete
  BY <1>1, <1>2 DEF Handshake, DoRead, ReadFails, ParseIncomplete, netVars, parseVars
<1>3. CASE RunPosted \/ \E r \in working : WorkerReplies(r)
  BY <1>1, <1>3 DEF RunPosted, WorkerReplies, netVars, parseVars
<1>4. CASE WriteCompletes \/ WriteFails \/ ShutdownCompletes
  BY <1>1, <1>4 DEF WriteCompletes, WriteFails, ShutdownCompletes, netVars, parseVars
<1>5. CASE UNCHANGED vars
  BY <1>1, <1>5 DEF vars, netVars, parseVars
<1>6. CASE ReadCompletes
  <2>1. PICK n \in 1..Len(wire) : /\ buffer' = buffer \o SubSeq(wire, 1, n)
                                  /\ wire' = SubSeq(wire, n + 1, Len(wire))
    BY <1>6 DEF ReadCompletes
  <2>2. SubSeq(wire, 1, n) \in Seq(Units) /\ SubSeq(wire, n + 1, Len(wire)) \in Seq(Units)
    BY DEF Spelt
  <2>3. buffer' \in Seq(Units) /\ wire' \in Seq(Units)
    BY <2>1, <2>2 DEF Spelt
  <2>4. UNCHANGED <<target, headers>>
    BY <1>6 DEF ReadCompletes, parseVars
  <2> QED
    BY <2>3, <2>4 DEF Spelt
<1>7. CASE ParseRequestLine
  <2>1. LineEnd # {} /\ buffer' = AfterLine /\ UNCHANGED <<wire, headers>>
    BY <1>7 DEF ParseRequestLine, netVars
  <2>2. FirstLine \in Seq(Units) /\ AfterLine \in Seq(Units)
    BY <2>1, LineIsCut
  <2>3. target' \in Targets
    <3> HIDE DEF FirstLine
    <3>1. IsRequestLine(FirstLine) => Target(FirstLine) \in Targets
      BY <2>2, TargetIsTwoWords DEF Targets
    <3> QED
      BY <1>7, <3>1 DEF ParseRequestLine, Spelt
  <2> QED
    BY <2>1, <2>2, <2>3 DEF Spelt
<1>8. CASE ParseHeader
  <2>1. LineEnd # {} /\ buffer' = AfterLine /\ UNCHANGED <<wire, target>>
    BY <1>8 DEF ParseHeader, netVars
  <2>2. FirstLine \in Seq(Units) /\ AfterLine \in Seq(Units)
    BY <2>1, LineIsCut
  <2>3. headers' \in HeaderMaps
    <3>1. CASE ColonsIn(FirstLine) = {}
      BY <1>8, <3>1 DEF ParseHeader, Spelt
    <3>2. CASE ColonsIn(FirstLine) # {}
      <4> DEFINE k == Key(FirstLine)
                 v == Value(FirstLine)
      <4>1. headers' = [key \in DOMAIN headers \cup {k} |-> IF key = k THEN v ELSE headers[key]]
        BY <1>8, <3>2 DEF ParseHeader
      <4>2. k \in Seq(Units) /\ v \in Seq(Units)
        BY <2>2, <3>2, KeyAndValue
      <4> HIDE DEF k, v
      <4>3. PICK K \in SUBSET Seq(Units) : headers \in [K -> Seq(Units)]
        BY DEF Spelt, HeaderMaps
      <4>4. K \cup {k} \in SUBSET Seq(Units) /\ headers' \in [K \cup {k} -> Seq(Units)]
        BY <4>1, <4>2, <4>3
      <4> QED
        BY <4>4 DEF HeaderMaps
    <3> QED
      BY <3>1, <3>2
  <2> QED
    BY <2>1, <2>2, <2>3 DEF Spelt
<1>9. CASE ParseEndOfHeaders
  <2>1. LineEnd # {} /\ buffer' = AfterLine /\ UNCHANGED wire
    BY <1>9 DEF ParseEndOfHeaders, netVars
  <2>2. AfterLine \in Seq(Units)
    BY <2>1, LineIsCut
  <2>3. target' \in Targets /\ headers' \in HeaderMaps
    BY <1>9, NothingIsKept DEF ParseEndOfHeaders, Complete, Spelt
  <2> QED
    BY <2>1, <2>2, <2>3 DEF Spelt
<1>10. CASE ParseBody
  <2>1. /\ buffer' = SubSeq(buffer, length + 1, Len(buffer)) /\ UNCHANGED wire
        /\ target' = <<>> /\ headers' = NoHeaders /\ length \in Nat
    BY <1>10, SizeIsNatural DEF ParseBody, Complete, netVars, SInv, Typed
  <2>2. buffer' \in Seq(Units)
    BY <2>1 DEF Spelt
  <2> QED
    BY <2>1, <2>2, NothingIsKept DEF Spelt
<1> QED
  BY <1>2, <1>3, <1>4, <1>5, <1>6, <1>7, <1>8, <1>9, <1>10 DEF Next, Completion, Parse

-----------------------------------------------------------------------------
LEMMA Lengths == Typed => Len(requests) \in Nat /\ Len(answered) \in Nat
  BY DEF Typed

LEMMA InitSInv == Init => SInv
<1> SUFFICES ASSUME Init PROVE SInv
  OBVIOUS
<1>1. Typed
  <2>1. requests \in Seq(Request) /\ answered \in Seq(Nat) /\ Len(answered) = 0
    BY DEF Init
  <2>2. /\ state = "RequestLine" /\ length \in 0..MaxRequestSize
        /\ keepAlive = TRUE /\ io = "none" /\ reading = FALSE /\ writing = FALSE
    BY SizeIsNatural DEF Init
  <2>3. \A n \in 1..Len(answered) : answered[n] = n
    BY <2>1
  <2> QED
    BY <2>1, <2>2, <2>3 DEF Typed
<1>2. Outside
  BY DEF Init, Outside, NoInput, NoReply, UpToDate, Alive
<1> QED
  BY <1>1, <1>2 DEF SInv

\* An error reply is posted; nothing is left to answer.
LEMMA ErrorIsDue ==
  ASSUME posted = <<>>, Post(Send(0)), UpToDate'
  PROVE  \E f \in [safe : BOOLEAN, reply : Nat] : posted' = <<f>> /\ Due(f.reply)'
<1>1. Send(0) \in [safe : BOOLEAN, reply : Nat] /\ Send(0).reply = 0
  BY DEF Send
<1>2. posted' = <<Send(0)>>
  BY DEF Post
<1> QED
  BY <1>1, <1>2 DEF Due

LEMMA DoReadKeepsSInv == ASSUME SInv, DoRead PROVE SInv'
<1>1. OnIo
  BY DEF SInv, DoRead, InRead, WithWorker, InPost, InWrite, Outside, NoInput
<1>2. /\ UNCHANGED <<state, length, keepAlive, requests, working,
                     outbox, writing, answered, conn>>
      /\ UpToDate'
  BY <1>1 DEF DoRead, parseVars, writeVars, OnIo, UpToDate, Alive
<1>3. Typed'
  BY <1>2 DEF SInv, Typed, DoRead
<1>4. CASE io' = "none" /\ reading' = TRUE /\ UNCHANGED posted
  <2>1. InRead'
    BY <1>1, <1>2, <1>4 DEF OnIo, InRead, NoReply
  <2> QED
    BY <1>3, <2>1 DEF SInv
<1>5. CASE io' = "none" /\ Post(Send(0)) /\ UNCHANGED reading
  <2>1. InPost'
    BY <1>1, <1>2, <1>5, ErrorIsDue DEF OnIo, InPost, NoInput, NoReply
  <2> QED
    BY <1>3, <2>1 DEF SInv
<1>6. CASE io' = "parse" /\ UNCHANGED <<reading, posted>>
  <2>1. OnIo'
    BY <1>1, <1>2, <1>6 DEF OnIo, NoReply
  <2> QED
    BY <1>3, <2>1 DEF SInv
<1> QED
  BY <1>4, <1>5, <1>6 DEF DoRead

LEMMA HandshakeKeepsSInv == ASSUME SInv, Handshake PROVE SInv'
<1>1. Outside /\ UpToDate
  BY DEF SInv, Handshake, OnIo, InRead, WithWorker, InPost, InWrite, Outside
<1>2. /\ UNCHANGED <<state, length, keepAlive, requests, working, posted,
                     reading, outbox, writing, answered>>
      /\ UpToDate'
  BY <1>1 DEF Handshake, parseVars, writeVars, UpToDate, Alive
<1>3. Typed'
  BY <1>2 DEF SInv, Typed, Handshake
<1>4. CASE conn' = "open" /\ io' = "read"
  BY <1>1, <1>2, <1>3, <1>4 DEF SInv, OnIo, Outside, NoInput, NoReply
<1>5. CASE conn' = "dropped" /\ UNCHANGED io
  <2>1. Alive(Len(requests) - 1)' /\ Len(requests') - 1 <= Len(answered')
        /\ Len(answered') <= Len(requests')
    BY <1>2, <1>3, Lengths DEF UpToDate, Alive, Typed
  <2> QED
    BY <1>1, <1>2, <1>3, <1>5, <2>1 DEF SInv, Outside, NoInput, NoReply
<1> QED
  BY <1>4, <1>5 DEF Handshake

LEMMA ReadKeepsSInv == ASSUME SInv, ReadCompletes \/ ReadFails PROVE SInv'
<1>1. InRead
  BY DEF SInv, ReadCompletes, ReadFails, OnIo, WithWorker, InPost, InWrite, Outside, NoInput
<1>2. /\ UNCHANGED <<state, length, keepAlive, requests, working,
                     outbox, writing, answered>>
      /\ reading' = FALSE /\ UpToDate'
  BY <1>1 DEF ReadCompletes, ReadFails, parseVars, writeVars, InRead, UpToDate, Alive
<1>3. CASE ReadCompletes
  <2>1. conn' = conn /\ \/ io' = "none" /\ Post(Send(0))
                        \/ io' = "parse" /\ UNCHANGED posted
    BY <1>3 DEF ReadCompletes
  <2>2. Typed'
    BY <1>2, <2>1 DEF SInv, Typed
  <2>3. CASE io' = "none" /\ Post(Send(0))
    <3>1. InPost'
      BY <1>1, <1>2, <2>1, <2>3, ErrorIsDue DEF InRead, InPost, NoInput, NoReply
    <3> QED
      BY <2>2, <3>1 DEF SInv
  <2>4. CASE io' = "parse" /\ UNCHANGED posted
    BY <1>1, <1>2, <2>1, <2>2, <2>4 DEF SInv, InRead, OnIo, NoReply
  <2> QED
    BY <2>1, <2>3, <2>4
<1>4. CASE ReadFails
  <2>1. conn' = "dropped" /\ UNCHANGED <<io, posted>>
    BY <1>4 DEF ReadFails
  <2>2. Typed'
    BY <1>2, <2>1 DEF SInv, Typed
  <2>3. Alive(Len(requests) - 1)' /\ Len(requests') - 1 <= Len(answered')
        /\ Len(answered') <= Len(requests')
    BY <1>2, <2>2, Lengths DEF UpToDate, Alive, Typed
  <2> QED
    BY <1>1, <1>2, <2>1, <2>2, <2>3 DEF SInv, InRead, Outside, NoInput, NoReply
<1> QED
  BY <1>3, <1>4

\* While it is parsed, a request line or a header changes no request.
LEMMA ParseOnKeepsSInv ==
  ASSUME SInv, ParseIncomplete \/ ParseRequestLine \/ ParseHeader
  PROVE  SInv'
<1>1. OnIo
  BY DEF SInv, ParseIncomplete, ParseRequestLine, ParseHeader, InRead, WithWorker, InPost,
         InWrite, Outside, NoInput
<1>2. /\ UNCHANGED <<length, keepAlive, requests, working, outbox, writing, answered, conn>>
      /\ UpToDate'
  BY <1>1 DEF ParseIncomplete, ParseRequestLine, ParseHeader, parseVars, writeVars, OnIo,
              UpToDate, Alive
<1>3. \/ io' = "none" /\ reading' = TRUE /\ UNCHANGED posted
      \/ io' = "none" /\ UNCHANGED reading /\ Post(Send(0))
      \/ io' = io /\ UNCHANGED <<reading, posted>>
  BY DEF ParseIncomplete, ParseRequestLine, ParseHeader
<1>4. state' \in {"RequestLine", "Header", "Body"}
  <2>1. CASE ParseIncomplete
    BY <2>1 DEF ParseIncomplete, parseVars, SInv, Typed
  <2>2. CASE ParseRequestLine
    BY <2>2 DEF ParseRequestLine, SInv, Typed
  <2>3. CASE ParseHeader
    BY <2>3 DEF ParseHeader, SInv, Typed
  <2> QED
    BY <2>1, <2>2, <2>3
<1>5. Typed'
  BY <1>1, <1>2, <1>3, <1>4 DEF SInv, Typed, OnIo
<1>6. CASE io' = "none" /\ reading' = TRUE /\ UNCHANGED posted
  BY <1>1, <1>2, <1>5, <1>6 DEF SInv, OnIo, InRead, NoReply
<1>7. CASE io' = "none" /\ UNCHANGED reading /\ Post(Send(0))
  <2>1. InPost'
    BY <1>1, <1>2, <1>7, ErrorIsDue DEF OnIo, InPost, NoInput, NoReply
  <2> QED
    BY <1>5, <2>1 DEF SInv
<1>8. CASE io' = io /\ UNCHANGED <<reading, posted>>
  BY <1>1, <1>2, <1>5, <1>8 DEF SInv, OnIo, NoReply
<1> QED
  BY <1>3, <1>6, <1>7, <1>8

\* A complete request goes to a worker; keep_alive is what it asked for.
LEMMA CompleteKeepsSInv ==
  ASSUME Spelt, SInv, OnIo, NEW body \in Seq(Units), NEW alive \in BOOLEAN, Complete(body, alive),
         keepAlive' = alive,
         UNCHANGED <<reading, posted, outbox, writing, answered, conn>>
  PROVE  SInv'
<1> DEFINE r == [target |-> target, headers |-> headers, body |-> body, close |-> ~alive]
<1>1. /\ r \in Request /\ r.close = ~alive
      /\ requests' = Append(requests, r)
  BY DEF Request, Complete, Spelt
<1>2. /\ requests \in Seq(Request) /\ Len(requests) \in Nat
      /\ requests' \in Seq(Request) /\ Len(requests') = Len(requests) + 1
      /\ \A n \in 1..Len(requests) : requests'[n] = requests[n]
      /\ requests'[Len(requests) + 1] = r
  <2> HIDE DEF r
  <2>1. requests \in Seq(Request)
    BY DEF SInv, Typed
  <2> QED
    BY <1>1, <2>1
<1> HIDE DEF r
<1>3. Typed'
  BY <1>2, SizeIsNatural DEF SInv, Typed, Complete
<1>4. Len(answered) = Len(requests) /\ Alive(Len(requests))
  BY DEF OnIo, UpToDate
<1>5. Due(Len(requests))'
  <2>1. requests'[Len(requests')].close = ~keepAlive'
    BY <1>1, <1>2
  <2>2. Len(requests') - 1 = Len(requests) /\ Len(requests') > 0
    BY <1>2
  <2>3. \A m \in 1..Len(requests) : ~requests'[m].close
    BY <1>2, <1>4 DEF Alive
  <2> QED
    BY <1>4, <2>1, <2>2, <2>3 DEF Due, Alive
<1>6. WithWorker'
  BY <1>2, <1>5 DEF OnIo, WithWorker, NoInput, NoReply, Complete
<1> QED
  BY <1>3, <1>6 DEF SInv

\* What the headers announce is within the limit, if it is accepted.
LEMMA AcceptedLength ==
  ASSUME NEW h, ~LengthRefused(h)
  PROVE  ContentLength(h) \in 0..MaxRequestSize
  BY SizeIsNatural DEF LengthRefused, ContentLength

LEMMA EndOfHeadersKeepsSInv == ASSUME Spelt, SInv, ParseEndOfHeaders PROVE SInv'
<1> DEFINE alive == ~Closes(headers)
<1>1. /\ OnIo /\ alive \in BOOLEAN
      /\ UNCHANGED <<reading, outbox, writing, answered, conn>> /\ keepAlive' = alive
  BY DEF SInv, Typed, ParseEndOfHeaders, InRead, WithWorker, InPost, InWrite, Outside,
         NoInput, writeVars, Closes
<1>2. \/ Complete(<<>>, alive) /\ UNCHANGED posted
      \/ /\ UNCHANGED <<requests, working>>
         /\ state' \in {"Header", "Body"} /\ length' \in 0..MaxRequestSize
         /\ \/ io' = "none" /\ Post(Send(0))
            \/ UNCHANGED <<io, posted>>
  BY AcceptedLength DEF ParseEndOfHeaders, SInv, Typed
<1> HIDE DEF alive
<1>3. CASE Complete(<<>>, alive) /\ UNCHANGED posted
  <2>1. <<>> \in Seq(Units)
    OBVIOUS
  <2> QED
    BY <1>1, <1>3, <2>1, CompleteKeepsSInv
<1>4. ASSUME UNCHANGED <<requests, working>>, state' \in {"Header", "Body"},
             length' \in 0..MaxRequestSize,
             \/ io' = "none" /\ Post(Send(0))
             \/ UNCHANGED <<io, posted>>
      PROVE  SInv'
  <2>1. UpToDate'
    BY <1>1, <1>4 DEF OnIo, UpToDate, Alive
  <2>2. Typed'
    BY <1>1, <1>4 DEF SInv, Typed
  <2>3. CASE io' = "none" /\ Post(Send(0))
    <3>1. InPost'
      BY <1>1, <1>4, <2>1, <2>3, ErrorIsDue DEF OnIo, InPost, NoInput, NoReply
    <3> QED
      BY <2>2, <3>1 DEF SInv
  <2>4. CASE UNCHANGED <<io, posted>>
    BY <1>1, <1>4, <2>1, <2>2, <2>4 DEF SInv, OnIo, NoReply
  <2> QED
    BY <1>4, <2>3, <2>4
<1> QED
  BY <1>2, <1>3, <1>4

LEMMA BodyKeepsSInv == ASSUME Spelt, SInv, ParseBody PROVE SInv'
<1> DEFINE body == SubSeq(buffer, 1, length)
<1>1. /\ OnIo /\ keepAlive \in BOOLEAN /\ Complete(body, keepAlive)
      /\ UNCHANGED <<keepAlive, reading, posted, outbox, writing, answered, conn>>
  BY DEF SInv, Typed, ParseBody, InRead, WithWorker, InPost, InWrite, Outside, NoInput,
         writeVars
<1>2. body \in Seq(Units)
  BY SizeIsNatural DEF Spelt, SInv, Typed, ParseBody
<1> HIDE DEF body
<1> QED
  BY <1>1, <1>2, CompleteKeepsSInv

LEMMA WorkerKeepsSInv ==
  ASSUME SInv, NEW r \in working, WorkerReplies(r)
  PROVE  SInv'
<1>1. WithWorker /\ r = Len(requests) /\ r \in Nat
  BY Lengths DEF SInv, OnIo, InRead, InPost, InWrite, Outside, NoReply, WithWorker
<1>2. /\ UNCHANGED <<state, length, keepAlive, io, reading, requests,
                     outbox, writing, answered, conn>>
      /\ working' = {} /\ posted' = <<SendSafe(r)>>
  BY <1>1 DEF WorkerReplies, parseVars, writeVars, WithWorker, Post
<1>3. Typed' /\ Due(r)'
  BY <1>1, <1>2 DEF SInv, Typed, WithWorker, Due, UpToDate, Alive
<1>4. SendSafe(r) \in [safe : BOOLEAN, reply : Nat] /\ SendSafe(r).reply = r
  BY <1>1 DEF SendSafe
<1>5. InPost'
  BY <1>1, <1>2, <1>3, <1>4 DEF WithWorker, InPost, NoInput
<1> QED
  BY <1>3, <1>5 DEF SInv

LEMMA RunPostedKeepsSInv == ASSUME SInv, RunPosted PROVE SInv'
<1>1. InPost
  BY DEF SInv, RunPosted, OnIo, InRead, WithWorker, InWrite, Outside, NoReply
<1>2. PICK f \in [safe : BOOLEAN, reply : Nat] : posted = <<f>> /\ Due(f.reply)
  BY <1>1 DEF InPost
<1>3. Head(posted) = f /\ Tail(posted) = <<>>
  BY <1>2
<1>4. /\ UNCHANGED <<state, length, keepAlive, io, reading, requests,
                     working, answered, conn>>
      /\ \/ posted' = <<Send(f.reply)>> /\ UNCHANGED <<outbox, writing>>
         \/ posted' = <<>> /\ outbox' = <<f.reply>> /\ writing' = TRUE
  BY <1>1, <1>3 DEF RunPosted, parseVars, InPost
<1>5. Due(f.reply)' /\ f.reply \in Nat
  BY <1>2, <1>4 DEF Due, UpToDate, Alive
<1>6. Typed'
  BY <1>4 DEF SInv, Typed
<1>7. CASE posted' = <<Send(f.reply)>> /\ UNCHANGED <<outbox, writing>>
  <2>1. Send(f.reply) \in [safe : BOOLEAN, reply : Nat] /\ Send(f.reply).reply = f.reply
    BY <1>5 DEF Send
  <2>2. InPost'
    BY <1>1, <1>4, <1>5, <1>7, <2>1 DEF InPost, NoInput
  <2> QED
    BY <1>6, <2>2 DEF SInv
<1>8. CASE posted' = <<>> /\ outbox' = <<f.reply>> /\ writing' = TRUE
  <2>1. InWrite'
    BY <1>1, <1>4, <1>5, <1>8 DEF InPost, InWrite, NoInput
  <2> QED
    BY <1>6, <2>1 DEF SInv
<1> QED
  BY <1>4, <1>7, <1>8

LEMMA WriteKeepsSInv == ASSUME SInv, WriteCompletes \/ WriteFails PROVE SInv'
<1>1. InWrite
  BY DEF SInv, WriteCompletes, WriteFails, OnIo, InRead, WithWorker, InPost, Outside, NoReply
<1>2. PICK r \in Nat : outbox = <<r>> /\ Due(r)
  BY <1>1 DEF InWrite
<1>3. /\ requests \in Seq(Request) /\ answered \in Seq(Nat)
      /\ Len(requests) \in Nat /\ Len(answered) \in Nat
      /\ UNCHANGED <<state, length, keepAlive, reading, requests, working,
                     posted>>
  BY Lengths DEF SInv, Typed, WriteCompletes, WriteFails, parseVars
<1>4. CASE WriteCompletes
  <2>1. Head(outbox) = r /\ Tail(outbox) = <<>>
    BY <1>2
  <2>2. /\ answered' = (IF r = 0 THEN answered ELSE Append(answered, r))
        /\ outbox' = <<>> /\ writing' = FALSE
        /\ \/ keepAlive /\ io' = "read" /\ UNCHANGED conn
           \/ ~keepAlive /\ conn' = "shutdown" /\ UNCHANGED io
    BY <1>4, <2>1 DEF WriteCompletes
  <2>3. /\ answered' \in Seq(Nat) /\ Len(answered') = Len(requests)
        /\ \A n \in 1..Len(answered') : answered'[n] = n
    <3>1. \A n \in 1..Len(answered) : answered[n] = n
      BY DEF SInv, Typed
    <3>2. CASE r = 0
      BY <1>2, <1>3, <2>2, <3>1, <3>2 DEF Due, UpToDate
    <3>3. CASE r # 0
      <4>1. r = Len(requests) /\ r = Len(answered) + 1
        BY <1>2, <1>3, <3>3 DEF Due
      <4> QED
        BY <1>3, <2>2, <3>1, <3>3, <4>1
    <3> QED
      BY <3>2, <3>3
  <2>4. Alive(Len(requests) - 1) /\ (keepAlive => Alive(Len(requests)))
    <3>1. CASE r = 0
      BY <1>2, <1>3, <3>1 DEF Due, UpToDate, Alive
    <3>2. CASE r # 0
      <4>1. Alive(Len(requests) - 1) /\ requests[Len(requests)].close = ~keepAlive
        BY <1>2, <3>2 DEF Due, UpToDate
      <4>2. keepAlive => ~requests[Len(requests)].close
        BY <4>1, Zenon
      <4>3. \A m \in 1..Len(requests) : m \in 1..(Len(requests) - 1) \/ m = Len(requests)
        BY <1>3
      <4> QED
        BY <4>1, <4>2, <4>3, Zenon DEF Alive
    <3> QED
      BY <3>1, <3>2
  <2>5. Typed'
    BY <1>1, <1>3, <2>2, <2>3 DEF SInv, Typed
  <2>6. CASE keepAlive /\ io' = "read" /\ UNCHANGED conn
    <3>1. UpToDate'
      BY <1>3, <2>3, <2>4, <2>6 DEF UpToDate, Alive
    <3> QED
      BY <1>1, <1>3, <2>2, <2>5, <2>6, <3>1 DEF SInv, InWrite, OnIo, NoReply, NoInput
  <2>7. CASE ~keepAlive /\ conn' = "shutdown" /\ UNCHANGED io
    <3>1. Alive(Len(requests) - 1)' /\ Len(requests') - 1 <= Len(answered')
          /\ Len(answered') <= Len(requests')
      BY <1>3, <2>3, <2>4 DEF Alive
    <3> QED
      BY <1>1, <1>3, <2>2, <2>5, <2>7, <3>1 DEF SInv, InWrite, Outside, NoReply, NoInput
  <2> QED
    BY <2>2, <2>6, <2>7
<1>5. CASE WriteFails
  <2>1. /\ writing' = FALSE /\ outbox' = <<>> /\ conn' = "shutdown"
        /\ UNCHANGED <<io, answered>>
    BY <1>5 DEF WriteFails
  <2>2. Typed'
    BY <1>3, <2>1 DEF SInv, Typed
  <2>3. Alive(Len(requests) - 1)' /\ Len(requests') - 1 <= Len(answered')
        /\ Len(answered') <= Len(requests')
    BY <1>2, <1>3, <2>1 DEF Due, UpToDate, Alive
  <2> QED
    BY <1>1, <1>3, <2>1, <2>2, <2>3 DEF SInv, InWrite, Outside, NoReply, NoInput
<1> QED
  BY <1>4, <1>5

LEMMA ShutdownKeepsSInv == ASSUME SInv, ShutdownCompletes PROVE SInv'
<1>1. Outside
  BY DEF SInv, ShutdownCompletes, OnIo, InRead, WithWorker, InPost, InWrite
<1>2. /\ UNCHANGED <<state, length, keepAlive, io, reading, requests,
                     working, posted, outbox, writing, answered>>
      /\ conn = "shutdown" /\ conn' = "closed"
  BY DEF ShutdownCompletes, parseVars, writeVars
<1>3. Typed'
  BY <1>2 DEF SInv, Typed
<1> QED
  BY <1>1, <1>2, <1>3 DEF SInv, Outside, NoInput, NoReply, Alive

LEMMA NextKeepsSInv == Spelt /\ SInv /\ [Next]_vars => SInv'
<1> SUFFICES ASSUME Spelt, SInv, [Next]_vars PROVE SInv'
  OBVIOUS
<1>1. CASE Completion
  BY <1>1, HandshakeKeepsSInv, ReadKeepsSInv, RunPostedKeepsSInv, WriteKeepsSInv,
     ShutdownKeepsSInv DEF Completion
<1>2. CASE Parse
  BY <1>2, ParseOnKeepsSInv, EndOfHeadersKeepsSInv, BodyKeepsSInv DEF Parse
<1>3. CASE UNCHANGED vars
  <2>1. UNCHANGED <<state, length, keepAlive, io, reading, requests,
                    working, posted, outbox, writing, answered, conn>>
    BY <1>3 DEF vars, parseVars, writeVars
  <2> QED
    BY <2>1 DEF SInv, Typed, OnIo, InRead, WithWorker, InPost, InWrite, Outside, NoInput,
                NoReply, UpToDate, Due, Alive
<1> QED
  BY <1>1, <1>2, <1>3, DoReadKeepsSInv, WorkerKeepsSInv DEF Next

THEOREM SessionIsKept == Spec => [](Spelt /\ SInv)
  BY InitSpelt, InitSInv, NextKeepsSpelt, NextKeepsSInv, PTL DEF Spec
-----------------------------------------------------------------------------
\* Every variable of a session keeps its type.
THEOREM SessionIsTyped == Spec => []TypeOK
<1>1. Spelt /\ SInv => TypeOK
  <2> SUFFICES ASSUME Spelt, SInv PROVE TypeOK
    OBVIOUS
  <2>1. Len(requests) \in Nat
    BY Lengths DEF SInv
  <2>2. \A r \in Nat : Due(r) => r \in 0..Len(requests)
    BY <2>1 DEF Due
  <2>3. \A n \in DOMAIN posted :
          posted[n].safe \in BOOLEAN /\ posted[n].reply \in 0..Len(requests)
    BY <2>2 DEF SInv, OnIo, InRead, WithWorker, InPost, InWrite, Outside, NoReply
  <2>4. \A n \in DOMAIN outbox : outbox[n] \in 0..Len(requests)
    BY <2>2 DEF SInv, OnIo, InRead, WithWorker, InPost, InWrite, Outside, NoReply
  <2>5. /\ working \subseteq 1..Len(requests)
        /\ conn \in {"handshake", "open", "shutdown", "closed", "dropped"}
    BY <2>1 DEF SInv, OnIo, InRead, WithWorker, InPost, InWrite, Outside, NoReply
  <2>6. target = <<>> \/ target \in Words \X Words
    BY DEF Spelt, Targets
  <2>7. \A key \in DOMAIN headers : key \in Seq(Units) /\ headers[key] \in Seq(Units)
    BY DEF Spelt, HeaderMaps
  <2> QED
    BY <2>3, <2>4, <2>5, <2>6, <2>7 DEF SInv, Typed, TypeOK
<1> QED
  BY <1>1, SessionIsKept, PTL

\* Exactly one thing is outstanding until the session has ended: two reads
\* never share the buffer, and the session never falls silent.
THEOREM SessionDoesOneThing == Spec => []OneActivity
<1>1. SInv => OneActivity
  <2> SUFFICES ASSUME SInv PROVE OneActivity
    OBVIOUS
  <2>1. CASE OnIo
    BY <2>1 DEF OnIo, NoReply, OneActivity, Outstanding
  <2>2. CASE InRead
    BY <2>2 DEF InRead, NoReply, OneActivity, Outstanding
  <2>3. CASE WithWorker
    BY <2>3 DEF WithWorker, NoInput, OneActivity, Outstanding
  <2>4. CASE InPost
    <3>1. posted # <<>> /\ Len(posted) = 1
      BY <2>4 DEF InPost
    <3> QED
      BY <2>4, <3>1 DEF InPost, NoInput, OneActivity, Outstanding
  <2>5. CASE InWrite
    <3>1. outbox # <<>> /\ Len(outbox) = 1
      BY <2>5 DEF InWrite
    <3> QED
      BY <2>5, <3>1 DEF InWrite, NoInput, OneActivity, Outstanding
  <2>6. CASE Outside
    BY <2>6 DEF Outside, NoReply, NoInput, OneActivity, Outstanding
  <2> QED
    BY <2>1, <2>2, <2>3, <2>4, <2>5, <2>6 DEF SInv
<1> QED
  BY <1>1, SessionIsKept, PTL

\* Replies are written in the order of the requests, each once, and one
\* request at a time waits for its reply.
THEOREM SessionRepliesInOrder == Spec => []RepliesInOrder
<1>1. SInv => RepliesInOrder
  <2> SUFFICES ASSUME SInv PROVE RepliesInOrder
    OBVIOUS
  <2>1. /\ Len(requests) \in Nat /\ Len(answered) \in Nat
        /\ answered \in Seq(Nat) /\ \A n \in 1..Len(answered) : answered[n] = n
    BY Lengths DEF SInv, Typed
  <2>2. answered = [n \in 1..Len(answered) |-> n]
    BY <2>1
  <2>3. \A r : Due(r) => Len(requests) - 1 <= Len(answered) /\ Len(answered) <= Len(requests)
    BY <2>1 DEF Due, UpToDate
  <2>4. Len(requests) - 1 <= Len(answered) /\ Len(answered) <= Len(requests)
    BY <2>1, <2>3 DEF SInv, OnIo, InRead, WithWorker, InPost, InWrite, Outside, UpToDate
  <2> QED
    BY <2>2, <2>4 DEF RepliesInOrder
<1> QED
  BY <1>1, SessionIsKept, PTL

\* Nothing is dispatched after a request that asked for the connection to be
\* closed.
THEOREM NothingAfterClose == Spec => []CloseIsLast
<1>1. SInv => CloseIsLast
  <2> SUFFICES ASSUME SInv PROVE CloseIsLast
    OBVIOUS
  <2>1. Len(requests) \in Nat
    BY Lengths DEF SInv
  <2>2. \A r : Due(r) => Alive(Len(requests) - 1)
    BY <2>1 DEF Due, UpToDate, Alive
  <2>3. UpToDate => Alive(Len(requests) - 1)
    BY <2>1 DEF UpToDate, Alive
  <2>4. Alive(Len(requests) - 1)
    BY <2>2, <2>3 DEF SInv, OnIo, InRead, WithWorker, InPost, InWrite, Outside
  <2> QED
    BY <2>4 DEF Alive, CloseIsLast
<1> QED
  BY <1>1, SessionIsKept, PTL
-----------------------------------------------------------------------------
(***************************************************************************)
(* The parser and the stream.  Until a request that is not as it should be *)
(* turns up, the parser knows where it is: at the start of the request     *)
(* after the last that it dispatched, after some of its lines, or before   *)
(* its body.                                                               *)
(***************************************************************************)
\* The buffer and the wire hold what is left of the stream.
Left == Len(buffer) + Len(wire)
Passed == Len(All) - Left
Reads ==
  /\ buffer \in Seq(Units) /\ wire \in Seq(Units) /\ Left <= Len(All)
  /\ \A i \in 1..Len(buffer) : buffer[i] = All[Passed + i]
  /\ \A i \in 1..Len(wire) : wire[i] = All[Passed + Len(buffer) + i]

Ours == Len(requests) + 1
AtRequest ==
  /\ state = "RequestLine" /\ Ours \in 1..(Len(sent) + 1)
  /\ headers = NoHeaders
  /\ Passed = Start[Ours]
After(j) ==
  /\ j \in 1..(Len(sent[Ours].lines) - 1)
  /\ Passed = Start[Ours] + LineStart(sent[Ours])[j + 1]
  /\ target = SubSeq(sent[Ours].lines[1], 1, 2)
  /\ headers = HeadersUpTo(sent[Ours].lines, j)
AmongHeaders == state = "Header" /\ Ours \in 1..Len(sent) /\ \E j \in Nat : After(j)
AtBody ==
  /\ state = "Body" /\ Ours \in 1..Len(sent)
  /\ target = SubSeq(sent[Ours].lines[1], 1, 2)
  /\ headers = HeadersOf(sent[Ours])
  /\ length = Len(sent[Ours].body)
  /\ keepAlive \in BOOLEAN /\ (keepAlive <=> ~Closes(HeadersOf(sent[Ours])))
  /\ Passed = Start[Ours] + Len(HeadOf(sent[Ours]))

Spoilt == \E m \in DOMAIN sent : m <= Ours /\ ~WellFormed(sent[m])
Follows == Spoilt \/ AtRequest \/ AmongHeaders \/ AtBody

FInv == sent \in Streams /\ requests \in Seq(Request) /\ Reads /\ Follows /\ Framing

\* The next of the stream is the line.
Ahead(line) ==
  /\ \A i \in 1..Len(line) : All[Passed + i] = line[i]
  /\ All[Passed + (Len(line) + 1)] = "cr" /\ All[Passed + (Len(line) + 2)] = "lf"

\* Where a request begins, and its head and its body.
LEMMA OurRequest ==
  ASSUME sent \in Streams, NEW n \in 1..Len(sent)
  PROVE  LET r == sent[n]
             s == Start[n]
             h == Len(HeadOf(r))
         IN  /\ r \in Requests /\ s \in Nat /\ h \in Nat
             /\ Start[n + 1] = s + h + Len(r.body)
             /\ \A i \in 1..h : All[s + i] = HeadOf(r)[i]
             /\ \A i \in 1..Len(r.body) : All[s + h + i] = r.body[i]
<1> DEFINE r == sent[n]
           s == Start[n]
           t == TextOf(r)
<1>1. n \in DOMAIN sent /\ r \in Requests
  BY SentIsLaid
<1>2. /\ n \in 1..Len(Texts) /\ Texts[n] = t /\ Laid(Texts, All, Start)
  BY <1>1, SentIsLaid
<1>3. /\ s \in Nat /\ Start[n + 1] = s + Len(t)
      /\ \A i \in 1..Len(t) : All[s + i] = t[i]
  BY <1>2 DEF Laid
<1>4. /\ HeadOf(r) \in Seq(Units) /\ r.body \in Seq(Units) /\ t = HeadOf(r) \o r.body
  BY <1>1, RequestIsLaid
<1> HIDE DEF r, s, t
<1> DEFINE a == HeadOf(r)
           b == r.body
<1>5. /\ Len(t) = Len(a) + Len(b) /\ Len(a) \in Nat /\ Len(b) \in Nat
      /\ \A i \in 1..Len(a) : t[i] = a[i]
      /\ \A i \in 1..Len(b) : t[Len(a) + i] = b[i]
  BY <1>4, Appended
<1> HIDE DEF a, b
<1>6. \A i \in 1..Len(a) : All[s + i] = a[i]
  <2>1. \A i \in 1..Len(a) : i \in 1..Len(t)
    BY <1>5
  <2> QED
    BY <1>3, <1>5, <2>1
<1>7. \A i \in 1..Len(b) : All[s + Len(a) + i] = b[i]
  <2>1. \A i \in 1..Len(b) : Len(a) + i \in 1..Len(t) /\ s + (Len(a) + i) = s + Len(a) + i
    BY <1>3, <1>5
  <2> QED
    BY <1>3, <1>5, <2>1
<1>8. Start[n + 1] = s + Len(a) + Len(b)
  BY <1>3, <1>5
<1> QED
  BY <1>1, <1>3, <1>5, <1>6, <1>7, <1>8 DEF r, s, a, b

\* Where the lines of a request are in it.
LEMMA LineOfRequest ==
  ASSUME NEW r \in Requests, NEW j \in 1..Len(r.lines)
  PROVE  LET line == r.lines[j]
             p == LineStart(r)[j]
         IN  /\ line \in Seq(Words) /\ Len(line) \in Nat /\ p \in Nat
             /\ LineStart(r)[j + 1] = p + (Len(line) + 2)
             /\ p + (Len(line) + 2) <= Len(HeadOf(r)) /\ Len(HeadOf(r)) \in Nat
             /\ \A i \in 1..(Len(line) + 2) : HeadOf(r)[p + i] = (line \o Crlf)[i]
<1> DEFINE line == r.lines[j]
           p == LineStart(r)[j]
           full == LinesOf(r)[j]
<1>1. /\ r.lines \in Seq(Seq(Words)) /\ Len(LinesOf(r)) = Len(r.lines)
      /\ \A k \in 1..Len(r.lines) : LinesOf(r)[k] = r.lines[k] \o Crlf
      /\ Laid(LinesOf(r), HeadOf(r), LineStart(r)) /\ Len(HeadOf(r)) \in Nat
      /\ Len(r.lines) \in Nat
  BY RequestIsLaid
<1>2. line \in Seq(Words) /\ full = line \o Crlf
  BY <1>1
<1>3. Len(full) = Len(line) + 2 /\ Len(line) \in Nat
  BY <1>2, LineEnds
<1>4. \A k \in 1..Len(r.lines) : k \in 1..(Len(r.lines) + 1)
  BY <1>1
<1>5. /\ p \in Nat /\ LineStart(r)[j + 1] = p + Len(full)
      /\ LineStart(r)[j + 1] <= Len(HeadOf(r))
      /\ \A i \in 1..Len(full) : HeadOf(r)[p + i] = full[i]
  BY <1>1, <1>4 DEF Laid
<1> HIDE DEF line, p, full
<1> QED
  BY <1>1, <1>2, <1>3, <1>5 DEF line, p

\* Where they are in the stream.
LEMMA OurLine ==
  ASSUME sent \in Streams, NEW n \in 1..Len(sent), NEW j \in 1..Len(sent[n].lines),
         Passed = Start[n] + LineStart(sent[n])[j]
  PROVE  LET r == sent[n]
             line == r.lines[j]
         IN  /\ line \in Seq(Words) /\ Len(line) \in Nat /\ Ahead(line)
             /\ Passed + (Len(line) + 2) = Start[n] + LineStart(r)[j + 1]
<1> DEFINE r == sent[n]
           s == Start[n]
           line == r.lines[j]
           p == LineStart(r)[j]
           all == HeadOf(r)
           full == line \o Crlf
           l == Len(line)
           q == Passed
           e == LineStart(r)[j + 1]
<1>1. /\ r \in Requests /\ s \in Nat
      /\ \A i \in 1..Len(all) : All[s + i] = all[i]
  BY OurRequest
<1>2. /\ line \in Seq(Words) /\ l \in Nat /\ p \in Nat /\ e = p + (l + 2)
      /\ p + (l + 2) <= Len(all) /\ Len(all) \in Nat
      /\ \A i \in 1..(l + 2) : all[p + i] = full[i]
  BY <1>1, LineOfRequest
<1>3. /\ full[l + 1] = "cr" /\ full[l + 2] = "lf"
      /\ \A i \in 1..l : full[i] = line[i]
  BY <1>2, LineEnds
<1>4. q = s + p
  OBVIOUS
<1> HIDE DEF r, s, line, p, all, full, l, q, e
<1>5. \A i \in 1..(l + 2) : All[q + i] = full[i]
  <2> TAKE i \in 1..(l + 2)
  <2>1. p + i \in 1..Len(all) /\ s + (p + i) = q + i
    BY <1>1, <1>2, <1>4
  <2>2. All[s + (p + i)] = all[p + i] /\ all[p + i] = full[i]
    BY <1>1, <1>2, <2>1
  <2> QED
    BY <2>1, <2>2
<1>6. /\ \A i \in 1..l : All[q + i] = line[i]
      /\ All[q + (l + 1)] = "cr" /\ All[q + (l + 2)] = "lf"
  <2>1. \A i \in 1..l : i \in 1..(l + 2)
    BY <1>2
  <2>2. l + 1 \in 1..(l + 2) /\ l + 2 \in 1..(l + 2)
    BY <1>2
  <2> QED
    BY <1>3, <1>5, <2>1, <2>2
<1>7. Ahead(line)
  BY <1>6 DEF Ahead, l, q
<1>8. q + (l + 2) = s + e
  BY <1>1, <1>2, <1>4
<1> QED
  BY <1>2, <1>7, <1>8 DEF r, s, line, l, q, e

LEMMA LinesBeginAndEnd ==
  ASSUME NEW r \in Requests
  PROVE  LineStart(r)[1] = 0 /\ LineStart(r)[Len(r.lines) + 1] = Len(HeadOf(r))
  BY RequestIsLaid DEF Laid

\* What parse cuts off the buffer is the client's next line, however little
\* of what comes after it was read: the line holds no CR.
LEMMA NextLine ==
  ASSUME Spelt, Reads, sent \in Streams, LineEnd # {}, NEW line \in Seq(Words), Ahead(line)
  PROVE  /\ FirstLine = line
         /\ Len(line) + 2 \in 0..Len(buffer)
         /\ AfterLine = SubSeq(buffer, (Len(line) + 2) + 1, Len(buffer))
<1> DEFINE m == Min(LineEnd)
           l == Len(line)
           b == Len(buffer)
<1>1. /\ m \in LineEnd /\ m \in 1..(b - 1) /\ \A k \in LineEnd : m <= k
      /\ l \in Nat /\ b \in Nat
  BY LineIsCut DEF Spelt
<1>2. /\ DOMAIN buffer = 1..b /\ \A i \in 1..b : buffer[i] = All[Passed + i]
  BY DEF Reads
<1>3. /\ \A i \in 1..l : All[Passed + i] = line[i]
      /\ All[Passed + (l + 1)] = "cr" /\ All[Passed + (l + 2)] = "lf"
  BY DEF Ahead
<1>4. buffer[m] = "cr" /\ \A i \in 1..l : line[i] # "cr"
  <2>1. buffer[m] = "cr"
    BY <1>1 DEF LineEnd
  <2>2. \A i \in 1..l : line[i] \in Words
    OBVIOUS
  <2> QED
    BY <2>1, <2>2, WordsAreNoBreaks DEF Breaks
<1> DEFINE ends == LineEnd
<1>5. \A k \in 1..b : buffer[k] = "cr" /\ k + 1 \in 1..b /\ buffer[k + 1] = "lf" => k \in ends
  BY <1>2 DEF LineEnd
<1>6. \A k \in ends : m <= k
  BY <1>1
<1> HIDE DEF m, l, b, ends
<1>7. m > l
  <2> SUFFICES ASSUME ~(m > l) PROVE FALSE
    OBVIOUS
  <2>1. m \in 1..l /\ m \in 1..b
    BY <1>1
  <2> QED
    BY <1>2, <1>3, <1>4, <2>1
<1>8. l + 1 \in 1..b /\ (l + 1) + 1 \in 1..b /\ l + 2 = (l + 1) + 1
  BY <1>1, <1>7
<1>9. buffer[l + 1] = "cr" /\ buffer[(l + 1) + 1] = "lf"
  BY <1>2, <1>3, <1>8
<1>10. m = l + 1
  <2>1. l + 1 \in ends
    BY <1>5, <1>8, <1>9
  <2> QED
    BY <1>1, <1>6, <1>7, <2>1
<1>11. SubSeq(buffer, 1, l) = line
  <2>1. buffer \in Seq(Units) /\ line \in Seq(Units) /\ l \in 0..Len(buffer) /\ Len(line) = l
    BY <1>1, <1>8 DEF Reads, Units, l, b
  <2>2. /\ SubSeq(buffer, 1, l) \in Seq(Units) /\ Len(SubSeq(buffer, 1, l)) = l
        /\ \A i \in 1..l : SubSeq(buffer, 1, l)[i] = buffer[i]
    BY <2>1
  <2>3. \A i \in 1..l : buffer[i] = line[i]
    <3>1. \A i \in 1..l : i \in 1..b
      BY <1>1, <1>8
    <3> QED
      BY <1>2, <1>3, <3>1
  <2> DEFINE piece == SubSeq(buffer, 1, l)
  <2> HIDE DEF piece
  <2>4. /\ piece \in Seq(Units) /\ Len(piece) = Len(line)
        /\ \A i \in 1..Len(line) : piece[i] = line[i]
    BY <2>1, <2>2, <2>3 DEF piece
  <2>5. piece = line
    BY <2>1, <2>4
  <2> QED
    BY <2>5 DEF piece
<1>12. FirstLine = SubSeq(buffer, 1, m - 1) /\ AfterLine = SubSeq(buffer, m + 2, b)
  BY DEF FirstLine, AfterLine, m, b
<1>13. m - 1 = l /\ m + 2 = (l + 2) + 1 /\ l + 2 \in 0..b
  BY <1>1, <1>8, <1>10
<1> QED
  BY <1>11, <1>12, <1>13 DEF l, b
-----------------------------------------------------------------------------
\* At the start the parser is at the first request, and all is on the wire.
LEMMA InitFInv == Init => FInv
<1> SUFFICES ASSUME Init PROVE FInv
  OBVIOUS
<1>1. sent \in Streams /\ requests = <<>> /\ buffer = <<>> /\ wire = All
  BY DEF Init, All, Texts
<1>2. All \in Seq(Units) /\ Len(All) \in Nat /\ Len(sent) \in Nat
  BY <1>1, SentIsLaid
<1>3. Left = Len(All) /\ Passed = 0
  BY <1>1, <1>2 DEF Left, Passed
<1>4. Reads
  BY <1>1, <1>2, <1>3 DEF Reads
<1>5. Ours = 1 /\ Start[1] = 0
  BY <1>1, SentIsLaid DEF Ours, Laid
<1>6. AtRequest
  BY <1>2, <1>3, <1>5 DEF Init, AtRequest
<1>7. requests \in Seq(Request) /\ Framing
  BY <1>1 DEF Framing
<1> QED
  BY <1>1, <1>4, <1>6, <1>7 DEF FInv, Follows

\* The steps in which the parser does not move.
LEMMA StillKeepsFInv ==
  ASSUME FInv, UNCHANGED <<sent, requests>>, Reads', Left' = Left,
         UNCHANGED parseVars
  PROVE  FInv'
<1>1. All' = All /\ Start' = Start /\ Passed' = Passed /\ Ours' = Ours
  BY DEF All, Texts, Start, Passed, Ours
<1>2. Follows'
  BY <1>1 DEF FInv, Follows, Spoilt, AtRequest, AmongHeaders, After, AtBody, parseVars
<1> QED
  BY <1>2 DEF FInv, Framing, Meant

\* After a request that is not as it should be, nothing is claimed.
LEMMA SpoiltKeepsFInv ==
  ASSUME FInv, Spoilt, UNCHANGED sent, Reads',
         requests' = requests \/ \E q \in Request : requests' = Append(requests, q)
  PROVE  FInv'
<1>1. Len(requests) \in Nat /\ requests \in Seq(Request)
  BY DEF FInv
<1>2. PICK m \in DOMAIN sent : m <= Ours /\ ~WellFormed(sent[m])
  BY DEF Spoilt
<1>3. m \in Nat
  BY SentIsLaid DEF FInv
<1>4. CASE requests' = requests
  BY <1>2, <1>4 DEF FInv, Framing, Meant, Follows, Spoilt, Ours
<1>5. ASSUME NEW q \in Request, requests' = Append(requests, q) PROVE FInv'
  <2>1. /\ Len(requests') = Len(requests) + 1 /\ requests' \in Seq(Request)
        /\ \A n \in 1..Len(requests) : requests'[n] = requests[n]
        /\ DOMAIN requests = 1..Len(requests) /\ DOMAIN requests' = 1..(Len(requests) + 1)
    BY <1>1, <1>5
  <2>2. m <= Ours'
    BY <1>1, <1>2, <1>3, <2>1 DEF Ours
  <2>3. Spoilt'
    BY <1>2, <2>2 DEF Spoilt
  <2>4. m \in 1..Ours
    BY <1>1, <1>2, <1>3, SentIsLaid DEF Ours, FInv
  <2>5. ~Meant(Ours)
    BY <1>2, <2>4 DEF Meant
  <2>6. Framing'
    BY <1>1, <1>2, <2>1, <2>5 DEF FInv, Framing, Meant, Ours
  <2> QED
    BY <2>1, <2>3, <2>6 DEF FInv, Follows
<1> QED
  BY <1>4, <1>5

\* What is parsed goes from the front of the buffer.
LEMMA Consumed ==
  ASSUME Reads, sent \in Streams, UNCHANGED <<sent, wire>>,
         NEW n \in 0..Len(buffer), buffer' = SubSeq(buffer, n + 1, Len(buffer))
  PROVE  Reads' /\ Passed' = Passed + n /\ All' = All
<1>1. /\ Len(buffer) \in Nat /\ Len(wire) \in Nat /\ Len(All) \in Nat
      /\ buffer \in Seq(Units) /\ wire \in Seq(Units) /\ All' = All /\ wire' = wire
  BY SentIsLaid DEF Reads, All, Texts
<1>2. /\ buffer' \in Seq(Units) /\ Len(buffer') = Len(buffer) - n
      /\ \A i \in 1..(Len(buffer) - n) : buffer'[i] = buffer[n + i]
  BY <1>1
<1>3. Left' = Left - n /\ Passed' = Passed + n /\ Left \in Nat /\ Passed \in Int
  <2>1. Left = Len(buffer) + Len(wire) /\ Left' = Len(buffer') + Len(wire)
    BY <1>1 DEF Left
  <2>2. Passed = Len(All) - Left /\ Passed' = Len(All) - Left'
    BY <1>1 DEF Passed
  <2> QED
    BY <1>1, <1>2, <2>1, <2>2
<1>4. \A i \in 1..Len(buffer') : buffer'[i] = All'[Passed' + i]
  <2> TAKE i \in 1..Len(buffer')
  <2>1. i \in 1..(Len(buffer) - n) /\ n \in Nat
    BY <1>1, <1>2
  <2>2. n + i \in 1..Len(buffer) /\ Passed' + i = Passed + (n + i)
    BY <1>1, <1>3, <2>1
  <2>3. buffer'[i] = buffer[n + i] /\ buffer[n + i] = All[Passed + (n + i)]
    BY <1>2, <2>1, <2>2 DEF Reads
  <2> QED
    BY <1>1, <2>2, <2>3
<1>5. \A i \in 1..Len(wire') : wire'[i] = All'[Passed' + Len(buffer') + i]
  <2> TAKE i \in 1..Len(wire')
  <2>1. i \in 1..Len(wire)
    BY <1>1
  <2>2. Passed' + Len(buffer') + i = Passed + Len(buffer) + i
    <3> DEFINE p == Passed'
               l == Len(buffer')
    <3>1. /\ n \in Int /\ l = Len(buffer) - n /\ p = Passed + n
          /\ i \in Int /\ Passed \in Int /\ Len(buffer) \in Int
      BY <1>1, <1>2, <1>3, <2>1
    <3> HIDE DEF p, l
    <3>2. p + l + i = Passed + Len(buffer) + i
      BY <3>1
    <3> QED
      BY <3>2 DEF p, l
  <2>3. wire[i] = All[Passed + Len(buffer) + i]
    BY <2>1 DEF Reads
  <2> QED
    BY <1>1, <2>2, <2>3
<1>6. Left' <= Len(All')
  BY <1>1, <1>3 DEF Reads
<1>7. wire' \in Seq(Units) /\ buffer' \in Seq(Units)
  BY <1>1, <1>2
<1>8. Reads'
  BY <1>4, <1>5, <1>6, <1>7 DEF Reads
<1> QED
  BY <1>1, <1>3, <1>8

\* A read moves units from the wire to the buffer.
LEMMA ReadKeepsFInv ==
  ASSUME FInv, ReadCompletes
  PROVE  FInv'
<1>1. PICK n \in 1..Len(wire) : /\ buffer' = buffer \o SubSeq(wire, 1, n)
                                /\ wire' = SubSeq(wire, n + 1, Len(wire))
  BY DEF ReadCompletes
<1>2. UNCHANGED <<sent, requests>> /\ UNCHANGED parseVars
  BY DEF ReadCompletes
<1>3. /\ buffer \in Seq(Units) /\ wire \in Seq(Units) /\ Reads /\ Len(All) \in Nat
      /\ Len(buffer) \in Nat /\ Len(wire) \in Nat /\ All' = All
  BY <1>2, SentIsLaid DEF FInv, Reads, All, Texts
<1> DEFINE moved == SubSeq(wire, 1, n)
<1>4. moved \in Seq(Units) /\ Len(moved) = n /\ \A i \in 1..n : moved[i] = wire[i]
  BY <1>1, <1>3
<1>5. /\ wire' \in Seq(Units) /\ Len(wire') = Len(wire) - n
      /\ \A i \in 1..(Len(wire) - n) : wire'[i] = wire[n + i]
  BY <1>1, <1>3
<1>6. buffer' = buffer \o moved
  BY <1>1
<1> HIDE DEF moved
<1>7. /\ buffer' \in Seq(Units) /\ Len(buffer') = Len(buffer) + n
      /\ \A i \in 1..Len(buffer) : buffer'[i] = buffer[i]
      /\ \A i \in 1..n : buffer'[Len(buffer) + i] = moved[i]
  <2> DEFINE both == buffer \o moved
  <2>1. /\ both \in Seq(Units) /\ Len(both) = Len(buffer) + Len(moved)
        /\ \A i \in 1..Len(buffer) : both[i] = buffer[i]
        /\ \A i \in 1..Len(moved) : both[Len(buffer) + i] = moved[i]
    <3>1. buffer \in Seq(Units) /\ moved \in Seq(Units)
      BY <1>3, <1>4
    <3> QED
      BY <3>1, Appended
  <2>2. buffer' = both
    BY <1>6
  <2> HIDE DEF both
  <2> QED
    BY <1>4, <2>1, <2>2
<1>8. Left' = Left /\ Passed' = Passed /\ Left \in Nat /\ Passed \in Int /\ Left' <= Len(All')
  <2>1. Left = Len(buffer) + Len(wire) /\ Left' = Len(buffer') + Len(wire')
    BY DEF Left
  <2>2. Left' = Left /\ Left \in Nat
    BY <1>1, <1>3, <1>5, <1>7, <2>1
  <2> QED
    BY <1>3, <2>2 DEF Passed, Reads
<1>9. \A i \in 1..Len(buffer') : buffer'[i] = All'[Passed' + i]
  <2> TAKE i \in 1..Len(buffer')
  <2>1. CASE i \in 1..Len(buffer)
    BY <1>3, <1>7, <1>8, <2>1 DEF Reads
  <2>2. CASE i - Len(buffer) \in 1..n
    <3> DEFINE k == i - Len(buffer)
    <3>1. k \in 1..Len(wire) /\ i = Len(buffer) + k /\ Passed + i = Passed + Len(buffer) + k
      BY <1>1, <1>3, <1>8, <2>2
    <3>2. buffer'[i] = wire[k]
      BY <1>4, <1>7, <2>2, <3>1
    <3>3. wire[k] = All[Passed + Len(buffer) + k]
      BY <1>3, <3>1 DEF Reads
    <3> QED
      BY <1>3, <1>8, <3>1, <3>2, <3>3
  <2> QED
    BY <1>1, <1>3, <1>7, <2>1, <2>2
<1>10. \A i \in 1..Len(wire') : wire'[i] = All'[Passed' + Len(buffer') + i]
  <2> TAKE i \in 1..Len(wire')
  <2>1. /\ n + i \in 1..Len(wire) /\ i \in 1..(Len(wire) - n)
        /\ Passed' + Len(buffer') + i = Passed + Len(buffer) + (n + i)
    BY <1>1, <1>3, <1>5, <1>7, <1>8
  <2>2. wire'[i] = wire[n + i]
    BY <1>5, <2>1
  <2>3. wire[n + i] = All[Passed + Len(buffer) + (n + i)]
    BY <1>3, <2>1 DEF Reads
  <2> QED
    BY <1>3, <2>1, <2>2, <2>3
<1>11. Reads'
  BY <1>5, <1>7, <1>8, <1>9, <1>10 DEF Reads
<1> QED
  BY <1>2, <1>8, <1>11, StillKeepsFInv

-----------------------------------------------------------------------------
(***************************************************************************)
(* At a request that is as it should be, the parser finds what the client  *)
(* means.                                                                  *)
(***************************************************************************)
LEMMA WordsMakeTarget ==
  ASSUME NEW line \in Seq(Words), Len(line) >= 3
  PROVE  IsRequestLine(line) /\ Target(line) = SubSeq(line, 1, 2)
<1> DEFINE n == Len(line)
           W == WordsIn(line)
<1>1. n \in Nat /\ n >= 3
  OBVIOUS
<1>2. W = 1..n
  BY WordsAreNoBreaks DEF WordsIn
<1> HIDE DEF n, W
<1>3. Cardinality(1..n) = n
  BY <1>1, FS_Interval
<1>4. Min(1..n) = 1
  BY <1>1 DEF Min
<1>5. Min((1..n) \ {1}) = 2
  BY <1>1 DEF Min
<1>6. SubSeq(line, 1, 2) = <<line[1], line[2]>>
  <2> DEFINE two == SubSeq(line, 1, 2)
  <2>1. Len(line) >= 3 /\ Len(line) \in Nat
    OBVIOUS
  <2>2. two \in Seq(Words) /\ Len(two) = 2 /\ two[1] = line[1] /\ two[2] = line[2]
    BY <2>1
  <2> HIDE DEF two
  <2>3. two = <<two[1], two[2]>>
    BY <2>2
  <2> QED
    BY <2>2, <2>3 DEF two
<1> QED
  BY <1>1, <1>2, <1>3, <1>4, <1>5, <1>6 DEF IsRequestLine, Target, W

LEMMA NoHeadersYet == ASSUME NEW lines PROVE HeadersUpTo(lines, 1) = NoHeaders
<1>1. {Key(lines[i]) : i \in 2..1} = {}
  OBVIOUS
<1> QED
  BY <1>1 DEF HeadersUpTo, NoHeaders

\* One more line: its header is added, or takes the place of one of its name.
LEMMA OneMoreHeader ==
  ASSUME NEW lines, NEW j \in Nat, j >= 1
  PROVE  HeadersUpTo(lines, j + 1) =
           [key \in DOMAIN HeadersUpTo(lines, j) \cup {Key(lines[j + 1])} |->
              IF key = Key(lines[j + 1]) THEN Value(lines[j + 1])
                                         ELSE HeadersUpTo(lines, j)[key]]
<1> DEFINE K(n) == {Key(lines[i]) : i \in 2..n}
           At(n, key) == {i \in 2..n : Key(lines[i]) = key}
           k == Key(lines[j + 1])
<1>1. 2..(j + 1) = (2..j) \cup {j + 1}
  OBVIOUS
<1>2. K(j + 1) = K(j) \cup {k}
  BY <1>1
<1>3. Max(At(j + 1, k)) = j + 1
  <2>1. j + 1 \in At(j + 1, k) /\ \A i \in At(j + 1, k) : i \in Nat /\ j + 1 >= i
    OBVIOUS
  <2> HIDE DEF At
  <2> QED
    BY <2>1 DEF Max
<1>4. \A key : key # k => At(j + 1, key) = At(j, key)
  BY <1>1
<1>5. HeadersUpTo(lines, j) = [key \in K(j) |-> Value(lines[Max(At(j, key))])]
  BY DEF HeadersUpTo
<1>6. HeadersUpTo(lines, j + 1) = [key \in K(j + 1) |-> Value(lines[Max(At(j + 1, key))])]
  BY DEF HeadersUpTo
<1> HIDE DEF K, At, k
<1>7. \A key \in K(j) \cup {k} :
        Value(lines[Max(At(j + 1, key))]) =
          IF key = k THEN Value(lines[j + 1]) ELSE HeadersUpTo(lines, j)[key]
  BY <1>3, <1>4, <1>5
<1>8. DOMAIN HeadersUpTo(lines, j) = K(j)
  BY <1>5
<1> QED
  BY <1>2, <1>6, <1>7, <1>8 DEF k

\* A line of the client's is parsed: the parser is behind it.
LEMMA LineParsed ==
  ASSUME Spelt, FInv, ~Spoilt, Ours \in 1..Len(sent), NEW j \in 1..Len(sent[Ours].lines),
         Passed = Start[Ours] + LineStart(sent[Ours])[j],
         LineEnd # {}, buffer' = AfterLine, UNCHANGED <<sent, wire>>
  PROVE  /\ FirstLine = sent[Ours].lines[j] /\ FirstLine \in Seq(Words)
         /\ Reads' /\ All' = All /\ Start' = Start
         /\ Passed' = Start[Ours] + LineStart(sent[Ours])[j + 1]
<1> DEFINE line == sent[Ours].lines[j]
<1>1. sent \in Streams /\ Reads
  BY DEF FInv
<1>2. PICK n \in 1..Len(sent) : n = Ours
  OBVIOUS
<1>3. /\ line \in Seq(Words) /\ Len(line) \in Nat /\ Ahead(line)
      /\ Passed + (Len(line) + 2) = Start[Ours] + LineStart(sent[Ours])[j + 1]
  BY <1>1, <1>2, OurLine
<1> HIDE DEF line
<1>4. /\ FirstLine = line /\ Len(line) + 2 \in 0..Len(buffer)
      /\ AfterLine = SubSeq(buffer, (Len(line) + 2) + 1, Len(buffer))
  BY <1>1, <1>3, NextLine
<1>5. PICK k \in 0..Len(buffer) : k = Len(line) + 2
  BY <1>4
<1>6. Reads' /\ Passed' = Passed + k /\ All' = All
  BY <1>1, <1>4, <1>5, Consumed
<1>7. Start' = Start
  BY DEF Start, All, Texts
<1> QED
  BY <1>3, <1>4, <1>5, <1>6, <1>7 DEF line

\* A line of the buffer goes, whosever it is.
LEMMA LineConsumed ==
  ASSUME Spelt, Reads, sent \in Streams, LineEnd # {}, buffer' = AfterLine,
         UNCHANGED <<sent, wire>>
  PROVE  Reads'
<1>1. Min(LineEnd) \in 1..(Len(buffer) - 1) /\ Len(buffer) \in Nat
  BY LineIsCut DEF Spelt
<1>2. PICK n \in 0..Len(buffer) : n = Min(LineEnd) + 1
  BY <1>1
<1>3. AfterLine = SubSeq(buffer, n + 1, Len(buffer))
  BY <1>1, <1>2 DEF AfterLine
<1> QED
  BY <1>3, Consumed

LEMMA ParseRequestLineKeepsFInv ==
  ASSUME Spelt, FInv, ParseRequestLine
  PROVE  FInv'
<1>1. /\ UNCHANGED <<sent, wire, requests, headers, length, keepAlive>>
      /\ state = "RequestLine" /\ LineEnd # {} /\ buffer' = AfterLine
  BY DEF ParseRequestLine, netVars
<1>2. Reads' /\ sent \in Streams /\ Reads
  BY <1>1, LineConsumed DEF FInv
<1>3. CASE Spoilt
  BY <1>1, <1>2, <1>3, SpoiltKeepsFInv
<1>4. CASE ~Spoilt
  <2>1. AtRequest
    BY <1>1, <1>4 DEF FInv, Follows, AmongHeaders, AtBody
  <2>2. Passed + 1 <= Len(All) /\ Len(All) \in Nat
    <3>1. Min(LineEnd) \in 1..(Len(buffer) - 1) /\ Len(buffer) \in Nat /\ Len(wire) \in Nat
          /\ Len(All) \in Nat
      BY <1>1, <1>2, LineIsCut, SentIsLaid DEF Spelt
    <3> QED
      BY <3>1 DEF Passed, Left
  <2>3. Ours \in 1..Len(sent)
    <3>1. Ours = Len(sent) + 1 => Passed = Len(All)
      BY <1>2, <2>1, SentIsLaid DEF AtRequest, Laid
    <3>2. Len(sent) \in Nat
      BY <1>2, SentIsLaid
    <3> QED
      BY <2>1, <2>2, <3>1, <3>2 DEF AtRequest
  <2> DEFINE r == sent[Ours]
  <2>4. r \in Requests /\ WellFormed(r) /\ Start[Ours] \in Nat
    <3>1. Ours \in DOMAIN sent /\ Ours <= Ours
      BY <1>2, <2>3, SentIsLaid
    <3> QED
      BY <1>2, <1>4, <2>3, <3>1, OurRequest DEF Spoilt
  <2>5. /\ Len(r.lines) \in Nat /\ Len(r.lines) >= 2 /\ Len(r.lines[1]) >= 3
        /\ LineStart(r)[1] = 0
    BY <2>4, RequestIsLaid, LinesBeginAndEnd DEF WellFormed
  <2>6. 1 \in 1..Len(r.lines) /\ Passed = Start[Ours] + LineStart(r)[1]
    BY <2>1, <2>4, <2>5 DEF AtRequest
  <2>7. PICK j \in 1..Len(r.lines) : j = 1
    BY <2>6
  <2>8. /\ FirstLine = r.lines[j] /\ FirstLine \in Seq(Words)
        /\ Start' = Start /\ Passed' = Start[Ours] + LineStart(r)[j + 1]
    BY <1>1, <1>4, <2>3, <2>6, <2>7, LineParsed
  <2>9. IsRequestLine(FirstLine) /\ Target(FirstLine) = SubSeq(r.lines[1], 1, 2)
    BY <2>5, <2>7, <2>8, WordsMakeTarget
  <2>10. state' = "Header" /\ target' = SubSeq(r.lines[1], 1, 2) /\ Ours' = Ours
    BY <1>1, <2>9 DEF ParseRequestLine, Ours
  <2>11. headers' = HeadersUpTo(r.lines, 1)
    BY <1>1, <2>1, NoHeadersYet DEF AtRequest
  <2>12. AmongHeaders'
    <3>1. sent'[Ours'] = r /\ Len(sent') = Len(sent) /\ Start'[Ours'] = Start[Ours]
      BY <1>1, <2>8, <2>10
    <3>2. j \in 1..(Len(r.lines) - 1) /\ Ours' \in 1..Len(sent')
      BY <2>3, <2>5, <2>7, <2>10, <3>1
    <3> HIDE DEF r
    <3>3. After(j)'
      BY <2>7, <2>8, <2>10, <2>11, <3>1, <3>2 DEF After
    <3> QED
      BY <2>10, <3>2, <3>3 DEF AmongHeaders
  <2> QED
    BY <1>1, <1>2, <2>12 DEF FInv, Follows, Framing, Meant
<1> QED
  BY <1>3, <1>4

\* In the headers of a good request the next line is the client's next.
LEMMA OurHeader ==
  ASSUME Spelt, FInv, ~Spoilt, state = "Header", LineEnd # {}, buffer' = AfterLine,
         UNCHANGED <<sent, wire>>
  PROVE  LET r == sent[Ours]
         IN  \E j \in 1..(Len(r.lines) - 1) :
               /\ Ours \in 1..Len(sent) /\ After(j)
               /\ r \in Requests /\ WellFormed(r) /\ Len(r.lines) \in Nat
               /\ FirstLine = r.lines[j + 1]
               /\ Start' = Start /\ All' = All
               /\ Passed' = Start[Ours] + LineStart(r)[(j + 1) + 1]
<1> DEFINE r == sent[Ours]
<1>1. AmongHeaders /\ sent \in Streams
  BY DEF FInv, Follows, AtRequest, AtBody
<1>2. PICK j \in Nat : After(j)
  BY <1>1 DEF AmongHeaders
<1>3. Ours \in 1..Len(sent) /\ j \in 1..(Len(r.lines) - 1)
      /\ Passed = Start[Ours] + LineStart(r)[j + 1]
  BY <1>1, <1>2 DEF AmongHeaders, After
<1>4. r \in Requests /\ WellFormed(r)
  <2>1. Ours \in DOMAIN sent /\ Ours <= Ours
    BY <1>1, <1>3, SentIsLaid
  <2> QED
    BY <1>1, <1>3, <2>1, OurRequest DEF Spoilt
<1>5. Len(r.lines) \in Nat
  BY <1>4, RequestIsLaid
<1>6. PICK k \in 1..Len(r.lines) : k = j + 1
  BY <1>3, <1>5
<1>7. /\ FirstLine = r.lines[k] /\ Start' = Start /\ All' = All
      /\ Passed' = Start[Ours] + LineStart(r)[k + 1]
  BY <1>3, <1>6, LineParsed
<1> QED
  BY <1>2, <1>3, <1>4, <1>5, <1>6, <1>7

LEMMA BlankHasNoColon == ColonsIn(<<>>) = {}
  BY DEF ColonsIn

\* A header line of a good request is one more of those the client sent.
LEMMA ParseHeaderKeepsFInv ==
  ASSUME Spelt, FInv, ParseHeader
  PROVE  FInv'
<1>1. /\ UNCHANGED <<sent, wire, requests, state, target, length, keepAlive>>
      /\ state = "Header" /\ LineEnd # {} /\ buffer' = AfterLine /\ FirstLine # <<>>
  BY DEF ParseHeader, netVars
<1>2. Reads' /\ sent \in Streams /\ Reads
  BY <1>1, LineConsumed DEF FInv
<1>3. CASE Spoilt
  BY <1>1, <1>2, <1>3, SpoiltKeepsFInv
<1>4. CASE ~Spoilt
  <2> DEFINE r == sent[Ours]
  <2>1. PICK j \in 1..(Len(r.lines) - 1) :
               /\ Ours \in 1..Len(sent) /\ After(j)
               /\ r \in Requests /\ WellFormed(r) /\ Len(r.lines) \in Nat
               /\ FirstLine = r.lines[j + 1]
               /\ Start' = Start /\ All' = All
               /\ Passed' = Start[Ours] + LineStart(r)[(j + 1) + 1]
    BY <1>1, <1>4, OurHeader
  <2>2. /\ j + 1 \in 1..(Len(r.lines) - 1) /\ j + 1 \in 2..(Len(r.lines) - 1)
        /\ j \in Nat /\ j >= 1 /\ j + 1 \in Nat
    <3>1. j + 1 # Len(r.lines)
      BY <1>1, <2>1 DEF WellFormed
    <3> QED
      BY <2>1, <3>1
  <2>3. ColonsIn(FirstLine) # {}
    BY <2>1, <2>2 DEF WellFormed
  <2>4. headers' = [key \in DOMAIN headers \cup {Key(FirstLine)} |->
                      IF key = Key(FirstLine) THEN Value(FirstLine) ELSE headers[key]]
    BY <2>3 DEF ParseHeader
  <2>5. headers = HeadersUpTo(r.lines, j) /\ target = SubSeq(r.lines[1], 1, 2)
    BY <2>1 DEF After
  <2>6. Ours' = Ours
    BY <1>1 DEF Ours
  <2>7. sent'[Ours'] = r /\ Len(sent') = Len(sent) /\ Start'[Ours'] = Start[Ours]
    BY <1>1, <2>1, <2>6
  <2> HIDE DEF r
  <2>8. headers' = HeadersUpTo(r.lines, j + 1)
    <3> DEFINE lines == r.lines
               so == HeadersUpTo(lines, j)
    <3>1. HeadersUpTo(lines, j + 1) =
            [key \in DOMAIN so \cup {Key(lines[j + 1])} |->
               IF key = Key(lines[j + 1]) THEN Value(lines[j + 1]) ELSE so[key]]
      BY <2>2, OneMoreHeader
    <3>2. headers = so /\ FirstLine = lines[j + 1]
      BY <2>1, <2>5
    <3> HIDE DEF lines, so
    <3>3. headers' = HeadersUpTo(lines, j + 1)
      BY <2>4, <3>1, <3>2
    <3> QED
      BY <3>3 DEF lines
  <2>9. After(j + 1)'
    BY <1>1, <2>1, <2>2, <2>5, <2>7, <2>8 DEF After
  <2>10. AmongHeaders'
    BY <1>1, <2>1, <2>2, <2>6, <2>7, <2>9 DEF AmongHeaders
  <2> QED
    BY <1>1, <1>2, <2>10 DEF FInv, Follows, Framing, Meant
<1> QED
  BY <1>3, <1>4

\* A request is dispatched: the parser is at the next.
LEMMA DispatchKeepsFInv ==
  ASSUME FInv, ~Spoilt, Ours \in 1..Len(sent), UNCHANGED sent, Reads', All' = All,
         NEW q \in Request, q = Meaning(sent[Ours]), requests' = Append(requests, q),
         Passed' = Start[Ours + 1],
         state' = "RequestLine", headers' = NoHeaders
  PROVE  FInv'
<1>1. /\ sent \in Streams /\ Len(requests) \in Nat /\ requests \in Seq(Request)
      /\ Len(sent) \in Nat /\ DOMAIN sent = 1..Len(sent)
  BY SentIsLaid DEF FInv
<1>2. /\ Len(requests') = Len(requests) + 1 /\ requests' \in Seq(Request)
      /\ \A n \in 1..Len(requests) : requests'[n] = requests[n]
      /\ requests'[Len(requests) + 1] = q
      /\ DOMAIN requests = 1..Len(requests) /\ DOMAIN requests' = 1..(Len(requests) + 1)
  BY <1>1
<1>3. Ours' = Ours + 1 /\ Start' = Start /\ Ours \in Nat
  BY <1>1, <1>2 DEF Ours, Start, All, Texts
<1>4. Ours' \in 1..(Len(sent') + 1)
  BY <1>1, <1>3
<1>5. AtRequest'
  BY <1>3, <1>4 DEF AtRequest
<1>6. Framing'
  <2>1. Ours \in DOMAIN sent /\ requests'[Ours] = Meaning(sent[Ours])
    BY <1>1, <1>2 DEF Ours
  <2>2. \A n \in DOMAIN requests' : n \in DOMAIN requests \/ n = Ours
    BY <1>1, <1>2 DEF Ours
  <2>3. \A n \in DOMAIN requests : requests'[n] = requests[n]
    BY <1>2
  <2>4. Meant(Ours)
    <3>1. 1..Ours \subseteq DOMAIN sent /\ \A m \in 1..Ours : m <= Ours
      BY <1>1, <1>3
    <3> QED
      BY <3>1 DEF Spoilt, Meant
  <2> QED
    BY <2>1, <2>2, <2>3, <2>4 DEF FInv, Framing, Meant
<1> QED
  BY <1>1, <1>2, <1>5, <1>6 DEF FInv, Follows

\* What is handed to the pool is a request, and what the client meant by it.
LEMMA DispatchedIsMeant ==
  ASSUME NEW r \in Requests, NEW alive \in BOOLEAN, alive <=> ~Closes(HeadersOf(r))
  PROVE  [target |-> SubSeq(r.lines[1], 1, 2), headers |-> HeadersOf(r),
          body |-> r.body, close |-> ~alive] = Meaning(r)
<1> DEFINE c == Closes(HeadersOf(r))
<1>1. c \in BOOLEAN
  BY DEF Closes
<1>2. (~alive) = c
  BY <1>1
<1> HIDE DEF c
<1> QED
  BY <1>2 DEF Meaning, c

\* The same on the way: a request dispatched is one of the kind kept.
LEMMA DispatchedIsRequest ==
  ASSUME Spelt, NEW body \in Seq(Units), NEW alive \in BOOLEAN, Complete(body, alive)
  PROVE  \E q \in Request :
           /\ q = [target |-> target, headers |-> headers, body |-> body, close |-> ~alive]
           /\ requests' = Append(requests, q)
<1>1. [target |-> target, headers |-> headers, body |-> body, close |-> ~alive] \in Request
  BY DEF Spelt, Request
<1> QED
  BY <1>1 DEF Complete

\* After the headers of a good request its body is awaited, or it is dispatched.
LEMMA ParseEndOfHeadersKeepsFInv ==
  ASSUME Spelt, SInv, FInv, ParseEndOfHeaders
  PROVE  FInv'
<1> DEFINE alive == ~Closes(headers)
<1>1. /\ UNCHANGED <<sent, wire>> /\ state = "Header" /\ LineEnd # {} /\ FirstLine = <<>>
      /\ buffer' = AfterLine /\ keepAlive' = alive /\ alive \in BOOLEAN
      /\ \/ UNCHANGED requests
         \/ Complete(<<>>, alive)
  BY DEF ParseEndOfHeaders, netVars, Closes
<1>2. Reads' /\ sent \in Streams /\ Reads /\ <<>> \in Seq(Units)
  BY <1>1, LineConsumed DEF FInv
<1>3. CASE Spoilt
  <2> HIDE DEF alive
  <2>1. requests' = requests \/ \E q \in Request : requests' = Append(requests, q)
    BY <1>1, <1>2, DispatchedIsRequest
  <2> QED
    BY <1>1, <1>2, <1>3, <2>1, SpoiltKeepsFInv
<1>4. CASE ~Spoilt
  <2> DEFINE r == sent[Ours]
  <2>1. PICK j \in 1..(Len(r.lines) - 1) :
               /\ Ours \in 1..Len(sent) /\ After(j)
               /\ r \in Requests /\ WellFormed(r) /\ Len(r.lines) \in Nat
               /\ FirstLine = r.lines[j + 1]
               /\ Start' = Start /\ All' = All
               /\ Passed' = Start[Ours] + LineStart(r)[(j + 1) + 1]
    BY <1>1, <1>4, OurHeader
  <2>2. j + 1 = Len(r.lines)
    <3> SUFFICES ASSUME j + 1 # Len(r.lines) PROVE FALSE
      OBVIOUS
    <3>1. j + 1 \in 2..(Len(r.lines) - 1)
      BY <2>1
    <3>2. ColonsIn(FirstLine) # {}
      BY <2>1, <3>1 DEF WellFormed
    <3> QED
      BY <1>1, <3>2, BlankHasNoColon
  <2>3. j = Len(r.lines) - 1
    BY <2>1, <2>2
  <2>4. headers = HeadersOf(r) /\ target = SubSeq(r.lines[1], 1, 2)
    BY <2>1, <2>3 DEF After, HeadersOf
  <2>5. ~LengthRefused(headers) /\ Len(r.body) = ContentLength(headers)
        /\ Len(r.body) \in Nat /\ r.body \in Seq(Units)
    BY <2>1, <2>4, RequestIsLaid DEF WellFormed
  <2>6. Passed' = Start[Ours] + Len(HeadOf(r))
    BY <2>1, <2>2, LinesBeginAndEnd
  <2>7. CASE Len(r.body) > 0
    <3>1. state' = "Body" /\ length' = Len(r.body) /\ UNCHANGED <<target, headers, requests>>
      BY <2>5, <2>7 DEF ParseEndOfHeaders
    <3>2. Ours' = Ours /\ sent' = sent
      BY <1>1, <3>1 DEF Ours
    <3>3. sent'[Ours'] = r /\ Len(sent') = Len(sent) /\ Start'[Ours'] = Start[Ours]
      BY <2>1, <3>2
    <3>4. keepAlive' \in BOOLEAN /\ (keepAlive' <=> ~Closes(HeadersOf(r)))
      BY <1>1, <2>4
    <3> HIDE DEF r, alive
    <3>5. AtBody'
      BY <2>1, <2>4, <2>6, <3>1, <3>2, <3>3, <3>4 DEF AtBody
    <3> QED
      BY <1>1, <1>2, <3>1, <3>5 DEF FInv, Follows, Framing, Meant
  <2>8. CASE ~(Len(r.body) > 0)
    <3>1. Len(r.body) = 0 /\ r.body = <<>>
      BY <2>5, <2>8
    <3>2. Complete(<<>>, alive)
      BY <2>5, <3>1 DEF ParseEndOfHeaders
    <3>3. alive <=> ~Closes(HeadersOf(r))
      BY <2>4
    <3> HIDE DEF alive
    <3>4. PICK q \in Request :
            /\ q = [target |-> target, headers |-> headers, body |-> <<>>, close |-> ~alive]
            /\ requests' = Append(requests, q)
      BY <1>2, <1>1, <3>2, DispatchedIsRequest
    <3>5. q = Meaning(r)
      <4> HIDE DEF r
      <4> QED
        BY <1>1, <2>1, <2>4, <3>1, <3>3, <3>4, DispatchedIsMeant
    <3>6. state' = "RequestLine" /\ headers' = NoHeaders
      BY <3>2 DEF Complete
    <3>7. Passed' = Start[Ours + 1]
      <4>1. PICK n \in 1..Len(sent) : n = Ours
        BY <2>1
      <4>2. Start[n + 1] = Start[n] + Len(HeadOf(sent[n])) + Len(sent[n].body)
            /\ Start[n] \in Nat /\ Len(HeadOf(sent[n])) \in Nat
        BY <1>2, OurRequest
      <4> QED
        BY <2>6, <3>1, <4>1, <4>2
    <3> QED
      BY <1>1, <1>2, <1>4, <2>1, <3>4, <3>5, <3>6, <3>7, DispatchKeepsFInv
  <2> QED
    BY <2>7, <2>8
<1> QED
  BY <1>3, <1>4

\* After the body of a good request it is dispatched.
LEMMA ParseBodyKeepsFInv ==
  ASSUME Spelt, SInv, FInv, ParseBody
  PROVE  FInv'
<1> DEFINE body == SubSeq(buffer, 1, length)
<1>1. /\ UNCHANGED <<sent, wire>> /\ state = "Body" /\ Len(buffer) >= length
      /\ buffer' = SubSeq(buffer, length + 1, Len(buffer)) /\ Complete(body, keepAlive)
  BY DEF ParseBody, netVars
<1>2. /\ sent \in Streams /\ Reads /\ length \in Nat /\ keepAlive \in BOOLEAN
      /\ Len(buffer) \in Nat /\ buffer \in Seq(Units)
  BY SizeIsNatural DEF FInv, SInv, Typed, Spelt
<1>3. Reads' /\ Passed' = Passed + length /\ All' = All
  <2>1. PICK n \in 0..Len(buffer) : n = length
    BY <1>1, <1>2
  <2> QED
    BY <1>1, <1>2, <2>1, Consumed
<1>4. /\ body \in Seq(Units) /\ Len(body) = length
      /\ \A i \in 1..length : body[i] = buffer[i]
  BY <1>1, <1>2
<1> HIDE DEF body
<1>5. PICK q \in Request :
        /\ q = [target |-> target, headers |-> headers, body |-> body, close |-> ~keepAlive]
        /\ requests' = Append(requests, q)
  BY <1>1, <1>2, <1>4, DispatchedIsRequest
<1>6. CASE Spoilt
  BY <1>1, <1>3, <1>5, <1>6, SpoiltKeepsFInv
<1>7. CASE ~Spoilt
  <2> DEFINE r == sent[Ours]
  <2>1. /\ Ours \in 1..Len(sent) /\ length = Len(r.body)
        /\ target = SubSeq(r.lines[1], 1, 2) /\ headers = HeadersOf(r)
        /\ (keepAlive <=> ~Closes(HeadersOf(r)))
        /\ Passed = Start[Ours] + Len(HeadOf(r))
    BY <1>1, <1>7 DEF FInv, Follows, AtRequest, AmongHeaders, AtBody
  <2>2. PICK n \in 1..Len(sent) : n = Ours
    BY <2>1
  <2>3. /\ r \in Requests /\ Start[Ours] \in Nat /\ Len(HeadOf(r)) \in Nat
        /\ Start[Ours + 1] = Start[Ours] + Len(HeadOf(r)) + Len(r.body)
        /\ \A i \in 1..Len(r.body) : All[Start[Ours] + Len(HeadOf(r)) + i] = r.body[i]
    BY <1>2, <2>2, OurRequest
  <2>4. r.body \in Seq(Units)
    BY <2>3, RequestIsLaid
  <2> HIDE DEF r
  <2>5. body = r.body
    <3>1. \A i \in 1..Len(r.body) : body[i] = r.body[i]
      <4> TAKE i \in 1..Len(r.body)
      <4>1. i \in 1..length /\ i \in 1..Len(buffer)
        BY <1>1, <1>2, <2>1
      <4>2. buffer[i] = All[Passed + i]
        BY <1>2, <4>1 DEF Reads
      <4> QED
        BY <1>4, <2>1, <2>3, <4>1, <4>2
    <3> QED
      BY <1>4, <2>1, <2>4, <3>1
  <2>6. q = Meaning(r)
    BY <1>2, <1>5, <2>1, <2>3, <2>5, DispatchedIsMeant
  <2>7. state' = "RequestLine" /\ headers' = NoHeaders
    BY <1>1 DEF Complete
  <2>8. Passed' = Start[Ours + 1]
    BY <1>3, <2>1, <2>3
  <2> QED
    BY <1>1, <1>3, <1>5, <1>7, <2>1, <2>6, <2>7, <2>8, DispatchKeepsFInv DEF r
<1> QED
  BY <1>6, <1>7

\* The other steps leave the parser and the stream alone.
LEMMA NextKeepsFInv == Spelt /\ SInv /\ FInv /\ [Next]_vars => FInv'
<1> SUFFICES ASSUME Spelt, SInv, FInv, [Next]_vars PROVE FInv'
  OBVIOUS
<1>1. ASSUME UNCHANGED <<sent, wire, buffer, requests>>, UNCHANGED parseVars PROVE FInv'
  <2>1. Reads' /\ Left' = Left
    BY <1>1 DEF FInv, Reads, Left, Passed, All, Texts
  <2> QED
    BY <1>1, <2>1, StillKeepsFInv
<1>2. CASE Handshake \/ DoRead \/ ReadFails \/ ParseIncomplete
  BY <1>1, <1>2 DEF Handshake, DoRead, ReadFails, ParseIncomplete, netVars
<1>3. CASE RunPosted \/ \E r \in working : WorkerReplies(r)
  BY <1>1, <1>3 DEF RunPosted, WorkerReplies, netVars
<1>4. CASE WriteCompletes \/ WriteFails \/ ShutdownCompletes
  BY <1>1, <1>4 DEF WriteCompletes, WriteFails, ShutdownCompletes, netVars
<1>5. CASE UNCHANGED vars
  BY <1>1, <1>5 DEF vars, netVars
<1>6. CASE ReadCompletes
  BY <1>6, ReadKeepsFInv
<1>7. CASE ParseRequestLine \/ ParseHeader
  BY <1>7, ParseRequestLineKeepsFInv, ParseHeaderKeepsFInv
<1>8. CASE ParseEndOfHeaders \/ ParseBody
  BY <1>8, ParseEndOfHeadersKeepsFInv, ParseBodyKeepsFInv
<1> QED
  BY <1>2, <1>3, <1>4, <1>5, <1>6, <1>7, <1>8 DEF Next, Completion, Parse

\* The three invariants together, kept by every step.
LEMMA StreamIsKept == Spec => [](Spelt /\ SInv /\ FInv)
<1>1. Init => Spelt /\ SInv /\ FInv
  BY InitSpelt, InitSInv, InitFInv
<1>2. Spelt /\ SInv /\ FInv /\ [Next]_vars => (Spelt /\ SInv /\ FInv)'
  BY NextKeepsSpelt, NextKeepsSInv, NextKeepsFInv
<1> QED
  BY <1>1, <1>2, PTL DEF Spec

\* Framing: wherever reads cut the stream, within a line, between its CR and
\* its LF, or within a body, parse hands to process_request the requests the
\* client sent, with method and path, headers, body and the wish to close.
THEOREM RequestsAreFramed == Spec => []Framing
<1>1. FInv => Framing
  BY DEF FInv
<1> QED
  BY <1>1, StreamIsKept, PTL
-----------------------------------------------------------------------------
(***************************************************************************)
(* Session implements Conversation.  A dispatch is Take, a write that      *)
(* completes is Answer or, after an error reply, End or a stutter; the     *)
(* failures of handshake, read and write are End.                          *)
(***************************************************************************)
LEMMA Stutters ==
  ASSUME UNCHANGED <<sent, requests, answered>>, UNCHANGED conn
  PROVE  UNCHANGED Promise!vars
  BY DEF Promise!vars, Ended

LEMMA Ends ==
  ASSUME UNCHANGED <<sent, requests, answered>>, ~Ended, Ended'
  PROVE  Promise!Next
  BY DEF Promise!Next, Promise!End, Ended

\* The request handed to the pool is the next one, and nothing waits.
LEMMA DispatchTakes ==
  ASSUME SInv, OnIo, FInv, FInv', NEW q \in Request, requests' = Append(requests, q),
         UNCHANGED <<sent, answered, conn>>
  PROVE  Promise!Next
<1> DEFINE n == Len(requests) + 1
<1>1. requests \in Seq(Request) /\ Len(requests) \in Nat
  BY Lengths DEF SInv, Typed
<1>2. /\ n \in DOMAIN requests' /\ n \in Nat /\ Len(requests') = n
      /\ SubSeq(requests', 1, n - 1) = requests
  <2>1. /\ requests' \in Seq(Request) /\ Len(requests') = n /\ n - 1 = Len(requests)
        /\ \A m \in 1..Len(requests) : requests'[m] = requests[m]
    BY <1>1
  <2> DEFINE front == SubSeq(requests', 1, n - 1)
  <2>2. /\ front \in Seq(Request) /\ Len(front) = Len(requests)
        /\ \A m \in 1..Len(requests) : front[m] = requests'[m]
    BY <1>1, <2>1
  <2> HIDE DEF front
  <2>3. front = requests
    BY <1>1, <2>1, <2>2
  <2> QED
    BY <1>1, <2>1, <2>3 DEF front
<1>3. ~Ended /\ UNCHANGED Ended /\ Len(answered) = Len(requests)
  BY DEF OnIo, UpToDate, Ended
<1>4. DOMAIN sent = 1..Len(sent) /\ Len(sent) \in Nat
  BY SentIsLaid DEF FInv
<1>5. ASSUME \A m \in DOMAIN sent : m <= n => WellFormed(sent[m])
      PROVE  n \in DOMAIN sent /\ requests'[n] = Meaning(sent[n])
  <2>1. IF n \in DOMAIN sent /\ Meant(n)
          THEN requests'[n] = Meaning(sent[n])
          ELSE \E m \in DOMAIN sent : ~WellFormed(sent[m])
    BY <1>2 DEF FInv, Framing, Meant
  <2>2. CASE n \in DOMAIN sent
    <3>1. Meant(n)
      BY <1>2, <1>4, <1>5, <2>2 DEF Meant
    <3> QED
      BY <2>1, <2>2, <3>1
  <2>3. CASE n \notin DOMAIN sent
    <3>1. \A m \in DOMAIN sent : m <= n
      BY <1>2, <1>4, <2>3
    <3> QED
      BY <1>5, <2>1, <2>3, <3>1
  <2> QED
    BY <2>2, <2>3
<1>6. Promise!Understood(n) => n \in DOMAIN sent /\ requests'[n] = Meaning(sent[n])
  BY <1>5 DEF Promise!Understood
<1>7. Promise!Take
  BY <1>2, <1>3, <1>6 DEF Promise!Take
<1> QED
  BY <1>7 DEF Promise!Next

LEMMA ParseRefines ==
  ASSUME Spelt, SInv, FInv, FInv', Parse
  PROVE  Promise!Next \/ UNCHANGED Promise!vars
<1>1. OnIo
  BY DEF SInv, Parse, ParseIncomplete, ParseRequestLine, ParseHeader, ParseEndOfHeaders,
         ParseBody, InRead, WithWorker, InPost, InWrite, Outside, NoInput
<1>2. UNCHANGED <<sent, answered, conn>>
  BY DEF Parse, ParseIncomplete, ParseRequestLine, ParseHeader, ParseEndOfHeaders, ParseBody,
         netVars, writeVars
<1>3. UNCHANGED requests \/ \E q \in Request : requests' = Append(requests, q)
  <2>1. CASE ParseIncomplete \/ ParseRequestLine \/ ParseHeader
    BY <2>1 DEF ParseIncomplete, ParseRequestLine, ParseHeader
  <2>2. CASE ParseEndOfHeaders
    <3> DEFINE alive == ~Closes(headers)
    <3>1. alive \in BOOLEAN
      BY DEF Closes
    <3>2. <<>> \in Seq(Units)
      OBVIOUS
    <3>3. UNCHANGED requests \/ Complete(<<>>, alive)
      BY <2>2 DEF ParseEndOfHeaders
    <3> HIDE DEF alive
    <3> QED
      BY <3>1, <3>2, <3>3, DispatchedIsRequest
  <2>3. CASE ParseBody
    <3>1. SubSeq(buffer, 1, length) \in Seq(Units) /\ keepAlive \in BOOLEAN
      BY <2>3, SizeIsNatural DEF Spelt, SInv, Typed, ParseBody
    <3>2. Complete(SubSeq(buffer, 1, length), keepAlive)
      BY <2>3 DEF ParseBody
    <3> QED
      BY <3>1, <3>2, DispatchedIsRequest
  <2> QED
    BY <2>1, <2>2, <2>3 DEF Parse
<1> QED
  BY <1>1, <1>2, <1>3, Stutters, DispatchTakes

LEMMA WriteRefines ==
  ASSUME SInv, WriteCompletes
  PROVE  Promise!Next \/ UNCHANGED Promise!vars
<1>1. InWrite
  BY DEF SInv, WriteCompletes, OnIo, InRead, WithWorker, InPost, Outside, NoReply
<1>2. PICK r \in Nat : outbox = <<r>> /\ Due(r)
  BY <1>1 DEF InWrite
<1>3. Head(outbox) = r /\ Tail(outbox) = <<>>
  BY <1>2
<1>4. /\ answered' = (IF r = 0 THEN answered ELSE Append(answered, r))
      /\ \/ keepAlive /\ UNCHANGED conn
         \/ ~keepAlive /\ conn' = "shutdown"
      /\ UNCHANGED <<sent, requests>>
  BY <1>3 DEF WriteCompletes, netVars
<1>5. ~Ended /\ Ended' = ~keepAlive /\ keepAlive \in BOOLEAN
  BY <1>1, <1>4 DEF InWrite, Ended, SInv, Typed
<1>6. CASE r = 0 \/ Len(requests) = 0
  <2>1. UNCHANGED answered
    BY <1>2, <1>4, <1>6 DEF Due
  <2> QED
    BY <1>4, <1>5, <2>1, Stutters, Ends
<1>7. CASE r # 0 /\ Len(requests) # 0
  <2>1. /\ r = Len(requests) /\ Len(answered) = Len(requests) - 1
        /\ requests[Len(requests)].close = ~keepAlive
    BY <1>2, <1>7 DEF Due
  <2>2. Promise!Answer
    BY <1>4, <1>5, <1>7, <2>1 DEF Promise!Answer
  <2> QED
    BY <2>2 DEF Promise!Next
<1> QED
  BY <1>6, <1>7

LEMMA StepRefines ==
  ASSUME Spelt, SInv, FInv, FInv', [Next]_vars
  PROVE  [Promise!Next]_(Promise!vars)
<1>1. CASE DoRead \/ ReadCompletes \/ RunPosted \/ UNCHANGED vars
  <2>1. UNCHANGED <<sent, requests, answered>> /\ UNCHANGED conn
    BY <1>1 DEF DoRead, ReadCompletes, RunPosted, vars, netVars, writeVars
  <2> QED
    BY <2>1, Stutters
<1>2. CASE \E r \in working : WorkerReplies(r)
  <2>1. UNCHANGED <<sent, requests, answered>> /\ UNCHANGED conn
    BY <1>2 DEF WorkerReplies, netVars, writeVars
  <2> QED
    BY <2>1, Stutters
<1>3. CASE Handshake \/ ShutdownCompletes
  <2>1. UNCHANGED <<sent, requests, answered>> /\ ((~Ended /\ Ended') \/ UNCHANGED Ended)
    BY <1>3 DEF Handshake, ShutdownCompletes, netVars, writeVars, Ended
  <2> QED
    BY <2>1, Ends DEF Promise!vars
<1>4. CASE ReadFails \/ WriteFails
  <2>1. conn = "open"
    BY <1>4 DEF SInv, ReadFails, WriteFails, OnIo, InRead, WithWorker, InPost, InWrite, Outside,
                NoInput, NoReply
  <2>2. UNCHANGED <<sent, requests, answered>> /\ ~Ended /\ Ended'
    BY <1>4, <2>1 DEF ReadFails, WriteFails, netVars, writeVars, Ended
  <2> QED
    BY <2>2, Ends
<1>5. CASE WriteCompletes
  BY <1>5, WriteRefines
<1>6. CASE Parse
  BY <1>6, ParseRefines
<1> QED
  BY <1>1, <1>2, <1>3, <1>4, <1>5, <1>6 DEF Next, Completion

\* Refines: Session implements Conversation.  Seen from the client, do_read,
\* parse, process_request, the workers, send_response and do_write take its
\* requests one at a time, as it meant them, and close when it was asked for.
THEOREM SessionRefinesConversation == Spec => Refines
<1>1. Init => Promise!Init
  BY DEF Init, Promise!Init, Ended
<1>2. Spelt /\ SInv /\ FInv /\ FInv' /\ [Next]_vars => [Promise!Next]_(Promise!vars)
  BY StepRefines
<1> QED
  BY <1>1, <1>2, StreamIsKept, PTL DEF Spec, Refines, Promise!Spec
=============================================================================
