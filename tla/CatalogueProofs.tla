--------------------------- MODULE CatalogueProofs --------------------------
(***************************************************************************)
(* The product handlers keep the invariant of AccountsProofs and two of    *)
(* their own: GInv, about tokens and what they let through, and CInv,      *)
(* about the rows and what replies say of them.  The theorems hold for all *)
(* workers, forms, paths and bounds.                                       *)
(*                                                                         *)
(* The last two sections are about the router: match is a loop over two    *)
(* sequences, and what it returns is shown to be a condition on each pair; *)
(* then the table is read off.                                             *)
(***************************************************************************)
EXTENDS Catalogue, AccountsProofs, DataLemmas, FiniteSetTheorems, TLAPS

\* A product handler takes a request's number, or is a fault, or neither.
LEMMA ShopStepPasses ==
  ASSUME AInv, NEW w \in Workers, ShopStep(w)
  PROVE  Passing
<1> USE DEF AInv
<1>1. /\ spent \in [Counted -> Nat] /\ spent.requests \in Nat /\ spent.faults \in Nat
      /\ {"edits", "orders"} \subseteq Counted \ {"requests", "faults", "crashes"}
      /\ "crashes" \in Counted
  BY SpentIsTyped, MoreBounds DEF Shaped, Counted
<1>2. CASE Request(w)
  <2>1. Asks("edits")
    BY <1>2 DEF Request
  <2>2. spent' \in [Counted -> Nat] /\ Run' = Run /\ spent'.requests = ThisRequest
        /\ spent'.faults = spent.faults
    BY <1>1, <2>1, Counters
  <2>3. UNCHANGED <<users, sessions, gen, ctx, replies, raced>>
    BY <1>2 DEF Request
  <2> QED
    BY <1>1, <2>2, <2>3 DEF Passing, ThisRequest
<1>3. CASE CheckToken(w)
  BY <1>1, <1>3 DEF CheckToken, accountVars, Passing, Run
<1>4. CASE InsertProduct(w) \/ RemoveProduct(w) \/ UpdateOrRead(w)
  <2>1. NoFault \/ Fault
    BY <1>4 DEF InsertProduct, RemoveProduct, UpdateOrRead
  <2>2. UNCHANGED <<users, sessions, gen, ctx, replies, raced>>
    BY <1>4 DEF InsertProduct, RemoveProduct, UpdateOrRead
  <2> QED
    BY <1>1, <2>1, <2>2, Counters DEF Passing
<1>5. CASE Deliver(w)
  BY <1>1, <1>5 DEF Deliver, accountVars, Passing, Run
<1>6. CASE OrderLine(w)
  <2>1. spent' = [spent EXCEPT !["orders"] = @ + 1]
    BY <1>6 DEF OrderLine, Spend
  <2>2. spent' \in [Counted -> Nat] /\ spent'.requests = spent.requests
        /\ spent'.faults = spent.faults /\ spent'.crashes = spent.crashes
    BY <1>1, <2>1
  <2> QED
    BY <1>1, <1>6, <2>2 DEF OrderLine, Passing, Run
<1> QED
  BY <1>2, <1>3, <1>4, <1>5, <1>6 DEF ShopStep

LEMMA NextKeepsAInv == AInv /\ [Next]_vars => AInv'
<1> SUFFICES ASSUME AInv, [Next]_vars PROVE AInv'
  OBVIOUS
<1>1. ASSUME NEW w \in Workers, NEW form \in Forms, Register(w, form) \/ Login(w, form)
      PROVE  AInv'
  BY <1>1, RegisterKeepsAInv, LoginKeepsAInv
<1>2. ASSUME NEW w \in Workers, AccountStep(w) PROVE AInv'
  BY <1>2, AccountStepKeepsAInv
<1>3. ASSUME NEW w \in Workers, ShopStep(w) PROVE AInv'
  BY <1>3, ShopStepPasses, PassingKeepsAInv
<1>4. CASE Crash
  BY <1>4, CrashKeepsAInv DEF Crash
<1>5. CASE UNCHANGED vars
  <2>1. Passing
    BY <1>5, SpentIsTyped DEF vars, accountVars, Passing, AInv, Shaped, Run
  <2> QED
    BY <2>1, PassingKeepsAInv
<1> QED
  BY <1>1, <1>2, <1>3, <1>4, <1>5 DEF Next

THEOREM AccountsAreKept == Spec => []AInv
<1>1. Init => AInv
  BY InitAInv DEF Init
<1> QED
  BY <1>1, NextKeepsAInv, PTL DEF Spec

\* Whatever other workers register at the same time, and whatever fails or
\* crashes, what AuthController::register_user answered agrees with the table
\* from then on.
THEOREM RegistrationsAreTold == Spec => []AnswersTellTheTable
  BY AccountsAreKept, AInvTells, PTL

\* The token that create_token gave out opens the session of the account that
\* logged in, in the run of the process that gave it out, unless draws of that
\* run overlapped; and no session ever has a role its account has not.
THEOREM TokensOpenAccounts == Spec => []TokenOpensItsAccount
  BY AccountsAreKept, AInvOpens, PTL
-----------------------------------------------------------------------------
LEMMA StepGrows ==
  ASSUME AInv, Next, ~Crash
  PROVE  Grown
<1> USE DEF AInv
<1>1. spent.requests \in Nat /\ spent.faults \in Nat
  BY SpentIsTyped DEF Shaped
<1>2. ASSUME NEW w \in Workers, NEW form \in Forms, Register(w, form) \/ Login(w, form)
      PROVE  Grown
  <2>1. PICK kind \in {"registers", "logins"} : Asks(kind)
    BY <1>2 DEF Register, Login
  <2>2. /\ Run' = Run /\ spent'.requests = spent.requests + 1
        /\ spent'.faults = spent.faults
    BY <2>1, Counters, SpentIsTyped DEF Shaped, ThisRequest
  <2>3. UNCHANGED <<users, sessions, replies, raced>>
    BY <1>2 DEF Register, Login
  <2> QED
    BY <1>1, <2>2, <2>3 DEF Grown, Tokens
<1>3. ASSUME NEW w \in Workers, ShopStep(w) PROVE Grown
  BY <1>3, ShopStepPasses DEF Passing, Grown, Tokens
<1> QED
  BY <1>2, <1>3, AccountStepGrows DEF Next

JobFields == {"pc", "handler", "req", "id", "token", "good", "status"}

\* The records of the jobs, apart from what they say.
Filled ==
  /\ job = [w \in Workers |-> job[w]]
  /\ \A w \in Workers : job[w] = [f \in JobFields |-> job[w][f]]

\* The product handlers: a worker runs one handler at a time.
Jobs ==
  /\ Filled
  /\ \A w \in Workers : /\ job[w].pc \in JobPcs
                        /\ job[w].pc = "statement" => job[w].good
                        /\ ~(Busy(w) /\ job[w].pc # "idle")

\* A token that a client may send: forged, none, or one that some client was given.
Sendable(t) == t \in Forged \cup {None} \/ \E r \in Tokens : r.token = t

\* A job that Request begins.
Fresh(c) ==
  /\ c = [f \in JobFields |-> c[f]]
  /\ c.req = ThisRequest
  /\ c.pc \in {"auth", "statement", "answer"}
  /\ c.handler \in NeedsToken <=> c.pc = "auth"
  /\ c.handler \in NeedsToken => Sendable(c.token)
  /\ c.pc = "statement" => c.good

LEMMA RequestIsFresh ==
  ASSUME NEW w \in Workers, Request(w)
  PROVE  \E c : Fresh(c) /\ job' = [job EXCEPT ![w] = c]
<1>1. PICK method \in Methods, path \in Paths, good \in BOOLEAN,
           token \in {r.token : r \in Tokens} \cup Forged \cup {None} :
       LET found == Route(method, path)
           text == IF "id" \in DOMAIN found.params THEN found.params["id"] ELSE ""
           r == [handler |-> found.handler, text |-> text, good |-> good]
       IN  /\ found.handler \in NeedsToken \cup Tokenless \cup {"home", "not_found"}
           /\ job' = [job EXCEPT ![w] =
                [pc |-> FirstStep(r), handler |-> found.handler, req |-> ThisRequest,
                 id |-> IF found.handler \in NeedsId /\ ~BadId(r) THEN Numerals[text] ELSE 0,
                 token |-> IF found.handler \in NeedsToken THEN token ELSE None,
                 good |-> ~BadId(r) /\ ~BadBody(r),
                 status |-> FirstStatus(r)]]
  BY DEF Request
<1> DEFINE found == Route(method, path)
           text == IF "id" \in DOMAIN found.params THEN found.params["id"] ELSE ""
           r == [handler |-> found.handler, text |-> text, good |-> good]
           id == IF found.handler \in NeedsId /\ ~BadId(r) THEN Numerals[text] ELSE 0
           shown == IF found.handler \in NeedsToken THEN token ELSE None
           sound == ~BadId(r) /\ ~BadBody(r)
           c == [pc |-> FirstStep(r), handler |-> found.handler, req |-> ThisRequest,
                 id |-> id, token |-> shown, good |-> sound, status |-> FirstStatus(r)]
<1>2. job' = [job EXCEPT ![w] = c]
  BY <1>1
<1>3. r.handler = found.handler
  OBVIOUS
<1>4. Sendable(shown)
  BY DEF Sendable
<1> HIDE DEF found, text, r, id, shown
<1>5. /\ FirstStep(r) \in {"auth", "statement", "answer"}
      /\ found.handler \in NeedsToken <=> FirstStep(r) = "auth"
      /\ FirstStep(r) = "statement" => sound
  BY <1>3 DEF FirstStep, NeedsToken, Tokenless
<1> HIDE DEF sound
<1>6. /\ c = [f \in JobFields |-> c[f]] /\ c.pc = FirstStep(r) /\ c.handler = found.handler
      /\ c.req = ThisRequest /\ c.token = shown /\ c.good = sound
  BY DEF JobFields
<1> HIDE DEF c
<1>7. Fresh(c)
  BY <1>4, <1>5, <1>6 DEF Fresh
<1> QED
  BY <1>2, <1>7

\* Worker w goes on with its job, and no other job changes.
GoesOn(w, pc, status) ==
  /\ job'[w].pc = pc /\ job'[w].status = status
  /\ \A f \in {"handler", "req", "id", "token", "good"} : job'[w][f] = job[w][f]
  /\ \A v \in Workers : v # w => job'[v] = job[v]

LEMMA JobGoesOn ==
  ASSUME Filled, NEW w \in Workers, NEW pc, NEW status,
         job' = [job EXCEPT ![w].pc = pc, ![w].status = status]
  PROVE  Filled' /\ GoesOn(w, pc, status)
<1> DEFINE c == [job[w] EXCEPT !.pc = pc, !.status = status]
<1>1. job' = [job EXCEPT ![w] = c]
  BY DEF Filled
<1>2. /\ c = [f \in JobFields |-> c[f]] /\ c.pc = pc /\ c.status = status
      /\ \A f \in {"handler", "req", "id", "token", "good"} : c[f] = job[w][f]
  BY DEF Filled, JobFields
<1> HIDE DEF c
<1>3. job'[w] = c /\ \A v \in Workers : v # w => job'[v] = job[v]
  BY <1>1 DEF Filled
<1> QED
  BY <1>1, <1>2, <1>3 DEF Filled, GoesOn

LEMMA JobStarts ==
  ASSUME Filled, NEW w \in Workers, NEW c, c = [f \in JobFields |-> c[f]],
         job' = [job EXCEPT ![w] = c]
  PROVE  Filled' /\ job'[w] = c /\ \A v \in Workers : v # w => job'[v] = job[v]
  BY DEF Filled

LEMMA NoJobIs ==
  NoJob = [f \in JobFields |-> NoJob[f]] /\ NoJob.pc = "idle" /\ NoJob.handler = "none"
  BY DEF NoJob, JobFields

\* What CheckToken finds.
Verdict(w) == Authorise(job[w].token, RequiredRole(job[w].handler))
Passes(w) == Verdict(w) = "ok" /\ job[w].good
CheckedPc(w) == IF Passes(w) THEN "statement" ELSE "answer"
CheckedStatus(w) ==
  IF Passes(w) THEN "none" ELSE IF Verdict(w) = "ok" THEN "400" ELSE Verdict(w)

\* What becomes of the jobs in a step: nothing, one begins, one goes on or one
\* ends.
LEMMA StepOfJobs ==
  ASSUME Filled, NEW w \in Workers, ShopStep(w)
  PROVE  /\ Filled'
         /\ \/ /\ Request(w) /\ Fresh(job'[w])
               /\ \A v \in Workers : v # w => job'[v] = job[v]
            \/ CheckToken(w) /\ GoesOn(w, CheckedPc(w), CheckedStatus(w))
            \/ /\ InsertProduct(w) \/ RemoveProduct(w) \/ UpdateOrRead(w)
               /\ \E status : Status(w, status) /\ GoesOn(w, "answer", status)
            \/ /\ Deliver(w) /\ job'[w] = NoJob
               /\ \A v \in Workers : v # w => job'[v] = job[v]
            \/ OrderLine(w) /\ job' = job
<1>1. CASE Request(w)
  <2>1. PICK c : Fresh(c) /\ job' = [job EXCEPT ![w] = c]
    BY <1>1, RequestIsFresh
  <2>2. Filled' /\ job'[w] = c /\ \A v \in Workers : v # w => job'[v] = job[v]
    BY <2>1, JobStarts DEF Fresh
  <2> QED
    BY <1>1, <2>1, <2>2
<1>2. CASE CheckToken(w)
  <2>1. job' = [job EXCEPT ![w].pc = CheckedPc(w), ![w].status = CheckedStatus(w)]
    BY <1>2 DEF CheckToken, Verdict, Passes, CheckedPc, CheckedStatus
  <2> QED
    BY <1>2, <2>1, JobGoesOn
<1>3. CASE InsertProduct(w) \/ RemoveProduct(w) \/ UpdateOrRead(w)
  <2>1. PICK status : Status(w, status)
    BY <1>3 DEF InsertProduct, RemoveProduct, UpdateOrRead
  <2>2. Filled' /\ GoesOn(w, "answer", status)
    BY <2>1, JobGoesOn DEF Status
  <2> QED
    BY <1>3, <2>1, <2>2
<1>4. CASE Deliver(w)
  BY <1>4, NoJobIs, JobStarts DEF Deliver
<1>5. CASE OrderLine(w)
  BY <1>5 DEF OrderLine, Filled
<1> QED
  BY <1>1, <1>2, <1>3, <1>4, <1>5 DEF ShopStep

LEMMA NextKeepsJobs == AInv /\ Jobs /\ [Next]_vars => Jobs'
<1> SUFFICES ASSUME AInv, Jobs, [Next]_vars PROVE Jobs'
  OBVIOUS
<1> USE DEF Jobs
<1>1. ctx = [w \in Workers |-> ctx[w]]
  BY DEF AInv, Shaped
<1>2. ASSUME NEW w \in Workers, NEW form \in Forms, ~Working(w),
             Register(w, form) \/ Login(w, form), UNCHANGED shopVars
      PROVE  Jobs'
  <2>1. \A v \in Workers : v # w => ctx'[v] = ctx[v]
    BY <1>1, <1>2 DEF Register, Login
  <2> QED
    BY <1>2, <2>1 DEF shopVars, Filled, Working, Busy
<1>3. ASSUME NEW w \in Workers, AccountStep(w), UNCHANGED shopVars
      PROVE  Jobs'
  <2>1. Busy(w)
    BY <1>3 DEF AccountStep, InsertUser, FindUser, DrawRead, DrawStep, Store, Answer, Busy
  <2>2. \A v \in Workers : v # w => ctx'[v] = ctx[v]
    <3>1. CASE InsertUser(w)
      BY <1>1, <3>1 DEF InsertUser
    <3>2. CASE FindUser(w)
      BY <1>1, <3>2 DEF FindUser
    <3>3. CASE DrawRead(w) \/ DrawStep(w)
      BY <1>1, <3>3 DEF DrawRead, DrawStep
    <3>4. CASE Store(w) \/ Answer(w)
      BY <1>1, <3>4 DEF Store, Answer
    <3> QED
      BY <1>3, <3>1, <3>2, <3>3, <3>4 DEF AccountStep
  <2> QED
    BY <1>3, <2>1, <2>2 DEF shopVars, Filled, Busy
<1>4. ASSUME NEW w \in Workers, ShopStep(w)
      PROVE  Jobs'
  <2>1. UNCHANGED ctx
    BY <1>4, ShopStepPasses DEF Passing
  <2>2. Filled'
    BY <1>4, StepOfJobs
  <2>3. CASE Request(w) /\ Fresh(job'[w]) /\ \A v \in Workers : v # w => job'[v] = job[v]
    <3>1. ~Busy(w)
      BY <2>3 DEF Request, Working
    <3> QED
      BY <2>1, <2>2, <2>3, <3>1 DEF Fresh, JobPcs, Busy
  <2>4. CASE CheckToken(w) /\ GoesOn(w, CheckedPc(w), CheckedStatus(w))
    <3>1. /\ job[w].pc = "auth" /\ job'[w].pc \in {"statement", "answer"}
          /\ job'[w].pc = "statement" => job[w].good
      <4>1. job[w].pc = "auth" /\ job'[w].pc = CheckedPc(w)
        BY <2>4 DEF CheckToken, GoesOn
      <4> QED
        BY <4>1 DEF CheckedPc, Passes
    <3> QED
      BY <2>1, <2>2, <2>4, <3>1 DEF GoesOn, JobPcs, Busy
  <2>5. CASE /\ InsertProduct(w) \/ RemoveProduct(w) \/ UpdateOrRead(w)
             /\ \E status : Status(w, status) /\ GoesOn(w, "answer", status)
    <3>1. job[w].pc = "statement"
      BY <2>5 DEF InsertProduct, RemoveProduct, UpdateOrRead
    <3> QED
      BY <2>1, <2>2, <2>5, <3>1 DEF GoesOn, JobPcs, Busy
  <2>6. CASE Deliver(w) /\ job'[w] = NoJob /\ \A v \in Workers : v # w => job'[v] = job[v]
    BY <2>1, <2>2, <2>6, NoJobIs DEF JobPcs, Busy
  <2>7. CASE OrderLine(w) /\ job' = job
    BY <2>1, <2>7, <2>2 DEF Busy
  <2> QED
    BY <1>4, <2>3, <2>4, <2>5, <2>6, <2>7, StepOfJobs
<1>5. CASE Crash
  <2>1. job' = [w \in Workers |-> NoJob] /\ \A w \in Workers : job'[w] = NoJob
    BY <1>5 DEF Crash
  <2> HIDE DEF Crash
  <2> QED
    BY <2>1, NoJobIs DEF Filled, JobPcs
<1>6. CASE UNCHANGED vars
  BY <1>6 DEF vars, shopVars, accountVars, Filled, Busy
<1> QED
  BY <1>2, <1>3, <1>4, <1>5, <1>6 DEF Next
-----------------------------------------------------------------------------
\* What the token of a request has been found to be, in this run; h is the
\* handler, t the token and s the status so far.
Holds(h, t, s) ==
  h \in NeedsToken /\ s # "401" =>
    /\ t \in DOMAIN sessions /\ \E r \in Tokens : r.token = t
    /\ s # "403" /\ h = "delete_product" /\ Run \notin raced => sessions[t].role = "admin"

\* GuardedByItsToken of one reply.
Guarded(a) ==
  a.handler \in NeedsToken /\ a.status # "401" =>
    /\ a.token # None /\ RunOf(a.token) = a.run
    /\ \E r \in Tokens : r.token = a.token
    /\ a.status # "403" /\ a.run \notin raced =>
         \A r \in Tokens : r.token = a.token /\ a.handler = "delete_product" =>
           users[r.form.username].role = "admin"

Kept(a) ==
  /\ a.run \in 0..Run
  /\ a.handler \in NeedsToken /\ a.status # "401"
  /\ Guarded(a)
  /\ a.run = Run => Holds(a.handler, a.token, a.status)

\* The token of a request is one that a client may send, and what is found of
\* it holds until the reply.
HeldBy(w) ==
  /\ job[w].pc # "idle" /\ job[w].handler \in NeedsToken => Sendable(job[w].token)
  /\ job[w].pc = "statement" => Holds(job[w].handler, job[w].token, "none")
  /\ job[w].pc = "answer" => Holds(job[w].handler, job[w].token, job[w].status)

GInv ==
  /\ \A a \in answers : Kept(a)
  /\ \A w \in Workers : HeldBy(w)

LEMMA HoldsStays ==
  ASSUME Grown, NEW h, NEW t, NEW s, Holds(h, t, s)
  PROVE  Holds(h, t, s)'
  BY DEF Grown, Holds, Tokens

\* In a run without overlapping draws all who were given a token are the
\* account its session speaks for.
LEMMA HoldsGuards ==
  ASSUME AInv, NEW a, a.run = Run, Holds(a.handler, a.token, a.status)
  PROVE  Guarded(a)
<1> SUFFICES ASSUME a.handler \in NeedsToken, a.status # "401" PROVE Guarded(a)
  BY DEF Guarded
<1>1. /\ a.token \in DOMAIN sessions /\ \E r \in Tokens : r.token = a.token
      /\ a.status # "403" /\ a.handler = "delete_product" /\ Run \notin raced =>
           sessions[a.token].role = "admin"
  BY DEF Holds
<1>2. /\ a.token \in Seq(Draws) /\ RunOf(a.token) = Run
      /\ sessions[a.token].role = users[sessions[a.token].username].role
  BY <1>1 DEF AInv, Opened, IsToken, RunOf
<1>3. a.token # None
  BY <1>2, NoneIsNothing DEF Draws
<1>4. ASSUME Run \notin raced, NEW r \in Tokens, r.token = a.token
      PROVE  sessions[a.token].username = r.form.username
  BY <1>2, <1>4 DEF AInv, Apart
<1> QED
  BY <1>1, <1>2, <1>3, <1>4 DEF Guarded

LEMMA KeptStays ==
  ASSUME AInv, AInv', Grown, NEW a, Kept(a)
  PROVE  Kept(a)'
<1>1. Run' = Run /\ Run \in Nat
  BY SpentIsTyped DEF Grown, AInv, Shaped, Run
<1>2. CASE a.run = Run
  <2>1. Holds(a.handler, a.token, a.status)'
    BY <1>2, HoldsStays DEF Kept
  <2>2. Guarded(a)'
    <3> SUFFICES ASSUME a.handler \in NeedsToken, a.status # "401" PROVE Guarded(a)'
      BY DEF Guarded
    <3>1. /\ a.token \in DOMAIN sessions' /\ \E r \in Tokens' : r.token = a.token
          /\ a.status # "403" /\ a.handler = "delete_product" /\ Run' \notin raced' =>
               sessions'[a.token].role = "admin"
      BY <2>1 DEF Holds
    <3>2. /\ a.token \in Seq(Draws) /\ RunOf(a.token) = Run'
          /\ sessions'[a.token].role = users'[sessions'[a.token].username].role
      BY <3>1 DEF AInv, Opened, IsToken, RunOf
    <3>3. a.token # None
      BY <3>2, NoneIsNothing DEF Draws
    <3>4. ASSUME Run' \notin raced', NEW r \in Tokens', r.token = a.token
          PROVE  sessions'[a.token].username = r.form.username
      BY <3>2, <3>4 DEF AInv, Apart
    <3> QED
      BY <1>1, <1>2, <3>1, <3>2, <3>3, <3>4 DEF Guarded
  <2> QED
    BY <1>1, <1>2, <2>1, <2>2 DEF Kept
<1>3. CASE a.run # Run
  <2>1. \A r \in Tokens' : r \notin Tokens => RunOf(r.token) = Run
    BY DEF Grown, AInv, Opened, IsToken, RunOf
  <2>2. \A r \in Tokens : /\ r \in Tokens' /\ r.form.username \in DOMAIN users
                          /\ users'[r.form.username] = users[r.form.username]
    BY DEF Grown, AInv, Opened, Tokens
  <2>3. raced \subseteq raced'
    BY DEF Grown
  <2>4. Guarded(a)'
    BY <1>3, <2>1, <2>2, <2>3 DEF Guarded, Kept
  <2> QED
    BY <1>1, <1>3, <2>4 DEF Kept
<1> QED
  BY <1>2, <1>3

LEMMA HeldByStays ==
  ASSUME Grown, NEW v \in Workers, HeldBy(v), job'[v] = job[v]
  PROVE  HeldBy(v)'
  BY DEF HeldBy, Sendable, Holds, Grown, Tokens

LEMMA ShopKeepsGInv ==
  ASSUME AInv, AInv', Filled, GInv, NEW w \in Workers, ShopStep(w)
  PROVE  GInv'
<1> USE DEF GInv
<1>1. /\ Grown /\ UNCHANGED <<users, sessions, replies, raced>> /\ Run' = Run
      /\ Tokens' = Tokens
  BY ShopStepPasses DEF Passing, Grown, Tokens
<1>2. \A a \in answers : Kept(a)'
  BY <1>1, KeptStays
<1>3. ASSUME NEW v \in Workers, job'[v] = job[v]
      PROVE  HeldBy(v)'
  BY <1>1, <1>3, HeldByStays
<1>4. CASE Request(w) /\ Fresh(job'[w]) /\ \A v \in Workers : v # w => job'[v] = job[v]
  <2>1. answers' = answers
    BY <1>4 DEF Request
  <2>2. HeldBy(w)'
    BY <1>1, <1>4 DEF Fresh, HeldBy, Holds, Sendable
  <2> QED
    BY <1>2, <1>3, <1>4, <2>1, <2>2
<1>5. CASE CheckToken(w) /\ GoesOn(w, CheckedPc(w), CheckedStatus(w))
  <2>1. answers' = answers /\ job[w].pc = "auth"
    BY <1>5 DEF CheckToken
  <2>2. Verdict(w) # "401" /\ job[w].handler \in NeedsToken =>
          Holds(job[w].handler, job[w].token, "403")
    <3>1. job[w].token \in DOMAIN sessions => job[w].token \notin Forged \cup {None}
      BY NoneIsNothing, ForgedIsNoToken DEF AInv, Opened, IsToken, Draws
    <3> QED
      BY <2>1, <3>1 DEF Verdict, Authorise, Holds, HeldBy, Sendable
  <2>3. Verdict(w) = "ok" => Holds(job[w].handler, job[w].token, "none")
    <3>1. RequiredRole("delete_product") = "admin" /\ "admin" # None
      BY NoneIsNothing DEF RequiredRole
    <3> QED
      BY <2>2, <3>1 DEF Verdict, Authorise, Holds
  <2>4. Verdict(w) \in {"401", "403", "ok"}
    BY DEF Verdict, Authorise
  <2>5. HeldBy(w)'
    <3>1. /\ job'[w].pc = CheckedPc(w) /\ job'[w].status = CheckedStatus(w)
          /\ job'[w].handler = job[w].handler /\ job'[w].token = job[w].token
      BY <1>5 DEF GoesOn
    <3> QED
      BY <1>1, <2>1, <2>2, <2>3, <2>4, <3>1
         DEF HeldBy, Sendable, Holds, CheckedPc, CheckedStatus, Passes
  <2> QED
    BY <1>2, <1>3, <1>5, <2>1, <2>5 DEF GoesOn
<1>6. CASE /\ InsertProduct(w) \/ RemoveProduct(w) \/ UpdateOrRead(w)
           /\ \E status : Status(w, status) /\ GoesOn(w, "answer", status)
  <2>1. answers' = answers /\ job[w].pc = "statement"
    BY <1>6 DEF InsertProduct, RemoveProduct, UpdateOrRead
  <2>2. HeldBy(w)'
    <3>1. /\ job'[w].pc = "answer"
          /\ job'[w].handler = job[w].handler /\ job'[w].token = job[w].token
      BY <1>6 DEF GoesOn
    <3> QED
      BY <1>1, <2>1, <3>1 DEF HeldBy, Sendable, Holds
  <2> QED
    BY <1>2, <1>3, <1>6, <2>1, <2>2 DEF GoesOn
<1>7. CASE Deliver(w) /\ job'[w] = NoJob /\ \A v \in Workers : v # w => job'[v] = job[v]
  <2>1. HeldBy(w)'
    BY <1>7, NoJobIs DEF HeldBy
  <2>2. CASE answers' = answers
    BY <1>2, <1>3, <1>7, <2>1, <2>2
  <2> SUFFICES ASSUME job[w].handler \in NeedsToken, job[w].status # "401" PROVE GInv'
    BY <1>7, <2>2 DEF Deliver
  <2>3. PICK a : /\ a.handler = job[w].handler /\ a.token = job[w].token
                 /\ a.status = job[w].status /\ a.run = Run
                 /\ \A b \in answers' : b \in answers \/ b = a
    <3> DEFINE a == [req |-> job[w].req, handler |-> job[w].handler, id |-> job[w].id,
                     token |-> job[w].token, status |-> job[w].status, run |-> Run]
    <3>1. \A b \in answers' : b \in answers \/ b = a
      BY <1>7 DEF Deliver
    <3>2. /\ a.handler = job[w].handler /\ a.token = job[w].token
          /\ a.status = job[w].status /\ a.run = Run
      OBVIOUS
    <3> HIDE DEF a
    <3> QED
      BY <3>1, <3>2
  <2>4. job[w].pc = "answer"
    BY <1>7 DEF Deliver
  <2>5. Kept(a)'
    <3>1. Holds(a.handler, a.token, a.status)
      BY <2>3, <2>4 DEF HeldBy
    <3>2. Guarded(a)
      BY <2>3, <3>1, HoldsGuards
    <3>3. Run \in 0..Run
      BY SpentIsTyped DEF AInv, Shaped, Run
    <3> QED
      BY <1>1, <2>3, <3>1, <3>2, <3>3 DEF Kept, Guarded, Holds
  <2> QED
    BY <1>2, <1>3, <1>7, <2>1, <2>3, <2>5
<1>8. CASE OrderLine(w) /\ job' = job
  BY <1>2, <1>3, <1>8 DEF OrderLine
<1> QED
  BY <1>4, <1>5, <1>6, <1>7, <1>8, StepOfJobs

LEMMA NextKeepsGInv == AInv /\ AInv' /\ Filled /\ GInv /\ [Next]_vars => GInv'
<1> SUFFICES ASSUME AInv, AInv', Filled, GInv, [Next]_vars PROVE GInv'
  OBVIOUS
<1>1. ASSUME NEW w \in Workers, ShopStep(w) PROVE GInv'
  BY <1>1, ShopKeepsGInv
<1>2. ASSUME Grown, UNCHANGED shopVars PROVE GInv'
  BY <1>2, KeptStays, HeldByStays DEF GInv, shopVars
<1>3. CASE Crash
  <2>1. /\ Run' = Run + 1 /\ Run \in Nat /\ Tokens' = Tokens
        /\ UNCHANGED <<users, raced, answers>> /\ \A w \in Workers : job'[w] = NoJob
    BY <1>3, Counters, SpentIsTyped DEF Crash, LoseAccounts, AInv, Shaped, Tokens, Run
  <2>2. \A a \in answers : Kept(a)'
    BY <2>1 DEF GInv, Kept, Guarded
  <2>3. \A w \in Workers : HeldBy(w)'
    BY <2>1, NoJobIs DEF HeldBy
  <2> QED
    BY <2>1, <2>2, <2>3 DEF GInv
<1>4. CASE UNCHANGED vars
  <2>1. Grown
    BY <1>4, SpentIsTyped DEF vars, accountVars, Grown, AInv, Shaped, Run, Tokens
  <2> QED
    BY <1>2, <1>4, <2>1 DEF vars
<1>5. CASE Next /\ ~Crash /\ UNCHANGED shopVars
  BY <1>2, <1>5, StepGrows
<1> QED
  BY <1>1, <1>3, <1>4, <1>5 DEF Next
-----------------------------------------------------------------------------
\* The rows: each was added by a request of its own, and none that a line of an
\* order refers to is deleted.
Rows ==
  /\ added \in Seq(Nat)
  /\ \A i \in DOMAIN added : added[i] \in 0..spent.requests
  /\ \A i, j \in DOMAIN added : added[i] = added[j] => i = j
  /\ products \subseteq DOMAIN added /\ ordered \subseteq products

\* The numbers of the requests at work; until its statement has run, one has
\* added nothing.
JobNumbers ==
  /\ \A w \in Workers : /\ job[w].req \in 0..spent.requests
                        /\ job[w].pc \in {"auth", "statement"} =>
                             \A i \in DOMAIN added : added[i] # job[w].req
  /\ \A v, w \in Workers : job[v].pc # "idle" /\ job[w].pc # "idle" /\ v # w =>
       job[v].req # job[w].req

\* What a reply, given or about to be given, says of the rows.
Backed(r) ==
  /\ r.handler = "delete_product" /\ r.status = "200" => r.id \in DOMAIN added \ products
  /\ r.handler = "delete_product" /\ r.status = "500" /\ spent.faults = 0 => r.id \in ordered
  /\ r.handler = "add_product" /\ r.status = "201" =>
       spent.faults > 0 \/ \E i \in DOMAIN added : added[i] = r.req

\* A deletion that a client was told of, or is about to be.
Deletes(r) == r.handler = "delete_product" /\ r.status = "200"
Deleting(w) == job[w].pc = "answer" /\ Deletes(job[w])

CInv ==
  /\ Rows
  /\ JobNumbers
  /\ \A a \in answers : Backed(a)
  /\ \A w \in Workers : job[w].pc = "answer" => Backed(job[w])
  /\ \A a, b \in answers : Deletes(a) /\ Deletes(b) /\ a.id = b.id => a = b
  /\ \A a \in answers, w \in Workers : Deletes(a) /\ Deleting(w) => a.id # job[w].id
  /\ \A v, w \in Workers : Deleting(v) /\ Deleting(w) /\ v # w => job[v].id # job[w].id

\* What every step leaves of the rows: ids are not reused, and no id comes back.
RowsStay ==
  /\ spent'.requests >= spent.requests /\ spent'.faults >= spent.faults
  /\ spent'.requests \in Nat /\ spent.requests \in Nat
  /\ spent'.faults \in Nat /\ spent.faults \in Nat
  /\ \A i \in DOMAIN added : i \in DOMAIN added' /\ added'[i] = added[i]
  /\ \A i \in DOMAIN added : i \in products' => i \in products
  /\ ordered \subseteq ordered'

LEMMA BackedStays ==
  ASSUME RowsStay, NEW r, Backed(r)
  PROVE  Backed(r)'
  BY DEF RowsStay, Backed

\* A step that leaves the rows and the jobs alone.
LEMMA QuietKeepsCInv ==
  ASSUME CInv, RowsStay, UNCHANGED <<products, added, ordered, job, answers>>
  PROVE  CInv'
<1>1. Rows'
  BY DEF CInv, Rows, RowsStay
<1>2. JobNumbers'
  BY DEF CInv, JobNumbers, RowsStay
<1>3. \A r : Backed(r) => Backed(r)'
  BY BackedStays
<1>4. \A w \in Workers : (job[w].pc = "answer" => Backed(job[w]))'
  BY DEF CInv, Backed, RowsStay
<1> QED
  BY <1>1, <1>2, <1>3, <1>4 DEF CInv, Deletes, Deleting

LEMMA CrashKeepsCInv ==
  ASSUME AInv, CInv, Crash
  PROVE  CInv'
<1>1. RowsStay /\ UNCHANGED <<products, added, ordered, answers>>
  BY Counters, SpentIsTyped DEF Crash, LoseAccounts, AInv, Shaped, RowsStay
<1>2. \A w \in Workers : job'[w] = NoJob
  BY DEF Crash
<1>3. NoJob.pc = "idle" /\ NoJob.req = 0
  BY DEF NoJob
<1>4. Rows' /\ JobNumbers'
  BY <1>1, <1>2, <1>3 DEF CInv, Rows, JobNumbers, RowsStay
<1>5. \A a \in answers : Backed(a)'
  BY <1>1, BackedStays DEF CInv
<1> QED
  BY <1>1, <1>2, <1>3, <1>4, <1>5 DEF CInv, Deletes, Deleting

\* The counters in a step of a product handler.
LEMMA ShopCounts ==
  ASSUME AInv, NEW w \in Workers, ShopStep(w)
  PROVE  /\ spent'.requests >= spent.requests /\ spent'.faults >= spent.faults
         /\ spent'.requests \in Nat /\ spent.requests \in Nat
         /\ spent'.faults \in Nat /\ spent.faults \in Nat
         /\ Fault => spent'.faults > 0
         /\ Request(w) => spent'.requests = spent.requests + 1
<1>1. /\ spent \in [Counted -> Nat] /\ spent' \in [Counted -> Nat]
      /\ spent'.requests >= spent.requests /\ spent'.faults >= spent.faults
  BY ShopStepPasses DEF Passing, AInv, Shaped
<1>2. /\ spent'.requests \in Nat /\ spent.requests \in Nat
      /\ spent'.faults \in Nat /\ spent.faults \in Nat
  BY <1>1, SpentIsTyped
<1>3. Request(w) => spent'.requests = spent.requests + 1
  <2>1. Request(w) => Asks("edits")
    BY DEF Request
  <2>2. "edits" \in Counted \ {"requests", "faults", "crashes"}
    BY MoreBounds DEF Counted
  <2> QED
    BY <1>1, <2>1, <2>2, Counters DEF ThisRequest
<1>4. Fault => spent'.faults > 0
  BY <1>1, <1>2, Counters
<1> QED
  BY <1>1, <1>2, <1>3, <1>4

\* Steps that leave the rows: one job changes, and what it is about to reply
\* says nothing of the rows yet.
LEMMA JobKeepsCInv ==
  ASSUME AInv, CInv, NEW w \in Workers, ShopStep(w),
         UNCHANGED <<products, added, ordered>>,
         \A v \in Workers : v # w => job'[v] = job[v],
         \/ job'[w].req = job[w].req /\ job[w].pc # "idle"
         \/ Request(w) /\ job'[w].req = ThisRequest
         \/ job'[w].req = 0 /\ job'[w].pc = "idle",
         job'[w].pc \in {"auth", "statement"} =>
           (job[w].pc = "auth" /\ job'[w].req = job[w].req) \/ job'[w].req = ThisRequest,
         ~Deleting(w)', job'[w].pc = "answer" => Backed(job[w])',
         answers' = answers
  PROVE  CInv'
<1>1. RowsStay
  BY ShopCounts DEF RowsStay
<1>2. Request(w) => spent'.requests = spent.requests + 1
  BY ShopCounts
<1>3. Rows'
  BY <1>1 DEF CInv, Rows, RowsStay
<1>4. JobNumbers'
  <2>1. \A v \in Workers : job'[v].req \in 0..spent'.requests
    BY <1>1, <1>2 DEF CInv, JobNumbers, RowsStay, ThisRequest
  <2>2. \A v \in Workers : job'[v].pc \in {"auth", "statement"} =>
          \A i \in DOMAIN added' : added'[i] # job'[v].req
    <3>1. \A v \in Workers : job[v].pc \in {"auth", "statement"} =>
            \A i \in DOMAIN added : added[i] # job[v].req
      BY DEF CInv, JobNumbers
    <3>2. \A i \in DOMAIN added : added[i] # ThisRequest
      BY <1>1 DEF CInv, Rows, RowsStay, ThisRequest
    <3>3. job'[w].pc \in {"auth", "statement"} =>
            \/ job[w].pc = "auth" /\ job'[w].req = job[w].req
            \/ job'[w].req = ThisRequest
      OBVIOUS
    <3> QED
      BY <3>1, <3>2, <3>3
  <2>3. \A u, v \in Workers : job'[u].pc # "idle" /\ job'[v].pc # "idle" /\ u # v =>
          job'[u].req # job'[v].req
    BY <1>1, <1>2 DEF CInv, JobNumbers, RowsStay, ThisRequest
  <2> QED
    BY <2>1, <2>2, <2>3 DEF JobNumbers
<1>5. \A a \in answers : Backed(a)'
  BY <1>1, BackedStays DEF CInv
<1>6. \A v \in Workers : (job[v].pc = "answer" => Backed(job[v]))'
  BY <1>1 DEF CInv, Backed, RowsStay
<1> QED
  BY <1>3, <1>4, <1>5, <1>6 DEF CInv, Deletes, Deleting

LEMMA RequestKeepsCInv ==
  ASSUME AInv, Filled, CInv, NEW w \in Workers, Request(w), Fresh(job'[w]),
         \A v \in Workers : v # w => job'[v] = job[v]
  PROVE  CInv'
<1>1. /\ UNCHANGED <<products, added, ordered, answers>> /\ job[w].pc = "idle"
      /\ ShopStep(w)
  BY DEF Request, Working, ShopStep
<1>2. /\ job'[w].req = ThisRequest
      /\ job'[w].pc = "answer" => job'[w].handler \notin NeedsToken
  BY DEF Fresh
<1>3. ~Deleting(w)' /\ (job'[w].pc = "answer" => Backed(job[w])')
  BY <1>2 DEF Deleting, Deletes, Backed, NeedsToken
<1> QED
  BY <1>1, <1>2, <1>3, JobKeepsCInv

LEMMA CheckKeepsCInv ==
  ASSUME AInv, Filled, CInv, NEW w \in Workers, CheckToken(w),
         GoesOn(w, CheckedPc(w), CheckedStatus(w))
  PROVE  CInv'
<1>1. /\ UNCHANGED <<products, added, ordered, answers>> /\ job[w].pc = "auth"
      /\ ShopStep(w)
  BY DEF CheckToken, ShopStep
<1>2. /\ job'[w].req = job[w].req /\ \A v \in Workers : v # w => job'[v] = job[v]
      /\ job'[w].status \in {"none", "400", "401", "403"}
  BY DEF GoesOn, CheckedStatus, Passes, Verdict, Authorise
<1>3. ~Deleting(w)' /\ Backed(job[w])'
  BY <1>2 DEF Deleting, Deletes, Backed
<1> QED
  BY <1>1, <1>2, <1>3, JobKeepsCInv

\* A statement has run: the rows it leaves are in order, and what is about to be
\* replied agrees with them.
LEMMA StatementKeepsCInv ==
  ASSUME CInv, NEW w \in Workers, NEW status, GoesOn(w, "answer", status),
         job[w].pc = "statement", RowsStay, Rows', answers' = answers,
         \A i \in DOMAIN added' : i \in DOMAIN added \/ added'[i] = job[w].req,
         Backed(job[w])', Deleting(w)' => job[w].id \in products
  PROVE  CInv'
<1>1. /\ job'[w].req = job[w].req /\ job'[w].id = job[w].id /\ job'[w].pc = "answer"
      /\ \A v \in Workers : v # w => job'[v] = job[v]
  BY DEF GoesOn
<1>2. JobNumbers'
  BY <1>1 DEF CInv, JobNumbers, RowsStay
<1>3. \A a \in answers : Backed(a)'
  BY BackedStays DEF CInv
<1>4. \A v \in Workers : (job[v].pc = "answer" => Backed(job[v]))'
  BY <1>1 DEF CInv, Backed, RowsStay
<1>5. \A a \in answers : Deletes(a) => a.id \notin products
  BY DEF CInv, Backed, Deletes
<1>6. \A v \in Workers : Deleting(v) => job[v].id \notin products
  BY DEF CInv, Backed, Deletes, Deleting
<1>7. \A v \in Workers : v # w => (Deleting(v)' <=> Deleting(v))
  BY <1>1 DEF Deleting, Deletes
<1>8. \A a \in answers, v \in Workers : Deletes(a) /\ Deleting(v)' => a.id # job'[v].id
  BY <1>1, <1>5, <1>7 DEF CInv
<1>9. \A u, v \in Workers : Deleting(u)' /\ Deleting(v)' /\ u # v => job'[u].id # job'[v].id
  BY <1>1, <1>6, <1>7 DEF CInv
<1>10. \A a, b \in answers' : Deletes(a) /\ Deletes(b) /\ a.id = b.id => a = b
  BY DEF CInv
<1> QED
  BY <1>2, <1>3, <1>4, <1>8, <1>9, <1>10 DEF CInv, Deletes

LEMMA StatusIs ==
  ASSUME Filled, NEW w \in Workers, NEW status, Status(w, status)
  PROVE  GoesOn(w, "answer", status)
  BY JobGoesOn DEF Status

LEMMA InsertKeepsCInv ==
  ASSUME AInv, Filled, CInv, NEW w \in Workers, InsertProduct(w)
  PROVE  CInv'
<1>1. /\ job[w].pc = "statement" /\ job[w].handler = "add_product" /\ answers' = answers
      /\ ordered' = ordered /\ Status(w, "201") /\ ShopStep(w)
  BY DEF InsertProduct, ShopStep
<1>2. GoesOn(w, "answer", "201")
  BY <1>1, StatusIs
<1>3. /\ job'[w].handler = "add_product" /\ job'[w].status = "201"
      /\ job'[w].req = job[w].req /\ ~Deleting(w)'
  BY <1>1, <1>2 DEF GoesOn, Deleting, Deletes
<1>4. CASE products' = products \cup {Len(added) + 1} /\ added' = Append(added, job[w].req)
  <2>1. /\ added \in Seq(Nat) /\ job[w].req \in 0..spent.requests
        /\ spent.requests \in Nat
    BY <1>1, ShopCounts DEF CInv, Rows, JobNumbers
  <2>2. /\ added' \in Seq(Nat) /\ DOMAIN added' = DOMAIN added \cup {Len(added) + 1}
        /\ added'[Len(added) + 1] = job[w].req /\ Len(added) + 1 \notin DOMAIN added
        /\ \A i \in DOMAIN added : added'[i] = added[i]
    BY <1>4, <2>1
  <2>3. RowsStay
    BY <1>1, <1>4, <2>2, ShopCounts DEF RowsStay
  <2>4. Rows'
    <3>1. \A i \in DOMAIN added : added[i] # job[w].req
      BY <1>1 DEF CInv, JobNumbers
    <3>2. \A i \in DOMAIN added' : added'[i] \in 0..spent'.requests
      BY <2>1, <2>2, <2>3 DEF RowsStay, CInv, Rows
    <3>3. \A i, j \in DOMAIN added' : added'[i] = added'[j] => i = j
      BY <2>2, <3>1 DEF CInv, Rows
    <3> QED
      BY <1>1, <1>4, <2>2, <3>2, <3>3 DEF CInv, Rows
  <2>5. Backed(job[w])'
    BY <1>3, <2>2 DEF Backed
  <2> QED
    BY <1>1, <1>2, <1>3, <2>2, <2>3, <2>4, <2>5, StatementKeepsCInv
<1>5. CASE Fault /\ UNCHANGED <<products, added>>
  <2>1. RowsStay /\ spent'.faults > 0
    BY <1>1, <1>5, ShopCounts DEF RowsStay
  <2>2. Rows' /\ Backed(job[w])'
    BY <1>1, <1>3, <1>5, <2>1 DEF CInv, Rows, RowsStay, Backed
  <2> QED
    BY <1>1, <1>2, <1>3, <1>5, <2>1, <2>2, StatementKeepsCInv
<1> QED
  BY <1>4, <1>5 DEF InsertProduct

LEMMA RemoveKeepsCInv ==
  ASSUME AInv, Filled, CInv, NEW w \in Workers, RemoveProduct(w)
  PROVE  CInv'
<1>1. /\ job[w].pc = "statement" /\ job[w].handler = "delete_product"
      /\ UNCHANGED <<added, ordered, answers>> /\ ShopStep(w)
  BY DEF RemoveProduct, ShopStep
<1>2. PICK status :
        /\ Status(w, status)
        /\ products' = products \/ (/\ job[w].id \notin ordered
                                    /\ products' = products \ {job[w].id})
        /\ status = "200" => job[w].id \in products /\ products' = products \ {job[w].id}
        /\ status = "500" => job[w].id \in ordered \/ Fault
        /\ status \in {"200", "400", "404", "500"}
  BY DEF RemoveProduct, RowsTell
<1>3. GoesOn(w, "answer", status)
  BY <1>2, StatusIs
<1>4. /\ job'[w].handler = "delete_product" /\ job'[w].status = status
      /\ job'[w].id = job[w].id
  BY <1>1, <1>3 DEF GoesOn
<1>5. RowsStay
  BY <1>1, <1>2, ShopCounts DEF RowsStay
<1>6. Rows'
  BY <1>1, <1>2, <1>5 DEF CInv, Rows, RowsStay
<1>7. Backed(job[w])'
  <2>1. Fault => spent'.faults # 0
    BY <1>1, <1>5, ShopCounts DEF RowsStay
  <2>2. products \subseteq DOMAIN added
    BY DEF CInv, Rows
  <2> QED
    BY <1>1, <1>2, <1>4, <2>1, <2>2 DEF Backed
<1>8. Deleting(w)' => job[w].id \in products
  BY <1>2, <1>4 DEF Deleting, Deletes
<1> QED
  BY <1>1, <1>3, <1>5, <1>6, <1>7, <1>8, StatementKeepsCInv

LEMMA UpdateKeepsCInv ==
  ASSUME AInv, Filled, CInv, NEW w \in Workers, UpdateOrRead(w)
  PROVE  CInv'
<1>1. /\ job[w].pc = "statement" /\ job[w].handler \in Tokenless
      /\ UNCHANGED <<products, added, ordered, answers>> /\ ShopStep(w)
  BY DEF UpdateOrRead, ShopStep
<1>2. PICK status : Status(w, status)
  BY DEF UpdateOrRead
<1>3. GoesOn(w, "answer", status)
  BY <1>2, StatusIs
<1>4. /\ job'[w].handler \notin NeedsToken /\ job'[w].req = job[w].req
      /\ \A v \in Workers : v # w => job'[v] = job[v]
      /\ job'[w].pc = "answer"
  BY <1>1, <1>3 DEF GoesOn, Tokenless, NeedsToken
<1>5. ~Deleting(w)' /\ Backed(job[w])'
  BY <1>4 DEF Deleting, Deletes, Backed, NeedsToken
<1> QED
  BY <1>1, <1>4, <1>5, JobKeepsCInv

LEMMA OrderLineKeepsCInv ==
  ASSUME AInv, CInv, NEW w \in Workers, OrderLine(w)
  PROVE  CInv'
<1>1. /\ UNCHANGED <<products, added, job, answers>> /\ ShopStep(w)
      /\ \E id \in products : ordered' = ordered \cup {id}
  BY DEF OrderLine, ShopStep
<1>2. RowsStay
  BY <1>1, ShopCounts DEF RowsStay
<1>3. Rows' /\ JobNumbers'
  BY <1>1, <1>2 DEF CInv, Rows, JobNumbers, RowsStay
<1>4. \A a \in answers : Backed(a)'
  BY <1>2, BackedStays DEF CInv
<1>5. \A v \in Workers : (job[v].pc = "answer" => Backed(job[v]))'
  BY <1>1, <1>2 DEF CInv, Backed, RowsStay
<1> QED
  BY <1>1, <1>3, <1>4, <1>5 DEF CInv, Deletes, Deleting

LEMMA DeliverKeepsCInv ==
  ASSUME AInv, CInv, NEW w \in Workers, Deliver(w), job'[w] = NoJob,
         \A v \in Workers : v # w => job'[v] = job[v]
  PROVE  CInv'
<1>1. /\ UNCHANGED <<products, added, ordered, spent>> /\ job[w].pc = "answer"
      /\ ShopStep(w)
  BY DEF Deliver, accountVars, ShopStep
<1>2. PICK a : /\ a.req = job[w].req /\ a.handler = job[w].handler /\ a.id = job[w].id
               /\ a.status = job[w].status
               /\ \A b \in answers' : b \in answers \/ b = a
  <2> DEFINE a == [req |-> job[w].req, handler |-> job[w].handler, id |-> job[w].id,
                   token |-> job[w].token, status |-> job[w].status, run |-> Run]
  <2>1. \A b \in answers' : b \in answers \/ b = a
    BY DEF Deliver
  <2>2. /\ a.req = job[w].req /\ a.handler = job[w].handler /\ a.id = job[w].id
        /\ a.status = job[w].status
    OBVIOUS
  <2> HIDE DEF a
  <2> QED
    BY <2>1, <2>2
<1>3. NoJob.pc = "idle" /\ NoJob.req = 0
  BY DEF NoJob
<1>4. RowsStay
  BY <1>1, ShopCounts DEF RowsStay
<1>5. Rows' /\ JobNumbers'
  BY <1>1, <1>3, <1>4 DEF CInv, Rows, JobNumbers, RowsStay
<1>6. \A b \in answers' : Backed(b)'
  <2>1. Backed(a)
    BY <1>1, <1>2 DEF CInv, Backed
  <2> QED
    BY <1>2, <1>4, <2>1, BackedStays DEF CInv
<1>7. \A v \in Workers : (job[v].pc = "answer" => Backed(job[v]))'
  BY <1>3, <1>4 DEF CInv, Backed, RowsStay
<1>8. Deletes(a) <=> Deleting(w)
  BY <1>1, <1>2 DEF Deletes, Deleting
<1>9. \A v \in Workers : Deleting(v)' => v # w /\ Deleting(v) /\ job'[v] = job[v]
  BY <1>3 DEF Deleting, Deletes
<1>10. \A b, c \in answers' : Deletes(b) /\ Deletes(c) /\ b.id = c.id => b = c
  BY <1>2, <1>8 DEF CInv
<1>11. \A b \in answers', v \in Workers : Deletes(b) /\ Deleting(v)' => b.id # job'[v].id
  BY <1>2, <1>8, <1>9 DEF CInv
<1>12. \A u, v \in Workers : Deleting(u)' /\ Deleting(v)' /\ u # v => job'[u].id # job'[v].id
  BY <1>9 DEF CInv
<1> QED
  BY <1>5, <1>6, <1>7, <1>10, <1>11, <1>12 DEF CInv, Deletes

LEMMA NextKeepsCInv == AInv /\ Filled /\ CInv /\ [Next]_vars => CInv'
<1> SUFFICES ASSUME AInv, Filled, CInv, [Next]_vars PROVE CInv'
  OBVIOUS
<1>1. ASSUME NEW w \in Workers, ShopStep(w) PROVE CInv'
  <2>1. CASE Request(w) /\ Fresh(job'[w]) /\ \A v \in Workers : v # w => job'[v] = job[v]
    BY <2>1, RequestKeepsCInv
  <2>2. CASE CheckToken(w) /\ GoesOn(w, CheckedPc(w), CheckedStatus(w))
    BY <2>2, CheckKeepsCInv
  <2>3. CASE InsertProduct(w) \/ RemoveProduct(w) \/ UpdateOrRead(w)
    BY <2>3, InsertKeepsCInv, RemoveKeepsCInv, UpdateKeepsCInv
  <2>4. CASE Deliver(w) /\ job'[w] = NoJob /\ \A v \in Workers : v # w => job'[v] = job[v]
    BY <2>4, DeliverKeepsCInv
  <2>5. CASE OrderLine(w)
    BY <2>5, OrderLineKeepsCInv
  <2> QED
    BY <1>1, <2>1, <2>2, <2>3, <2>4, <2>5, StepOfJobs
<1>2. ASSUME Grown, spent' \in [Counted -> Nat], UNCHANGED shopVars PROVE CInv'
  <2>1. /\ spent'.requests \in Nat /\ spent.requests \in Nat
        /\ spent'.faults \in Nat /\ spent.faults \in Nat
    BY <1>2, SpentIsTyped DEF AInv, Shaped
  <2>2. RowsStay
    BY <1>2, <2>1 DEF Grown, RowsStay, shopVars
  <2> QED
    BY <1>2, <2>2, QuietKeepsCInv DEF shopVars
<1>3. CASE Next /\ ~Crash /\ UNCHANGED shopVars
  <2>1. AInv'
    BY NextKeepsAInv
  <2> QED
    BY <1>2, <1>3, <2>1, StepGrows DEF AInv, Shaped
<1>4. CASE UNCHANGED vars
  <2>1. Grown /\ spent' = spent
    BY <1>4, SpentIsTyped DEF vars, accountVars, Grown, AInv, Shaped, Run, Tokens
  <2> QED
    BY <1>2, <1>4, <2>1 DEF vars, AInv, Shaped
<1>5. CASE Crash
  BY <1>5, CrashKeepsCInv
<1> QED
  BY <1>1, <1>3, <1>4, <1>5 DEF Next
-----------------------------------------------------------------------------
ShopInv == AInv /\ Jobs /\ GInv /\ CInv

LEMMA InitShopInv == Init => ShopInv
<1> SUFFICES ASSUME Init PROVE ShopInv
  OBVIOUS
<1>1. AInv
  BY InitAInv DEF Init
<1>2. /\ job = [w \in Workers |-> NoJob] /\ \A w \in Workers : job[w] = NoJob
      /\ NoJob.pc = "idle" /\ NoJob.req = 0
  BY DEF Init, NoJob
<1>3. Jobs
  BY <1>2, NoJobIs DEF Jobs, Filled, JobPcs
<1>4. answers = {} /\ ordered = {} /\ products = {1} /\ added = <<0>>
  BY DEF Init
<1>5. GInv
  BY <1>2, <1>4 DEF GInv, HeldBy
<1>6. CInv
  <2>1. spent.requests \in Nat
    BY <1>1, SpentIsTyped DEF AInv, Shaped
  <2>2. added \in Seq(Nat) /\ DOMAIN added = {1} /\ added[1] = 0
    BY <1>4
  <2>3. Rows /\ JobNumbers
    BY <1>2, <1>4, <2>1, <2>2 DEF Rows, JobNumbers
  <2> QED
    BY <1>2, <1>4, <2>3 DEF CInv, Deleting
<1> QED
  BY <1>1, <1>3, <1>5, <1>6 DEF ShopInv

THEOREM CatalogueIsKept == Spec => []ShopInv
<1>1. ShopInv /\ [Next]_vars => ShopInv'
  BY NextKeepsAInv, NextKeepsJobs, NextKeepsGInv, NextKeepsCInv DEF ShopInv, Jobs
<1> QED
  BY <1>1, InitShopInv, PTL DEF Spec

\* Every variable of Accounts and Catalogue keeps its type, and a worker runs
\* one handler at a time.
THEOREM CatalogueIsTyped == Spec => []ShopTypeOK
<1>1. ShopInv => ShopTypeOK
  <2> SUFFICES ASSUME ShopInv PROVE ShopTypeOK
    OBVIOUS
  <2>1. TypeOK
    BY AInvTypes DEF ShopInv
  <2>2. added \in Seq(0..spent.requests)
    <3>1. added \in Seq(Nat) /\ \A i \in DOMAIN added : added[i] \in 0..spent.requests
      BY DEF ShopInv, CInv, Rows
    <3>2. /\ Len(added) \in Nat /\ added = [i \in 1..Len(added) |-> added[i]]
          /\ \A i \in 1..Len(added) : added[i] \in 0..spent.requests
      BY <3>1
    <3>3. [i \in 1..Len(added) |-> added[i]] \in Seq(0..spent.requests)
      BY <3>2
    <3> QED
      BY <3>2, <3>3
  <2> QED
    BY <2>1, <2>2 DEF ShopInv, CInv, Rows, JobNumbers, Jobs, ShopTypeOK
<1> QED
  BY <1>1, CatalogueIsKept, PTL

\* Whoever got past require_auth had a token that this run of the process gave
\* out, and an account with the role the handler asks for, unless draws of the
\* run overlapped; whatever other logins stored between check and statement.
THEOREM HandlersAreGuarded == Spec => []GuardedByItsToken
<1>1. ShopInv => GuardedByItsToken
  BY DEF ShopInv, GInv, Kept, Guarded, GuardedByItsToken
<1> QED
  BY <1>1, CatalogueIsKept, PTL

\* A product is deleted for one client at most and is then gone for good, a 500
\* means that a line refers to it, and an addition adds one row, unless a
\* statement failed.
THEOREM CatalogueTellsTheTruth == Spec => []AnswersTellTheCatalogue
<1>1. ShopInv => AnswersTellTheCatalogue
  <2> SUFFICES ASSUME ShopInv, NEW a \in answers
               PROVE  /\ a.handler = "delete_product" /\ a.status = "200" =>
                           /\ a.id \in DOMAIN added \ products
                           /\ \A b \in answers : b.handler = "delete_product"
                                /\ b.id = a.id /\ b.status = "200" => b = a
                      /\ a.handler = "delete_product" /\ a.status = "500"
                           /\ spent.faults = 0 => a.id \in ordered
                      /\ a.handler = "add_product" /\ a.status = "201" =>
                           LET ids == {id \in DOMAIN added : added[id] = a.req}
                           IN  Cardinality(ids) = 1 \/ (spent.faults > 0 /\ ids = {})
    BY DEF AnswersTellTheCatalogue
  <2>1. Backed(a)
    BY DEF ShopInv, CInv
  <2>2. ASSUME a.handler = "add_product", a.status = "201"
        PROVE  LET ids == {id \in DOMAIN added : added[id] = a.req}
               IN  Cardinality(ids) = 1 \/ (spent.faults > 0 /\ ids = {})
    <3> DEFINE ids == {id \in DOMAIN added : added[id] = a.req}
    <3>1. CASE ids = {}
      BY <2>1, <2>2, <3>1 DEF Backed
    <3>2. CASE ids # {}
      <4>1. PICK i \in ids : TRUE
        BY <3>2
      <4>2. ids = {i}
        BY <4>1 DEF ShopInv, CInv, Rows
      <4>3. Cardinality({i}) = 1
        BY FS_Singleton
      <4> QED
        BY <4>2, <4>3
    <3> QED
      BY <3>1, <3>2
  <2> QED
    BY <2>1, <2>2 DEF ShopInv, CInv, Backed, Deletes
<1> QED
  BY <1>1, CatalogueIsKept, PTL
-----------------------------------------------------------------------------
(***************************************************************************)
(* The router, for every path.  Match is a loop over two sequences; what   *)
(* it returns is a condition on their lengths and on each pair of them.    *)
(***************************************************************************)
\* A segment of a route and the text in its place.
Meets(segment, text) == IF IsParam(segment) THEN segment[2] # "" ELSE segment = Text(text)

\* The equation that match's loop solves, and its solution.
MatchLoops(segments, read, f) ==
  f = [i \in 1..(Len(segments) + 1) |->
        IF i > Len(segments) /\ i > Len(read) THEN TRUE
        ELSE IF i > Len(segments) \/ i > Len(read) THEN FALSE
        ELSE IF IsParam(segments[i]) THEN segments[i][2] # "" /\ f[i + 1]
        ELSE segments[i] = Text(read[i]) /\ f[i + 1]]
MeetsFrom(segments, read, i) ==
  IF i > Len(segments) /\ i > Len(read) THEN TRUE
  ELSE Len(segments) = Len(read) /\ \A k \in i..Len(segments) : Meets(segments[k], read[k])

\* What holds from one place on, said of that place and the next.
LEMMA MeetsFromNext ==
  ASSUME NEW segments, NEW read, Len(segments) \in Nat, Len(read) \in Nat,
         NEW i \in 1..(Len(segments) + 1)
  PROVE  /\ i > Len(segments) /\ i > Len(read) => MeetsFrom(segments, read, i)
         /\ (i > Len(segments) \/ i > Len(read)) /\ ~(i > Len(segments) /\ i > Len(read)) =>
              ~MeetsFrom(segments, read, i)
         /\ ~(i > Len(segments) \/ i > Len(read)) =>
              /\ i + 1 \in 1..(Len(segments) + 1)
              /\ MeetsFrom(segments, read, i) <=>
                   (Meets(segments[i], read[i]) /\ MeetsFrom(segments, read, i + 1))
<1>1. i > Len(segments) /\ i > Len(read) => MeetsFrom(segments, read, i)
  BY DEF MeetsFrom
<1>2. (i > Len(segments) \/ i > Len(read)) /\ ~(i > Len(segments) /\ i > Len(read)) =>
        ~MeetsFrom(segments, read, i)
  BY DEF MeetsFrom
<1>3. ASSUME ~(i > Len(segments) \/ i > Len(read))
      PROVE  /\ i + 1 \in 1..(Len(segments) + 1)
             /\ MeetsFrom(segments, read, i) <=>
                  (Meets(segments[i], read[i]) /\ MeetsFrom(segments, read, i + 1))
  <2>1. i + 1 \in 1..(Len(segments) + 1) /\ i..Len(segments) = {i} \cup ((i + 1)..Len(segments))
    BY <1>3
  <2>2. MeetsFrom(segments, read, i) <=>
          /\ Len(segments) = Len(read)
          /\ Meets(segments[i], read[i])
          /\ \A k \in (i + 1)..Len(segments) : Meets(segments[k], read[k])
    BY <1>3, <2>1 DEF MeetsFrom
  <2>3. CASE i + 1 > Len(segments) /\ i + 1 > Len(read)
    <3>1. Len(segments) = Len(read) /\ (i + 1)..Len(segments) = {}
      BY <1>3, <2>3
    <3> QED
      BY <2>1, <2>2, <2>3, <3>1 DEF MeetsFrom
  <2>4. CASE ~(i + 1 > Len(segments) /\ i + 1 > Len(read))
    BY <2>1, <2>2, <2>4 DEF MeetsFrom
  <2> QED
    BY <2>3, <2>4
<1> QED
  BY <1>1, <1>2, <1>3

\* There is a function that solves the equation.
LEMMA LoopHasSolution ==
  ASSUME NEW segments, NEW read, Len(segments) \in Nat, Len(read) \in Nat
  PROVE  \E f : MatchLoops(segments, read, f)
<1> DEFINE D == 1..(Len(segments) + 1)
           f == [i \in D |-> MeetsFrom(segments, read, i)]
<1>1. ASSUME NEW i \in D
      PROVE  f[i] = (IF i > Len(segments) /\ i > Len(read) THEN TRUE
        ELSE IF i > Len(segments) \/ i > Len(read) THEN FALSE
        ELSE IF IsParam(segments[i]) THEN segments[i][2] # "" /\ f[i + 1]
        ELSE segments[i] = Text(read[i]) /\ f[i + 1])
  <2>1. f[i] = MeetsFrom(segments, read, i)
    OBVIOUS
  <2>2. MeetsFrom(segments, read, i) \in BOOLEAN
    BY DEF MeetsFrom
  <2>3. CASE i > Len(segments) /\ i > Len(read)
    BY <2>1, <2>2, <2>3, MeetsFromNext
  <2>4. CASE (i > Len(segments) \/ i > Len(read)) /\ ~(i > Len(segments) /\ i > Len(read))
    BY <2>1, <2>2, <2>4, MeetsFromNext
  <2>5. CASE ~(i > Len(segments) \/ i > Len(read))
    <3>1. f[i + 1] = MeetsFrom(segments, read, i + 1)
      BY <2>5, MeetsFromNext
    <3>2. MeetsFrom(segments, read, i) <=>
            (Meets(segments[i], read[i]) /\ MeetsFrom(segments, read, i + 1))
      BY <2>5, MeetsFromNext
    <3>3. MeetsFrom(segments, read, i + 1) \in BOOLEAN
      BY DEF MeetsFrom
    <3> HIDE DEF f
    <3> QED
      BY <2>1, <2>2, <2>5, <3>1, <3>2, <3>3 DEF Meets
  <2> QED
    BY <2>3, <2>4, <2>5
<1>2. f = [i \in D |-> IF i > Len(segments) /\ i > Len(read) THEN TRUE
        ELSE IF i > Len(segments) \/ i > Len(read) THEN FALSE
        ELSE IF IsParam(segments[i]) THEN segments[i][2] # "" /\ f[i + 1]
        ELSE segments[i] = Text(read[i]) /\ f[i + 1]]
  BY <1>1
<1> HIDE DEF f
<1> QED
  BY <1>2 DEF MatchLoops

\* Every solution says the same of the first place: the last place where it
\* did not would contradict the equation.
LEMMA LoopMeets ==
  ASSUME NEW segments, NEW read, Len(segments) \in Nat, Len(read) \in Nat,
         NEW f, MatchLoops(segments, read, f)
  PROVE  f[1] <=> MeetsFrom(segments, read, 1)
<1> DEFINE n == Len(segments) + 1
           B == {k \in 0..(n - 1) : ~(f[n - k] <=> MeetsFrom(segments, read, n - k))}
<1> SUFFICES ASSUME B # {} PROVE FALSE
  <2>1. n - 1 \in 0..(n - 1) /\ n - (n - 1) = 1
    OBVIOUS
  <2> QED
    BY <2>1
<1>1. PICK k \in B : \A l \in B : k <= l
  <2>1. B \subseteq Nat
    OBVIOUS
  <2> HIDE DEF B
  <2> QED
    BY <2>1, LeastNatural
<1>2. k \in 0..(n - 1) /\ ~(f[n - k] <=> MeetsFrom(segments, read, n - k))
  BY <1>1
<1>3. n - k \in 1..n
  BY <1>2
<1>4. f[n - k] = (IF n - k > Len(segments) /\ n - k > Len(read) THEN TRUE
        ELSE IF n - k > Len(segments) \/ n - k > Len(read) THEN FALSE
        ELSE IF IsParam(segments[n - k]) THEN segments[n - k][2] # "" /\ f[n - k + 1]
        ELSE segments[n - k] = Text(read[n - k]) /\ f[n - k + 1])
  BY <1>3 DEF MatchLoops
<1>5. ~(n - k > Len(segments) \/ n - k > Len(read))
  BY <1>2, <1>3, <1>4, MeetsFromNext
<1>6. k - 1 \in 0..(n - 1) /\ n - (k - 1) = n - k + 1 /\ k - 1 \notin B
  <2>1. k > 0
    BY <1>2, <1>5
  <2>2. k - 1 \in 0..(n - 1) /\ n - (k - 1) = n - k + 1 /\ ~(k <= k - 1)
    BY <1>2, <2>1
  <2> HIDE DEF B
  <2> QED
    BY <1>1, <2>2
<1>7. f[n - k + 1] <=> MeetsFrom(segments, read, n - k + 1)
  BY <1>6
<1>8. MeetsFrom(segments, read, n - k) <=>
        (Meets(segments[n - k], read[n - k]) /\ MeetsFrom(segments, read, n - k + 1))
  BY <1>3, <1>5, MeetsFromNext
<1>9. f[n - k] <=> (Meets(segments[n - k], read[n - k]) /\ f[n - k + 1])
  BY <1>4, <1>5 DEF Meets
<1> QED
  BY <1>2, <1>7, <1>8, <1>9

\* match: a route matches a path that is as long as the route and has the
\* route's texts in their places.
LEMMA MatchMeans ==
  ASSUME NEW segments, NEW path, Len(segments) \in Nat, Len(Read(path)) \in Nat
  PROVE  Match(segments, path) <=>
           /\ Len(segments) = Len(Read(path))
           /\ \A i \in 1..Len(segments) : Meets(segments[i], Read(path)[i])
<1> DEFINE read == Read(path)
           f == CHOOSE f : MatchLoops(segments, read, f)
<1>1. MatchLoops(segments, read, f)
  BY LoopHasSolution
<1>2. Match(segments, path) = f[1]
  BY DEF Match, MatchLoops
<1>3. f[1] <=> MeetsFrom(segments, read, 1)
  <2> HIDE DEF f, read
  <2> QED
    BY <1>1, LoopMeets DEF read
<1>4. MeetsFrom(segments, read, 1) <=>
           /\ Len(segments) = Len(Read(path))
           /\ \A i \in 1..Len(segments) : Meets(segments[i], Read(path)[i])
  BY DEF MeetsFrom
<1> QED
  BY <1>2, <1>3, <1>4

-----------------------------------------------------------------------------
\* The table, read off.
RouteIs(i, method, segments) ==
  Routes[i].method = method /\ Routes[i].segments = segments

\* The twelve routes, one by one.
LEMMA RoutesRead ==
  /\ DOMAIN Routes = 1..12
  /\ RouteIs(1, "POST", <<Top, Text("checkout")>>)
  /\ RouteIs(2, "GET", <<Top, Text("orders"), Param("id")>>)
  /\ RouteIs(3, "POST", <<Top, Text("payment"), Text("callback")>>)
  /\ RouteIs(4, "POST", <<Top, Text("login")>>)
  /\ RouteIs(5, "POST", <<Top, Text("register")>>)
  /\ RouteIs(6, "GET", <<Top, Text("products")>>)
  /\ RouteIs(7, "GET", <<Top, Text("products"), Param("id")>>)
  /\ RouteIs(8, "POST", <<Top, Text("products")>>)
  /\ RouteIs(9, "DELETE", <<Top, Text("products"), Param("id")>>)
  /\ RouteIs(10, "PUT", <<Top, Text("products"), Param("id")>>)
  /\ RouteIs(11, "GET", <<Top>>)
  /\ RouteIs(12, "POST", <<Top, Text("order")>>)
BY DEF Routes, RouteIs, At

\* No handler has the name that stands for none.
LEMMA HandlersRead == \A i \in 1..12 : Routes[i].handler # "not_found"
<1> TAKE i \in 1..12
<1>1. CASE i \in 1..4
  BY <1>1 DEF Routes, At
<1>2. CASE i \in 5..8
  BY <1>2 DEF Routes, At
<1>3. CASE i \in 9..12
  BY <1>3 DEF Routes, At
<1> QED
  BY <1>1, <1>2, <1>3

\* A segment is what it was made as.
LEMMA SegmentsRead ==
  \A t : ~IsParam(Text(t)) /\ Text(t)[2] = t /\ IsParam(Param(t)) /\ Param(t)[2] = t
BY DEF IsParam, Text, Param

\* A route has one to three segments; a third may be an id, the others are texts.
ShapedAs(s) ==
  /\ Len(s) \in 1..3 /\ DOMAIN s = 1..Len(s)
  /\ \A k \in 1..Len(s) : (\E t : s[k] = Text(t)) \/ (k = 3 /\ s[k] = Param("id"))

\* Every route of the table is one of these.
LEMMA RouteShape == \A i \in 1..12 : ShapedAs(Routes[i].segments)
<1> TAKE i \in 1..12
<1>0. \E t : Top = Text(t)
  BY Zenon DEF Top
<1>1. ShapedAs(<<Top>>)
  BY <1>0 DEF ShapedAs
<1>2. ASSUME NEW t PROVE ShapedAs(<<Top, Text(t)>>)
  BY <1>0 DEF ShapedAs
<1>3. ASSUME NEW t, NEW last, last = Param("id") \/ \E u : last = Text(u)
      PROVE  ShapedAs(<<Top, Text(t), last>>)
  BY <1>0, <1>3 DEF ShapedAs
<1>4. CASE i \in {1, 4, 5, 6, 8, 11, 12}
  BY <1>1, <1>2, <1>4, RoutesRead DEF RouteIs
<1>5. CASE i \in {2, 3, 7, 9, 10}
  BY <1>3, <1>5, RoutesRead DEF RouteIs
<1> QED
  BY <1>4, <1>5

\* No two routes have the method, the length and the second text in common:
\* from those three one can tell which route it is.
Second(i) == IF Len(Routes[i].segments) = 1 THEN Top ELSE Routes[i].segments[2][2]
Recognised(method, length, text) ==
  CASE method = "GET" /\ length = 1 -> 11
    [] method = "GET" /\ length = 2 -> 6
    [] method = "GET" /\ length = 3 -> IF text = "orders" THEN 2 ELSE 7
    [] method = "DELETE" -> 9
    [] method = "PUT" -> 10
    [] method = "POST" /\ length = 3 -> 3
    [] method = "POST" /\ length = 2 ->
         CASE text = "checkout" -> 1 [] text = "login" -> 4 [] text = "register" -> 5
           [] text = "products" -> 8 [] text = "order" -> 12

\* They tell every route of the table.
LEMMA RoutesDiffer ==
  \A i \in 1..12 :
    i = Recognised(Routes[i].method, Len(Routes[i].segments), Second(i))
<1> DEFINE Is(i, method, length, text) ==
      Routes[i].method = method /\ Len(Routes[i].segments) = length /\ Second(i) = text
<1>1. ASSUME NEW i, NEW method, NEW t, RouteIs(i, method, <<Top, Text(t)>>)
      PROVE  Is(i, method, 2, t)
  BY <1>1, SegmentsRead DEF RouteIs, Second
<1>2. ASSUME NEW i, NEW method, NEW t, NEW u, RouteIs(i, method, <<Top, Text(t), u>>)
      PROVE  Is(i, method, 3, t)
  BY <1>2, SegmentsRead DEF RouteIs, Second
<1>3. Is(11, "GET", 1, Top)
  BY RoutesRead DEF RouteIs, Second
<1> HIDE DEF Is
<1>4. /\ Is(1, "POST", 2, "checkout") /\ Is(2, "GET", 3, "orders") /\ Is(3, "POST", 3, "payment")
      /\ Is(4, "POST", 2, "login") /\ Is(5, "POST", 2, "register") /\ Is(6, "GET", 2, "products")
  BY <1>1, <1>2, RoutesRead
<1>5. /\ Is(7, "GET", 3, "products") /\ Is(8, "POST", 2, "products")
      /\ Is(9, "DELETE", 3, "products") /\ Is(10, "PUT", 3, "products")
      /\ Is(12, "POST", 2, "order")
  BY <1>1, <1>2, RoutesRead
<1> TAKE i \in 1..12
<1>6. CASE i \in 1..4
  BY <1>4, <1>6 DEF Is, Recognised
<1>7. CASE i \in 5..6
  BY <1>4, <1>7 DEF Is, Recognised
<1>8. CASE i \in 7..8
  BY <1>5, <1>8 DEF Is, Recognised
<1>9. CASE i \in 9..10
  BY <1>5, <1>9 DEF Is, Recognised
<1>10. CASE i \in 11..12
  BY <1>3, <1>5, <1>10 DEF Is, Recognised
<1> QED
  BY <1>6, <1>7, <1>8, <1>9, <1>10

\* A route reads like a path.
ReadsLike(i, method, read) ==
  /\ Routes[i].method = method
  /\ Len(Routes[i].segments) = Len(read)
  /\ \A k \in DOMAIN Routes[i].segments :
       IsParam(Routes[i].segments[k]) \/ Routes[i].segments[k][2] = read[k]

\* The hits of a request are the routes that read like its path.
LEMMA HitsRead ==
  ASSUME NEW method, NEW path, Len(Read(path)) \in Nat
  PROVE  Hits(method, path) = {i \in 1..12 : ReadsLike(i, method, Read(path))}
<1>1. ASSUME NEW i \in 1..12, NEW s, s = Routes[i].segments
      PROVE  Match(s, path) <=>
               /\ Len(s) = Len(Read(path))
               /\ \A k \in DOMAIN s : IsParam(s[k]) \/ s[k][2] = Read(path)[k]
  <2>4. ShapedAs(s)
    BY <1>1, RouteShape
  <2>1. Len(s) \in Nat /\ DOMAIN s = 1..Len(s)
    BY <2>4 DEF ShapedAs
  <2>2. ASSUME NEW k \in 1..Len(s)
        PROVE  Meets(s[k], Read(path)[k]) <=> (IsParam(s[k]) \/ s[k][2] = Read(path)[k])
    <3>1. ASSUME NEW t, s[k] = Text(t) PROVE Meets(s[k], Read(path)[k]) <=> t = Read(path)[k]
      <4>1. Text(t) = Text(Read(path)[k]) <=> t = Read(path)[k]
        BY DEF Text
      <4> QED
        BY <3>1, <4>1, SegmentsRead DEF Meets
    <3>2. CASE s[k] = Param("id")
      BY <3>2, SegmentsRead DEF Meets
    <3>3. ASSUME NEW t, s[k] = Text(t) PROVE ~IsParam(s[k]) /\ s[k][2] = t
      BY <3>3, SegmentsRead
    <3>4. CASE \E t : s[k] = Text(t)
      BY <3>1, <3>3, <3>4
    <3>5. IsParam(Param("id"))
      BY SegmentsRead
    <3> QED
      BY <2>4, <3>2, <3>4, <3>5 DEF ShapedAs
  <2>3. Match(s, path) <=> (Len(s) = Len(Read(path))
                            /\ \A k \in 1..Len(s) : Meets(s[k], Read(path)[k]))
    BY <2>1, MatchMeans
  <2> QED
    BY <2>1, <2>2, <2>3
<1>2. \A i \in 1..12 :
        Routes[i].method = method /\ Match(Routes[i].segments, path) <=>
          ReadsLike(i, method, Read(path))
  <2> TAKE i \in 1..12
  <2> DEFINE s == Routes[i].segments
  <2>1. s = Routes[i].segments
    OBVIOUS
  <2>2. Match(s, path) <=>
          /\ Len(s) = Len(Read(path))
          /\ \A k \in DOMAIN s : IsParam(s[k]) \/ s[k][2] = Read(path)[k]
    <3> HIDE DEF s
    <3> QED
      BY <1>1, <2>1
  <2> QED
    BY <2>2 DEF ReadsLike
<1> QED
  BY <1>2, RoutesRead DEF Hits

\* No two routes compete for a request.
LEMMA OneRouteReads ==
  ASSUME NEW method, NEW read, NEW i \in 1..12, NEW j \in 1..12,
         ReadsLike(i, method, read), ReadsLike(j, method, read)
  PROVE  i = j
<1>1. Routes[i].method = Routes[j].method /\ Len(Routes[i].segments) = Len(Routes[j].segments)
  BY DEF ReadsLike
<1>2. ASSUME Len(Routes[i].segments) # 1 PROVE Second(i) = Second(j)
  <2>1. \A k \in {i, j} : ShapedAs(Routes[k].segments) /\ Len(Routes[k].segments) # 1
    BY <1>1, <1>2, RouteShape
  <2>2. \A k \in {i, j} : 2 \in DOMAIN Routes[k].segments /\ ~IsParam(Routes[k].segments[2])
    BY <2>1, SegmentsRead DEF ShapedAs
  <2>3. \A k \in {i, j} : Routes[k].segments[2][2] = read[2]
    BY <2>2 DEF ReadsLike
  <2> QED
    BY <2>1, <2>3 DEF Second
<1>3. Second(i) = Second(j)
  BY <1>1, <1>2 DEF Second
<1> QED
  BY <1>1, <1>3, RoutesDiffer

-----------------------------------------------------------------------------
\* std::getline leaves out an empty text at the end, and nothing else.
LEMMA LastIsDropped ==
  ASSUME NEW T, NEW path \in Seq(T), path # <<>>, NEW empty, NEW read,
         read = IF path # <<>> /\ path[Len(path)] = empty THEN SubSeq(path, 1, Len(path) - 1)
                                                          ELSE path
  PROVE  /\ Len(read) \in Nat /\ Len(path) \in Nat
         /\ \A k \in 1..Len(read) : read[k] = path[k]
         /\ path[Len(path)] # empty => read = path
<1>1. Len(path) \in Nat /\ Len(path) > 0
  OBVIOUS
<1>2. CASE path[Len(path)] = empty
  <2>1. read = SubSeq(path, 1, Len(path) - 1)
    BY <1>2
  <2>2. PICK n \in Nat : n = Len(path) - 1
    BY <1>1
  <2>3. read = SubSeq(path, 1, n)
    BY <2>1, <2>2
  <2>4. Len(read) = n /\ \A k \in 1..n : read[k] = path[k]
    BY <1>1, <2>2, <2>3
  <2> QED
    BY <1>1, <1>2, <2>2, <2>4
<1>3. CASE path[Len(path)] # empty
  <2>1. read = path
    BY <1>3
  <2> QED
    BY <1>1, <2>1
<1> QED
  BY <1>2, <1>3

\* A slash at the end adds the empty text, which is then left out.
LEMMA EmptyAppended ==
  ASSUME NEW T, NEW path \in Seq(T), NEW empty, NEW longer, longer = Append(path, empty)
  PROVE  /\ longer # <<>> /\ longer[Len(longer)] = empty
         /\ SubSeq(longer, 1, Len(longer) - 1) = path
<1>1. path \in Seq(T \cup {empty})
  OBVIOUS
<1>2. /\ Len(path) \in Nat /\ Len(longer) = Len(path) + 1 /\ longer \in Seq(T \cup {empty})
      /\ longer[Len(path) + 1] = empty /\ \A k \in 1..Len(path) : longer[k] = path[k]
  BY <1>1
<1> DEFINE s == SubSeq(longer, 1, Len(longer) - 1)
<1>3. s \in Seq(T \cup {empty}) /\ Len(s) = Len(path) /\ \A k \in 1..Len(path) : s[k] = longer[k]
  <2>1. Len(longer) - 1 = Len(path) /\ Len(path) <= Len(longer)
    BY <1>2
  <2> QED
    BY <1>2, <2>1
<1> HIDE DEF s
<1>4. s = path
  BY <1>1, <1>2, <1>3
<1>5. longer # <<>> /\ longer[Len(longer)] = empty
  BY <1>2
<1> QED
  BY <1>4, <1>5 DEF s

\* What is read of a path.
LEMMA ReadIs ==
  ASSUME NEW T, NEW path \in Seq(T), path # <<>>
  PROVE  /\ Len(Read(path)) \in Nat /\ Len(path) \in Nat
         /\ \A k \in 1..Len(Read(path)) : Read(path)[k] = path[k]
         /\ path[Len(path)] # "" => Read(path) = path /\ Read(Append(path, "")) = path
<1>1. Read(path) = IF path # <<>> /\ path[Len(path)] = "" THEN SubSeq(path, 1, Len(path) - 1)
                                                          ELSE path
  BY Zenon DEF Read
<1>2. /\ Len(Read(path)) \in Nat /\ Len(path) \in Nat
      /\ \A k \in 1..Len(Read(path)) : Read(path)[k] = path[k]
      /\ path[Len(path)] # "" => Read(path) = path
  BY <1>1, LastIsDropped, Zenon
<1>3. LET longer == Append(path, "")
      IN  /\ longer # <<>> /\ longer[Len(longer)] = ""
          /\ SubSeq(longer, 1, Len(longer) - 1) = path
  BY EmptyAppended, Zenon
<1>4. Read(Append(path, "")) = path
  BY <1>3, Zenon DEF Read
<1> QED
  BY <1>2, <1>4, Zenon

\* The parameter of a route is the path's text in its place.
LEMMA ParamsRead ==
  ASSUME NEW s, ShapedAs(s), NEW path, NEW j \in DOMAIN s, IsParam(s[j])
  PROVE  Params(s, path)[s[j][2]] = Read(path)[j]
<1>1. j \in 1..3 /\ j \in 1..Len(s) /\ DOMAIN s = 1..Len(s)
  BY DEF ShapedAs
<1>2. j = 3 /\ s[j] = Param("id") /\ s[j][2] = "id"
  BY <1>1, SegmentsRead DEF ShapedAs
<1>3. {i \in DOMAIN s : s[i] = Param("id")} = {3}
  <2>1. \A i \in DOMAIN s : s[i] = Param("id") => i = 3
    <3>1. \A t : Text(t) # Param("id")
      BY SegmentsRead
    <3> QED
      BY <1>1, <3>1 DEF ShapedAs
  <2> QED
    BY <1>2, <2>1
<1>4. Max({3}) = 3
  BY DEF Max
<1>5. "id" \in {s[i][2] : i \in {k \in DOMAIN s : IsParam(s[k])}}
  BY <1>2
<1>6. Params(s, path)["id"] = Read(path)[Max({i \in DOMAIN s : s[i] = Param("id")})]
  BY <1>5 DEF Params
<1> QED
  BY <1>2, <1>3, <1>4, <1>6

\* route, match, for a path of any length: a request finds the one route that
\* reads like its path, with the path's own text as its id, or none if there
\* is none; and a slash at the end makes no difference.
THEOREM RouteFound ==
  ASSUME NEW T, NEW path \in Seq(T), path # <<>>, NEW method
  PROVE  LET found == Route(method, path)
         IN  /\ Cardinality(Hits(method, path)) <= 1
             /\ found.handler = "not_found" <=>
                  ~\E i \in DOMAIN Routes : ReadsLike(i, method, Read(path))
             /\ \A i \in DOMAIN Routes : ReadsLike(i, method, Read(path)) =>
                  /\ found.handler = Routes[i].handler
                  /\ \A j \in DOMAIN Routes[i].segments : IsParam(Routes[i].segments[j]) =>
                       found.params[Routes[i].segments[j][2]] = path[j]
             /\ path[Len(path)] # "" => Route(method, Append(path, "")) = found
<1> DEFINE read == Read(path)
           found == Route(method, path)
           hits == Hits(method, path)
<1>1. /\ Len(read) \in Nat /\ Len(path) \in Nat
      /\ \A k \in 1..Len(read) : read[k] = path[k]
      /\ path[Len(path)] # "" => read = path /\ Read(Append(path, "")) = path
  BY ReadIs, Zenon
<1>2. hits = {i \in 1..12 : ReadsLike(i, method, read)} /\ DOMAIN Routes = 1..12
  BY <1>1, HitsRead, RoutesRead
<1>3. \A i, j \in hits : i = j
  BY <1>2, OneRouteReads
<1>4. Cardinality(hits) <= 1
  <2> HIDE DEF hits
  <2>1. CASE hits = {}
    BY <2>1, FS_EmptySet
  <2>2. ASSUME NEW i \in hits PROVE Cardinality(hits) <= 1
    <3>1. hits = {i}
      BY <1>3
    <3>2. Cardinality({i}) = 1
      BY FS_Singleton
    <3> QED
      BY <3>1, <3>2
  <2> QED
    BY <2>1, <2>2
<1>5. ASSUME NEW i \in hits PROVE Min(hits) = i
  <2>1. hits = {i} /\ i \in Int
    BY <1>2, <1>3, <1>5
  <2> HIDE DEF hits
  <2> QED
    BY <2>1 DEF Min
<1>6. hits = {} => found = [handler |-> "not_found", params |-> <<>>]
  BY DEF Route
<1>7. ASSUME NEW i \in hits
      PROVE  found = [handler |-> Routes[i].handler, params |-> Params(Routes[i].segments, path)]
  BY <1>5, <1>7 DEF Route
<1>8. found.handler = "not_found" <=> ~\E i \in DOMAIN Routes : ReadsLike(i, method, read)
  <2> HIDE DEF hits, found, read
  <2>1. CASE hits = {}
    BY <1>2, <1>6, <2>1
  <2>2. ASSUME NEW i \in hits PROVE found.handler # "not_found" /\ ReadsLike(i, method, read)
    <3>1. i \in 1..12 /\ ReadsLike(i, method, read)
      BY <1>2
    <3>2. found.handler = Routes[i].handler
      BY <1>7
    <3>3. Routes[i].handler # "not_found"
      BY <3>1, HandlersRead, Zenon
    <3> QED
      BY <3>1, <3>2, <3>3, Zenon
  <2> QED
    BY <1>2, <2>1, <2>2
<1>9. ASSUME NEW i \in DOMAIN Routes, ReadsLike(i, method, read)
      PROVE  /\ found.handler = Routes[i].handler
             /\ \A j \in DOMAIN Routes[i].segments : IsParam(Routes[i].segments[j]) =>
                  found.params[Routes[i].segments[j][2]] = path[j]
  <2>1. i \in hits /\ i \in 1..12
    BY <1>2, <1>9
  <2>2. found.handler = Routes[i].handler /\ found.params = Params(Routes[i].segments, path)
    <3> HIDE DEF found, hits
    <3> QED
      BY <1>7, <2>1
  <2>3. ASSUME NEW j \in DOMAIN Routes[i].segments, IsParam(Routes[i].segments[j])
        PROVE  Params(Routes[i].segments, path)[Routes[i].segments[j][2]] = path[j]
    <3>1. ShapedAs(Routes[i].segments)
      BY <2>1, RouteShape
    <3>2. Params(Routes[i].segments, path)[Routes[i].segments[j][2]] = read[j]
      BY <2>3, <3>1, ParamsRead
    <3>3. j \in 1..Len(read)
      BY <1>9, <3>1 DEF ReadsLike, ShapedAs
    <3> QED
      BY <1>1, <3>2, <3>3
  <2> HIDE DEF found
  <2> QED
    BY <2>2, <2>3
<1>10. ASSUME path[Len(path)] # "" PROVE Route(method, Append(path, "")) = found
  <2> DEFINE longer == Append(path, "")
  <2>1. Read(longer) = read
    BY <1>1, <1>10, Zenon
  <2> HIDE DEF longer, read
  <2>2. Hits(method, longer) = {i \in 1..12 : ReadsLike(i, method, read)}
    BY <1>1, <2>1, HitsRead
  <2>3. Hits(method, longer) = hits
    BY <1>2, <2>2
  <2>4. \A s : Params(s, longer) = Params(s, path)
    BY <2>1 DEF Params, read
  <2>5. Route(method, longer) = Route(method, path)
    BY <2>3, <2>4 DEF Route
  <2> QED
    BY <2>5 DEF longer
<1> QED
  BY <1>4, <1>8, <1>9, <1>10, Zenon

\* route, match: for every method and every path that can be made of any texts,
\* a request gets the handler and the id that a plain reading of the table of
\* routes gives it, whatever the order in which the controllers register.
THEOREM EveryRequestFindsItsRoute ==
  \A methods, texts : FindsTheRoute(methods, texts)
<1> SUFFICES ASSUME NEW methods, NEW texts PROVE FindsTheRoute(methods, texts)
  OBVIOUS
<1>1. ASSUME NEW path \in PathsOf(texts) PROVE path \in Seq(texts) /\ path # <<>>
  <2>1. PICK n \in 1..4 : path \in [1..n -> texts]
    BY DEF PathsOf
  <2> QED
    BY <2>1
<1>2. ASSUME NEW method \in methods, NEW path \in PathsOf(texts)
      PROVE  LET found == Route(method, path)
             IN  /\ Cardinality(Hits(method, path)) <= 1
                 /\ found.handler = "not_found" <=>
                      ~\E i \in DOMAIN Routes : ReadsLike(i, method, Read(path))
                 /\ \A i \in DOMAIN Routes : ReadsLike(i, method, Read(path)) =>
                      /\ found.handler = Routes[i].handler
                      /\ \A j \in DOMAIN Routes[i].segments : IsParam(Routes[i].segments[j]) =>
                           found.params[Routes[i].segments[j][2]] = path[j]
                 /\ path[Len(path)] # "" => Route(method, Append(path, "")) = found
  BY <1>1, RouteFound, Zenon
<1> QED
  BY <1>2, Zenon DEF FindsTheRoute, ReadsLike

\* The property that the run checks, about the table that main fills in.
THEOREM RequestsFindTheirRoutes == Spec => []RouterFindsTheRoute
<1>1. RouterFindsTheRoute
  BY EveryRequestFindsItsRoute, Zenon DEF RouterFindsTheRoute
<1> QED
  BY <1>1, PTL
=============================================================================
