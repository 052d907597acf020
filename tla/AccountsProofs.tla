--------------------------- MODULE AccountsProofs ---------------------------
(***************************************************************************)
(* The inductive invariant of Accounts, and that every step of its own     *)
(* keeps it, for all workers, forms and bounds.  CatalogueProofs adds the  *)
(* steps of the product handlers and draws the conclusions.                *)
(*                                                                         *)
(* Three things carry the proof.  A row of Users never changes, and the    *)
(* number of a request is never given twice, so that what a registration   *)
(* was told stays true.  A token names the run of the process that drew    *)
(* it.  And in a run in which no two draws have overlapped, every first    *)
(* draw in use lies below the generator and is in use once, so a new token *)
(* never replaces another.                                                 *)
(***************************************************************************)
EXTENDS Accounts, TLAPS

Locals == {"pc", "kind", "req", "form", "role", "seen", "draws", "status"}

Shaped ==
  /\ ctx = [w \in Workers |-> ctx[w]]
  /\ \A w \in Workers : ctx[w] = [f \in Locals |-> ctx[w][f]]
  /\ \A w \in Workers : ctx[w].pc \in AccountPcs
  /\ spent \in [Counted -> Nat]
  /\ gen \in Nat
  /\ raced \subseteq 0..Run

\* Requests have numbers of their own.
Numbered ==
  /\ \A w \in Workers : Busy(w) => ctx[w].req \in 1..spent.requests
  /\ \A v, w \in Workers : Busy(v) /\ Busy(w) /\ v # w => ctx[v].req # ctx[w].req
  /\ \A r \in replies : /\ r.req \in 1..spent.requests
                        /\ \A w \in Workers : Busy(w) => ctx[w].req # r.req
  /\ \A u \in DOMAIN users : /\ users[u].by \in 0..spent.requests
                             /\ users[u].role \in {"admin", "employee"}
  /\ \A w \in Workers, u \in DOMAIN users :
       ctx[w].pc = "insert" => users[u].by # ctx[w].req

\* What a registration is told, of a reply and of one about to be sent.
Tells(form, req, status) ==
  LET created == form.username \in DOMAIN users /\ users[form.username].by = req
  IN  /\ created => /\ Acceptable(form)
                    /\ Verifies(form.password, users[form.username].hash)
                    /\ users[form.username].role = form.role
      /\ status = "201" => created
      /\ status = "409" => form.username \in DOMAIN users /\ ~created
      /\ status = "400" /\ spent.faults = 0 => ~Acceptable(form) /\ ~created

Told ==
  /\ \A r \in replies : r.kind = "register" => Tells(r.form, r.req, r.status)
  /\ \A w \in Workers : ctx[w].pc = "answer" /\ ctx[w].kind = "register" =>
       Tells(ctx[w].form, ctx[w].req, ctx[w].status)

\* The draws of a token, whole or begun; both of one run, which the first names.
IsToken(token, run) == token \in Seq(Draws) /\ Len(token) = 2 /\ token[1][1] = run
IsBegun(token, run) ==
  token \in Seq(Draws) /\ Len(token) \in 0..1 /\ (token # <<>> => token[1][1] = run)

\* Where a handler is, and what it then knows.
Placed(w) ==
  /\ ctx[w].pc = "insert" => ctx[w].kind = "register" /\ Acceptable(ctx[w].form)
  /\ ctx[w].pc \in {"find", "drawRead", "drawStep", "store"} => ctx[w].kind = "login"
  /\ ctx[w].pc \in {"drawRead", "drawStep", "store"} =>
       /\ ctx[w].form.username \in DOMAIN users
       /\ ctx[w].role = users[ctx[w].form.username].role
  /\ ctx[w].pc \in {"idle", "insert", "find"} => ctx[w].draws = <<>>
  /\ ctx[w].pc \in {"drawRead", "drawStep"} => IsBegun(ctx[w].draws, Run)
  /\ ctx[w].pc = "drawStep" => ctx[w].seen \in Nat
  /\ ctx[w].pc = "store" => IsToken(ctx[w].draws, Run)
  /\ ctx[w].pc = "answer" =>
       IF ctx[w].status = "200"
       THEN /\ ctx[w].kind = "login" /\ ctx[w].draws \in DOMAIN sessions
            /\ ctx[w].form.username \in DOMAIN users
       ELSE ctx[w].draws = <<>>

\* The sessions of this run, and the tokens that were ever handed out.
Opened ==
  /\ \A t \in DOMAIN sessions :
       /\ IsToken(t, Run)
       /\ sessions[t].username \in DOMAIN users
       /\ sessions[t].role = users[sessions[t].username].role
  /\ \A r \in Tokens : /\ \E run \in 0..Run : IsToken(r.token, run)
                       /\ RunOf(r.token) = Run => r.token \in DOMAIN sessions
                       /\ r.form.username \in DOMAIN users

\* The first draw a worker holds.
Drawn(w) == ctx[w].pc \in {"drawRead", "drawStep", "store"} /\ ctx[w].draws # <<>>
First(token) == token[1][2]

\* As long as no draws overlap.
Apart ==
  /\ \A v, w \in Workers : ctx[v].pc = "drawStep" /\ ctx[w].pc = "drawStep" => v = w
  /\ \A w \in Workers : ctx[w].pc = "drawStep" => ctx[w].seen = gen
  /\ \A t \in DOMAIN sessions : First(t) < gen
  /\ \A w \in Workers : Drawn(w) => /\ First(ctx[w].draws) < gen
                                    /\ \A t \in DOMAIN sessions : First(t) # First(ctx[w].draws)
  /\ \A v, w \in Workers :
       Drawn(v) /\ Drawn(w) /\ v # w => First(ctx[v].draws) # First(ctx[w].draws)
  /\ \A r \in Tokens : RunOf(r.token) = Run => sessions[r.token].username = r.form.username
  /\ \A w \in Workers : ctx[w].pc = "answer" /\ ctx[w].status = "200" =>
       sessions[ctx[w].draws].username = ctx[w].form.username

AInv ==
  /\ Shaped
  /\ Numbered
  /\ Told
  /\ \A w \in Workers : Placed(w)
  /\ Opened
  /\ Run \notin raced => Apart
-----------------------------------------------------------------------------
LEMMA SpentIsTyped ==
  ASSUME NEW s \in [Counted -> Nat]
  PROVE  /\ s.requests \in Nat /\ s.faults \in Nat /\ s.crashes \in Nat
         /\ {"requests", "registers", "logins", "faults", "crashes"} \subseteq Counted
  BY BoundsAreTyped DEF Counted

\* What the ways of using a bound up do to the counters that matter.
LEMMA Counters ==
  ASSUME spent \in [Counted -> Nat]
  PROVE  /\ Fault => /\ spent' \in [Counted -> Nat] /\ Run' = Run
                     /\ spent'.requests = spent.requests
                     /\ spent'.faults = spent.faults + 1
         /\ NoFault => spent' = spent /\ Run' = Run
         /\ Mishap("crashes") => /\ spent' \in [Counted -> Nat] /\ Run' = Run + 1
                                 /\ spent'.requests = spent.requests
                                 /\ spent'.faults = spent.faults
         /\ \A kind \in Counted \ {"requests", "faults", "crashes"} : Asks(kind) =>
              /\ spent' \in [Counted -> Nat] /\ Run' = Run
              /\ spent'.requests = ThisRequest
              /\ spent'.faults = spent.faults
<1> USE SpentIsTyped DEF Run
<1>1. Fault => /\ spent' \in [Counted -> Nat] /\ Run' = Run
               /\ spent'.requests = spent.requests
               /\ spent'.faults = spent.faults + 1
  BY DEF Fault, Mishap
<1>2. Mishap("crashes") => /\ spent' \in [Counted -> Nat] /\ Run' = Run + 1
                           /\ spent'.requests = spent.requests
                           /\ spent'.faults = spent.faults
  BY DEF Mishap
<1>3. ASSUME NEW kind \in Counted \ {"requests", "faults", "crashes"}, Asks(kind)
      PROVE  /\ spent' \in [Counted -> Nat] /\ Run' = Run
             /\ spent'.requests = ThisRequest
             /\ spent'.faults = spent.faults
  BY <1>3 DEF Asks, ThisRequest
<1> QED
  BY <1>1, <1>2, <1>3 DEF NoFault

LEMMA InitAInv == AccountsInit => AInv
<1> SUFFICES ASSUME AccountsInit PROVE AInv
  OBVIOUS
<1> USE DEF AccountsInit
<1>1. \A w \in Workers : ctx[w] = NoHandler
  OBVIOUS
<1>2. NoHandler = [f \in Locals |-> NoHandler[f]] /\ NoHandler.pc = "idle"
      /\ NoHandler.draws = <<>>
  BY DEF NoHandler, Locals
<1>3. Shaped
  BY <1>1, <1>2, BoundsAreTyped DEF Shaped, AccountPcs, Run, Counted
<1>4. \A u \in DOMAIN users : users[u].by = 0 /\ users[u].role \in {"admin", "employee"}
  <2> SUFFICES ASSUME NEW u \in {f.username : f \in InitialForms}
               PROVE  users[u].by = 0 /\ users[u].role \in {"admin", "employee"}
    OBVIOUS
  <2> DEFINE f == CHOOSE g \in InitialForms : g.username = u
  <2>1. f \in InitialForms
    OBVIOUS
  <2>2. users[u] = [hash |-> Hash(f.password), role |-> f.role, by |-> 0]
    OBVIOUS
  <2> HIDE DEF f
  <2> QED
    BY <2>1, <2>2, FormsAreTyped
<1>5. Numbered
  <2>1. 0 \in 0..spent.requests
    BY <1>3, SpentIsTyped DEF Shaped
  <2>2. replies = {} /\ \A w \in Workers : ~Busy(w) /\ ctx[w].pc # "insert"
    BY <1>1, <1>2 DEF Busy
  <2> HIDE DEF AccountsInit
  <2> QED
    BY <1>4, <2>1, <2>2 DEF Numbered
<1>6. Told
  BY <1>1, <1>2 DEF Told
<1>7. \A w \in Workers : Placed(w)
  BY <1>1, <1>2 DEF Placed
<1>8. Opened /\ Apart
  BY <1>1, <1>2 DEF Opened, Apart, Tokens, Drawn
<1> QED
  BY <1>3, <1>5, <1>6, <1>7, <1>8 DEF AInv

\* A step elsewhere in the program: it may take a request's number or be a
\* fault.
Passing ==
  /\ UNCHANGED <<users, sessions, gen, ctx, replies, raced>>
  /\ spent' \in [Counted -> Nat] /\ Run' = Run
  /\ spent'.requests >= spent.requests /\ spent'.faults >= spent.faults

LEMMA PassingKeepsAInv ==
  ASSUME AInv, Passing
  PROVE  AInv'
<1> USE DEF AInv, Passing
<1>1. /\ spent.requests \in Nat /\ spent'.requests \in Nat
      /\ spent.faults \in Nat /\ spent'.faults \in Nat
  BY SpentIsTyped DEF Shaped
<1>2. Shaped'
  BY DEF Shaped
<1>3. Numbered'
  BY <1>1 DEF Numbered, Busy
<1>4. Told'
  BY <1>1 DEF Told, Tells
<1>5. \A w \in Workers : Placed(w)'
  BY DEF Placed
<1>6. Opened' /\ (Run' \notin raced' => Apart')
  BY DEF Opened, Apart, Tokens, Drawn
<1> QED
  BY <1>2, <1>3, <1>4, <1>5, <1>6

LEMMA CrashKeepsAInv ==
  ASSUME AInv, LoseAccounts
  PROVE  AInv'
<1> USE DEF AInv, LoseAccounts
<1>1. /\ spent' \in [Counted -> Nat] /\ Run' = Run + 1 /\ Run \in Nat
      /\ spent'.requests = spent.requests /\ spent'.faults = spent.faults
  BY Counters, SpentIsTyped DEF Shaped, Run
<1>2. /\ \A w \in Workers : ctx'[w] = NoHandler
      /\ NoHandler = [f \in Locals |-> NoHandler[f]] /\ NoHandler.pc = "idle"
      /\ NoHandler.draws = <<>>
  BY DEF NoHandler, Locals
<1>3. Shaped'
  <2>1. raced' \subseteq 0..Run'
    BY <1>1 DEF Shaped
  <2>2. ctx' = [w \in Workers |-> ctx'[w]]
    OBVIOUS
  <2> QED
    BY <1>1, <1>2, <2>1, <2>2 DEF Shaped, AccountPcs
<1>4. Numbered'
  BY <1>1, <1>2 DEF Numbered, Busy
<1>5. Told'
  BY <1>1, <1>2 DEF Told, Tells
<1>6. \A w \in Workers : Placed(w)'
  BY <1>2 DEF Placed
<1>7. Opened'
  <2>1. \A r \in Tokens : \E run \in 0..Run : IsToken(r.token, run)
    BY DEF Opened
  <2>2. \A r \in Tokens : /\ \E run \in 0..Run' : IsToken(r.token, run)
                          /\ RunOf(r.token) # Run'
    BY <1>1, <2>1 DEF IsToken, RunOf
  <2>3. Tokens' = Tokens /\ DOMAIN sessions' = {}
    BY DEF Tokens
  <2> QED
    BY <2>2, <2>3 DEF Opened
<1>8. Apart'
  <2>1. \A r \in Tokens' : RunOf(r.token) # Run'
    BY <1>1 DEF Opened, IsToken, RunOf, Tokens
  <2> QED
    BY <1>2, <2>1 DEF Apart, Drawn
<1> QED
  BY <1>3, <1>4, <1>5, <1>6, <1>7, <1>8
-----------------------------------------------------------------------------
\* A new handler has a number nobody has had.
Begins(c) ==
  /\ c = [f \in Locals |-> c[f]]
  /\ c.req = ThisRequest /\ c.draws = <<>>
  /\ \/ c.kind = "register" /\ c.pc = "insert" /\ Acceptable(c.form)
     \/ /\ c.kind = "register" /\ c.pc = "answer" /\ c.status = "400"
        /\ ~Acceptable(c.form)
     \/ c.kind = "login" /\ c.pc = "find"
     \/ c.kind = "login" /\ c.pc = "answer" /\ c.status = "400"

LEMMA BeginKeepsAInv ==
  ASSUME AInv, NEW w \in Workers, ~Busy(w), NEW c, Begins(c),
         ctx' = [ctx EXCEPT ![w] = c],
         NEW kind \in {"registers", "logins"}, Asks(kind),
         UNCHANGED <<users, sessions, gen, replies, raced>>
  PROVE  AInv'
<1> USE DEF AInv
<1>1. /\ spent' \in [Counted -> Nat] /\ Run' = Run
      /\ spent.requests \in Nat /\ ThisRequest = spent.requests + 1
      /\ spent'.requests = ThisRequest /\ spent'.faults = spent.faults
  BY Counters, SpentIsTyped DEF Shaped, ThisRequest
<1>2. ctx'[w] = c /\ \A v \in Workers : v # w => ctx'[v] = ctx[v]
  BY DEF Shaped
<1>3. c.pc \in AccountPcs /\ c.pc \in {"insert", "answer", "find"}
  BY DEF Begins, AccountPcs
<1>4. Shaped'
  BY <1>1, <1>3 DEF Shaped, Begins
<1>5. Numbered'
  <2>1. \A v \in Workers : v # w => (ctx'[v].pc = ctx[v].pc /\ ctx'[v].req = ctx[v].req)
    BY <1>2
  <2>2. ctx'[w].req = spent.requests + 1
    BY <1>1, <1>2 DEF Begins
  <2>3. \A v \in Workers : Busy(v)' => ctx'[v].req \in 1..spent'.requests
    BY <1>1, <2>1, <2>2 DEF Numbered, Busy
  <2>4. \A u, v \in Workers : Busy(u)' /\ Busy(v)' /\ u # v => ctx'[u].req # ctx'[v].req
    BY <1>1, <2>1, <2>2 DEF Numbered, Busy
  <2>5. \A r \in replies : /\ r.req \in 1..spent'.requests
                           /\ \A v \in Workers : Busy(v)' => ctx'[v].req # r.req
    BY <1>1, <2>1, <2>2 DEF Numbered, Busy
  <2>6. \A u \in DOMAIN users : /\ users[u].by \in 0..spent'.requests
                                /\ users[u].role \in {"admin", "employee"}
    BY <1>1 DEF Numbered
  <2>7. \A v \in Workers, u \in DOMAIN users :
          ctx'[v].pc = "insert" => users[u].by # ctx'[v].req
    BY <1>1, <2>1, <2>2 DEF Numbered
  <2> QED
    BY <2>3, <2>4, <2>5, <2>6, <2>7 DEF Numbered
<1>6. Told'
  <2>1. \A v \in Workers : ctx'[v].pc = "answer" /\ ctx'[v].kind = "register" =>
          Tells(ctx'[v].form, ctx'[v].req, ctx'[v].status)
    <3> SUFFICES ASSUME NEW v \in Workers, ctx'[v].pc = "answer", ctx'[v].kind = "register"
                 PROVE  Tells(ctx'[v].form, ctx'[v].req, ctx'[v].status)
      OBVIOUS
    <3>1. CASE v = w
      <4>1. c.status = "400" /\ ~Acceptable(c.form) /\ c.req = spent.requests + 1
        BY <1>1, <1>2, <3>1 DEF Begins
      <4>2. \A u \in DOMAIN users : users[u].by # c.req
        BY <1>1, <4>1 DEF Numbered
      <4> QED
        BY <1>2, <3>1, <4>1, <4>2 DEF Tells
    <3>2. CASE v # w
      BY <1>2, <3>2 DEF Told
    <3> QED
      BY <3>1, <3>2
  <2> QED
    BY <1>1, <2>1 DEF Told, Tells
<1>7. \A v \in Workers : Placed(v)'
  <2> TAKE v \in Workers
  <2>1. CASE v = w
    BY <1>2, <2>1 DEF Begins, Placed
  <2>2. CASE v # w
    BY <1>1, <1>2, <2>2 DEF Placed
  <2> QED
    BY <2>1, <2>2
<1>8. Opened'
  BY <1>1 DEF Opened, Tokens
<1>9. Run' \notin raced' => Apart'
  <2>1. c.pc \notin {"drawRead", "drawStep", "store"} /\ ~(c.pc = "answer" /\ c.status = "200")
    BY DEF Begins
  <2> QED
    BY <1>1, <1>2, <2>1 DEF Apart, Tokens, Drawn
<1> QED
  BY <1>4, <1>5, <1>6, <1>7, <1>8, <1>9

LEMMA RegisterKeepsAInv ==
  ASSUME AInv, NEW w \in Workers, NEW form \in Forms, Register(w, form)
  PROVE  AInv'
<1> DEFINE ok == Acceptable(form)
           c == [NoHandler EXCEPT !.kind = "register", !.req = ThisRequest, !.form = form,
                                  !.pc = IF ok THEN "insert" ELSE "answer",
                                  !.status = IF ok THEN "none" ELSE "400"]
<1>1. Begins(c)
  <2> HIDE DEF ok
  <2>1. /\ c = [f \in Locals |-> c[f]] /\ c.kind = "register" /\ c.req = ThisRequest
        /\ c.form = form /\ c.draws = <<>>
        /\ c.pc = (IF ok THEN "insert" ELSE "answer")
        /\ c.status = (IF ok THEN "none" ELSE "400")
    BY DEF NoHandler, Locals
  <2> HIDE DEF c
  <2> QED
    BY <2>1 DEF Begins, ok
<1>2. ctx' = [ctx EXCEPT ![w] = c] /\ Asks("registers") /\ ~Busy(w)
      /\ UNCHANGED <<users, sessions, gen, replies, raced>>
  BY DEF Register
<1> HIDE DEF c
<1> QED
  BY <1>1, <1>2, BeginKeepsAInv

LEMMA LoginKeepsAInv ==
  ASSUME AInv, NEW w \in Workers, NEW form \in Forms, Login(w, form)
  PROVE  AInv'
<1>1. PICK readable \in BOOLEAN :
       ctx' = [ctx EXCEPT ![w] =
         [NoHandler EXCEPT !.kind = "login", !.req = ThisRequest,
                           !.form = [form EXCEPT !.role = None],
                           !.pc = IF readable THEN "find" ELSE "answer",
                           !.status = IF readable THEN "none" ELSE "400"]]
  BY DEF Login
<1> DEFINE sent == [form EXCEPT !.role = None]
           c == [NoHandler EXCEPT !.kind = "login", !.req = ThisRequest, !.form = sent,
                                  !.pc = IF readable THEN "find" ELSE "answer",
                                  !.status = IF readable THEN "none" ELSE "400"]
<1>2. ctx' = [ctx EXCEPT ![w] = c] /\ Asks("logins") /\ ~Busy(w)
      /\ UNCHANGED <<users, sessions, gen, replies, raced>>
  BY <1>1 DEF Login
<1> HIDE DEF sent
<1>3. Begins(c)
  <2>1. /\ c = [f \in Locals |-> c[f]] /\ c.kind = "login" /\ c.req = ThisRequest
        /\ c.draws = <<>>
        /\ c.pc = (IF readable THEN "find" ELSE "answer")
        /\ c.status = (IF readable THEN "none" ELSE "400")
    BY DEF NoHandler, Locals
  <2> HIDE DEF c
  <2> QED
    BY <2>1 DEF Begins
<1> HIDE DEF c
<1> QED
  BY <1>2, <1>3, BeginKeepsAInv
-----------------------------------------------------------------------------
\* A step of a login, on its way to a token, leaves the table and what was told.
Proceeds(w, c) ==
  /\ c = [f \in Locals |-> c[f]]
  /\ c.pc \in AccountPcs \ {"idle", "insert"}
  /\ c.kind = ctx[w].kind /\ c.req = ctx[w].req /\ c.form = ctx[w].form

LEMMA LoginProceeds ==
  ASSUME AInv, NEW w \in Workers, ctx[w].kind = "login", Busy(w), NEW c, Proceeds(w, c),
         ctx' = [ctx EXCEPT ![w] = c], UNCHANGED <<users, replies>>,
         gen' \in Nat, raced' \subseteq 0..Run, NoFault \/ Fault
  PROVE  /\ Shaped' /\ Numbered' /\ Told'
         /\ ctx'[w] = c /\ \A v \in Workers : v # w => ctx'[v] = ctx[v]
         /\ Run' = Run
<1> USE DEF AInv
<1>1. /\ spent' \in [Counted -> Nat] /\ Run' = Run
      /\ spent'.requests = spent.requests /\ spent'.faults \in Nat /\ spent.faults \in Nat
      /\ spent'.faults >= spent.faults
  BY Counters, SpentIsTyped DEF Shaped
<1>2. ctx'[w] = c /\ \A v \in Workers : v # w => ctx'[v] = ctx[v]
  BY DEF Shaped
<1>3. Shaped'
  BY <1>1 DEF Shaped, Proceeds
<1>4. Numbered'
  <2>1. \A v \in Workers : /\ ctx'[v].req = ctx[v].req
                           /\ Busy(v)' => Busy(v)
                           /\ ctx'[v].pc = "insert" => ctx[v].pc = "insert"
    BY <1>2 DEF Proceeds, Busy
  <2> QED
    BY <1>1, <2>1 DEF Numbered, Busy
<1>5. Told'
  <2>1. \A v \in Workers : ctx'[v].kind = "register" => ctx'[v] = ctx[v]
    BY <1>2 DEF Proceeds
  <2> QED
    BY <1>1, <2>1 DEF Told, Tells
<1> QED
  BY <1>1, <1>2, <1>3, <1>4, <1>5

LEMMA FindUserKeepsAInv ==
  ASSUME AInv, NEW w \in Workers, FindUser(w)
  PROVE  AInv'
<1> USE DEF AInv
<1>1. /\ ctx[w].pc = "find" /\ ctx[w].kind = "login" /\ Busy(w) /\ ctx[w].draws = <<>>
      /\ UNCHANGED <<users, sessions, gen, replies, raced>>
  BY DEF FindUser, Placed, Busy
<1>2. PICK c : /\ Proceeds(w, c) /\ ctx' = [ctx EXCEPT ![w] = c] /\ c.draws = <<>>
               /\ NoFault \/ Fault
               /\ \/ /\ c.pc = "drawRead" /\ ctx[w].form.username \in DOMAIN users
                     /\ c.role = users[ctx[w].form.username].role
                  \/ c.pc = "answer" /\ c.status = "401"
  <2>1. CASE /\ ctx[w].form.username \in DOMAIN users /\ NoFault
             /\ ctx' = [ctx EXCEPT ![w].pc = "drawRead",
                                   ![w].role = users[ctx[w].form.username].role]
    <3> DEFINE c == [ctx[w] EXCEPT !.pc = "drawRead",
                                   !.role = users[ctx[w].form.username].role]
    <3>1. ctx' = [ctx EXCEPT ![w] = c]
      BY <2>1 DEF Shaped
    <3>2. /\ c = [f \in Locals |-> c[f]] /\ c.pc = "drawRead"
          /\ c.role = users[ctx[w].form.username].role /\ c.draws = ctx[w].draws
          /\ c.kind = ctx[w].kind /\ c.req = ctx[w].req /\ c.form = ctx[w].form
      BY DEF Shaped, Locals
    <3> HIDE DEF c
    <3> QED
      BY <1>1, <2>1, <3>1, <3>2 DEF Proceeds, AccountPcs
  <2>2. CASE /\ NoFault \/ Fault
             /\ ctx' = [ctx EXCEPT ![w].pc = "answer", ![w].status = "401"]
    <3> DEFINE c == [ctx[w] EXCEPT !.pc = "answer", !.status = "401"]
    <3>1. ctx' = [ctx EXCEPT ![w] = c]
      BY <2>2 DEF Shaped
    <3>2. /\ c = [f \in Locals |-> c[f]] /\ c.pc = "answer" /\ c.status = "401"
          /\ c.draws = ctx[w].draws
          /\ c.kind = ctx[w].kind /\ c.req = ctx[w].req /\ c.form = ctx[w].form
      BY DEF Shaped, Locals
    <3> HIDE DEF c
    <3> QED
      BY <1>1, <2>2, <3>1, <3>2 DEF Proceeds, AccountPcs
  <2> QED
    BY <2>1, <2>2 DEF FindUser
<1>3. /\ Shaped' /\ Numbered' /\ Told' /\ Run' = Run
      /\ ctx'[w] = c /\ \A v \in Workers : v # w => ctx'[v] = ctx[v]
  BY <1>1, <1>2, LoginProceeds DEF Shaped
<1>4. \A v \in Workers : Placed(v)'
  <2> TAKE v \in Workers
  <2>1. CASE v = w
    <3>1. IsBegun(<<>>, Run')
      BY DEF IsBegun
    <3> QED
      BY <1>1, <1>2, <1>3, <2>1, <3>1 DEF Placed, Proceeds
  <2>2. CASE v # w
    BY <1>1, <1>3, <2>2 DEF Placed
  <2> QED
    BY <2>1, <2>2
<1>5. Opened'
  BY <1>1, <1>3 DEF Opened, Tokens
<1>6. Run' \notin raced' => Apart'
  <2>1. c.pc # "drawStep" /\ ~(c.pc = "answer" /\ c.status = "200") /\ c.draws = <<>>
    BY <1>2
  <2> QED
    BY <1>1, <1>3, <2>1 DEF Apart, Tokens, Drawn
<1> QED
  BY <1>3, <1>4, <1>5, <1>6

LEMMA DrawReadKeepsAInv ==
  ASSUME AInv, NEW w \in Workers, DrawRead(w)
  PROVE  AInv'
<1> USE DEF AInv
<1> DEFINE c == [ctx[w] EXCEPT !.pc = "drawStep", !.seen = gen]
<1>1. /\ ctx[w].pc = "drawRead" /\ ctx[w].kind = "login" /\ Busy(w)
      /\ UNCHANGED <<users, sessions, gen, replies, spent>> /\ NoFault /\ gen \in Nat
      /\ IsBegun(ctx[w].draws, Run) /\ ctx[w].form.username \in DOMAIN users
      /\ ctx[w].role = users[ctx[w].form.username].role
  BY DEF DrawRead, Placed, Busy, NoFault, Shaped
<1>2. ctx' = [ctx EXCEPT ![w] = c]
  BY DEF Shaped, DrawRead
<1>3. /\ c = [f \in Locals |-> c[f]] /\ c.pc = "drawStep" /\ c.seen = gen
      /\ c.draws = ctx[w].draws /\ c.role = ctx[w].role
      /\ c.kind = ctx[w].kind /\ c.req = ctx[w].req /\ c.form = ctx[w].form
  BY DEF Shaped, Locals
<1> HIDE DEF c
<1>4. raced' \subseteq 0..Run /\ raced \subseteq raced'
  BY SpentIsTyped DEF DrawRead, Shaped, Run
<1>5. Proceeds(w, c)
  BY <1>3 DEF Proceeds, AccountPcs
<1>6. /\ Shaped' /\ Numbered' /\ Told' /\ Run' = Run
      /\ ctx'[w] = c /\ \A v \in Workers : v # w => ctx'[v] = ctx[v]
  BY <1>1, <1>2, <1>4, <1>5, LoginProceeds
<1>7. \A v \in Workers : Placed(v)'
  <2> TAKE v \in Workers
  <2>1. CASE v = w
    BY <1>1, <1>3, <1>6, <2>1 DEF Placed
  <2>2. CASE v # w
    BY <1>1, <1>6, <2>2 DEF Placed
  <2> QED
    BY <2>1, <2>2
<1>8. Opened'
  BY <1>1, <1>6 DEF Opened, Tokens
<1>9. Run' \notin raced' => Apart'
  <2> SUFFICES ASSUME Run' \notin raced' PROVE Apart'
    OBVIOUS
  <2>1. Apart /\ \A v \in Workers : ctx[v].pc # "drawStep"
    BY <1>4, <1>6 DEF DrawRead
  <2>2. \A v \in Workers : /\ Drawn(v)' <=> Drawn(v)
                           /\ ctx'[v].draws = ctx[v].draws /\ ctx'[v].form = ctx[v].form
                           /\ ctx'[v].pc = "drawStep" => v = w
                           /\ ctx'[v].pc = "answer" => ctx'[v] = ctx[v]
    BY <1>1, <1>3, <1>6, <2>1 DEF Drawn
  <2> QED
    BY <1>1, <1>3, <1>6, <2>1, <2>2 DEF Apart, Tokens
<1> QED
  BY <1>6, <1>7, <1>8, <1>9

\* The second draw completes a token; the first begins it.
LEMMA OneMoreDraw ==
  ASSUME NEW draws, NEW run \in Nat, IsBegun(draws, run), NEW n \in Nat
  PROVE  LET more == Append(draws, <<run, n>>)
         IN  IF draws = <<>>
             THEN IsBegun(more, run) /\ more # <<>> /\ First(more) = n
             ELSE IsToken(more, run) /\ more # <<>> /\ First(more) = First(draws)
<1> DEFINE more == Append(draws, <<run, n>>)
<1>1. /\ draws \in Seq(Draws) /\ <<run, n>> \in Draws /\ Len(draws) \in Nat
      /\ Len(draws) \in 0..1
  BY DEF IsBegun, Draws
<1>2. /\ more \in Seq(Draws) /\ Len(more) = Len(draws) + 1 /\ more # <<>>
      /\ \A i \in 1..Len(more) : more[i] = IF i <= Len(draws) THEN draws[i] ELSE <<run, n>>
  BY <1>1
<1>3. ASSUME draws = <<>>
      PROVE  IsBegun(more, run) /\ more # <<>> /\ First(more) = n
  <2>1. Len(more) = 1 /\ more[1] = <<run, n>>
    BY <1>2, <1>3
  <2> HIDE DEF more
  <2> QED
    BY <1>2, <1>3, <2>1 DEF IsBegun, First
<1>4. ASSUME draws # <<>>
      PROVE  IsToken(more, run) /\ more # <<>> /\ First(more) = First(draws)
  <2>1. Len(draws) = 1
    BY <1>1, <1>4
  <2>2. Len(more) = 2 /\ more[1] = draws[1] /\ draws[1][1] = run
    BY <1>2, <1>4, <2>1 DEF IsBegun
  <2> HIDE DEF more
  <2> QED
    BY <1>2, <1>4, <2>2 DEF IsToken, First
<1> QED
  BY <1>3, <1>4

LEMMA DrawStepKeepsAInv ==
  ASSUME AInv, NEW w \in Workers, DrawStep(w)
  PROVE  AInv'
<1> USE DEF AInv
<1> DEFINE more == Append(ctx[w].draws, <<Run, ctx[w].seen>>)
           c == [ctx[w] EXCEPT !.draws = more,
                               !.pc = IF ctx[w].draws = <<>> THEN "drawRead" ELSE "store"]
<1>1. /\ ctx[w].pc = "drawStep" /\ ctx[w].kind = "login" /\ Busy(w)
      /\ UNCHANGED <<users, sessions, replies, raced, spent>> /\ NoFault
      /\ gen' = ctx[w].seen + 1 /\ ctx[w].seen \in Nat /\ gen \in Nat
      /\ IsBegun(ctx[w].draws, Run) /\ ctx[w].form.username \in DOMAIN users
      /\ ctx[w].role = users[ctx[w].form.username].role
  BY DEF DrawStep, Placed, Busy, NoFault, Shaped
<1>2. ctx' = [ctx EXCEPT ![w] = c]
  <2> HIDE DEF more
  <2>1. ctx' = [ctx EXCEPT ![w].draws = more,
                  ![w].pc = IF ctx[w].draws = <<>> THEN "drawRead" ELSE "store"]
    BY DEF DrawStep, more
  <2> QED
    BY <2>1 DEF Shaped
<1>3. /\ c = [f \in Locals |-> c[f]] /\ c.draws = more /\ c.role = ctx[w].role
      /\ c.pc = (IF ctx[w].draws = <<>> THEN "drawRead" ELSE "store")
      /\ c.kind = ctx[w].kind /\ c.req = ctx[w].req /\ c.form = ctx[w].form
  <2> HIDE DEF more
  <2> QED
    BY DEF Shaped, Locals
<1>4. IF ctx[w].draws = <<>>
      THEN IsBegun(more, Run) /\ more # <<>> /\ First(more) = ctx[w].seen
      ELSE IsToken(more, Run) /\ more # <<>> /\ First(more) = First(ctx[w].draws)
  <2>1. Run \in Nat
    BY SpentIsTyped DEF Run, Shaped
  <2> QED
    BY <1>1, <2>1, OneMoreDraw
<1> HIDE DEF c, more
<1>5. Proceeds(w, c)
  BY <1>3 DEF Proceeds, AccountPcs
<1>6. /\ Shaped' /\ Numbered' /\ Told' /\ Run' = Run
      /\ ctx'[w] = c /\ \A v \in Workers : v # w => ctx'[v] = ctx[v]
  <2>1. gen' \in Nat /\ raced' \subseteq 0..Run
    BY <1>1 DEF Shaped
  <2> QED
    BY <1>1, <1>2, <1>5, <2>1, LoginProceeds
<1>7. \A v \in Workers : Placed(v)'
  <2> TAKE v \in Workers
  <2>1. CASE v = w
    BY <1>1, <1>3, <1>4, <1>6, <2>1 DEF Placed
  <2>2. CASE v # w
    BY <1>1, <1>6, <2>2 DEF Placed
  <2> QED
    BY <2>1, <2>2
<1>8. Opened'
  BY <1>1, <1>6 DEF Opened, Tokens
<1>9. Run' \notin raced' => Apart'
  <2> SUFFICES ASSUME Run' \notin raced' PROVE Apart'
    OBVIOUS
  <2>1. Apart /\ ctx[w].seen = gen /\ gen' = gen + 1
    BY <1>1, <1>6 DEF Apart
  <2>2. \A v \in Workers : ctx'[v].pc # "drawStep"
    BY <1>1, <1>3, <1>6, <2>1 DEF Apart
  <2>3. \A v \in Workers : Drawn(v)' =>
          \/ v # w /\ Drawn(v) /\ ctx'[v].draws = ctx[v].draws
          \/ v = w /\ ctx'[v].draws = more /\ First(more) = gen
          \/ v = w /\ ctx'[v].draws = more /\ Drawn(w) /\ First(more) = First(ctx[w].draws)
    BY <1>1, <1>3, <1>4, <1>6, <2>1 DEF Drawn
  <2>4. \A t \in DOMAIN sessions : First(t) \in Nat /\ First(t) < gen
    <3>1. \A t \in DOMAIN sessions : t \in Seq(Draws) /\ Len(t) = 2 /\ First(t) < gen
      BY <2>1 DEF Apart, Opened, IsToken
    <3>2. \A t \in Seq(Draws) : Len(t) = 2 => First(t) \in Nat
      BY DEF First, Draws
    <3> QED
      BY <3>1, <3>2
  <2>5. \A v \in Workers : Drawn(v) => First(ctx[v].draws) \in Nat /\ First(ctx[v].draws) < gen
    <3>1. \A t \in Seq(Draws) : Len(t) \in 1..2 => First(t) \in Nat
      BY DEF First, Draws
    <3>2. \A v \in Workers : Drawn(v) => ctx[v].draws \in Seq(Draws) /\ Len(ctx[v].draws) \in 1..2
      <4> SUFFICES ASSUME NEW v \in Workers, Drawn(v)
                   PROVE  ctx[v].draws \in Seq(Draws) /\ Len(ctx[v].draws) \in 1..2
        OBVIOUS
      <4>1. /\ ctx[v].draws # <<>>
            /\ IsBegun(ctx[v].draws, Run) \/ IsToken(ctx[v].draws, Run)
        BY DEF Drawn, Placed
      <4>2. \A t \in Seq(Draws) : t # <<>> => Len(t) \in Nat \ {0}
        OBVIOUS
      <4> QED
        BY <4>1, <4>2 DEF IsBegun, IsToken
    <3> QED
      BY <2>1, <3>1, <3>2 DEF Apart
  <2>6. \A v \in Workers : Drawn(v)' =>
          /\ First(ctx'[v].draws) < gen'
          /\ \A t \in DOMAIN sessions' : First(t) # First(ctx'[v].draws)
    BY <1>1, <2>1, <2>3, <2>4, <2>5 DEF Apart
  <2>7. \A u, v \in Workers : Drawn(u)' /\ Drawn(v)' /\ u # v =>
          First(ctx'[u].draws) # First(ctx'[v].draws)
    BY <1>1, <2>1, <2>3, <2>5 DEF Apart
  <2>8. \A v \in Workers : ctx'[v].pc = "answer" => ctx'[v] = ctx[v]
    BY <1>3, <1>6
  <2>9. \A t \in DOMAIN sessions' : First(t) < gen'
    BY <1>1, <2>1, <2>4
  <2> QED
    BY <1>1, <1>6, <2>1, <2>2, <2>6, <2>7, <2>8, <2>9 DEF Apart, Tokens
<1> QED
  BY <1>6, <1>7, <1>8, <1>9

LEMMA TokensAreNotEmpty == \A t, run : IsToken(t, run) => t # <<>>
<1>1. \A t \in Seq(Draws) : Len(t) = 2 => t # <<>>
  OBVIOUS
<1> QED
  BY <1>1 DEF IsToken

LEMMA StoreKeepsAInv ==
  ASSUME AInv, NEW w \in Workers, Store(w)
  PROVE  AInv'
<1> USE DEF AInv
<1> DEFINE c == [ctx[w] EXCEPT !.pc = "answer", !.status = "200"]
           token == ctx[w].draws
           entry == [username |-> ctx[w].form.username, role |-> ctx[w].role]
<1>1. /\ ctx[w].pc = "store" /\ ctx[w].kind = "login" /\ Busy(w)
      /\ UNCHANGED <<users, gen, replies, raced, spent>> /\ NoFault
      /\ gen' \in Nat /\ raced' \subseteq 0..Run
      /\ IsToken(token, Run) /\ ctx[w].form.username \in DOMAIN users
      /\ ctx[w].role = users[ctx[w].form.username].role
  BY DEF Store, Placed, Busy, NoFault, Shaped
<1>2. ctx' = [ctx EXCEPT ![w] = c]
  BY DEF Shaped, Store
<1>3. /\ c = [f \in Locals |-> c[f]] /\ c.draws = token
      /\ c.pc = "answer" /\ c.status = "200"
      /\ c.kind = ctx[w].kind /\ c.req = ctx[w].req /\ c.form = ctx[w].form
  BY DEF Shaped, Locals
<1>4. /\ DOMAIN sessions' = DOMAIN sessions \cup {token}
      /\ sessions'[token] = entry
      /\ \A t \in DOMAIN sessions : t # token => sessions'[t] = sessions[t]
  <2>1. sessions' = With(sessions, token, entry)
    BY DEF Store
  <2> HIDE DEF token, entry
  <2> QED
    BY <2>1 DEF With
<1>5. /\ entry.username = ctx[w].form.username /\ entry.username \in DOMAIN users
      /\ entry.role = users[entry.username].role
  BY <1>1
<1> HIDE DEF c, entry
<1>6. Proceeds(w, c)
  BY <1>3 DEF Proceeds, AccountPcs
<1>7. /\ Shaped' /\ Numbered' /\ Told' /\ Run' = Run
      /\ ctx'[w] = c /\ \A v \in Workers : v # w => ctx'[v] = ctx[v]
  BY <1>1, <1>2, <1>6, LoginProceeds
<1>8. \A v \in Workers : Placed(v)'
  <2> TAKE v \in Workers
  <2>1. CASE v = w
    BY <1>1, <1>3, <1>4, <1>7, <2>1 DEF Placed
  <2>2. CASE v # w
    BY <1>1, <1>4, <1>7, <2>2 DEF Placed
  <2> QED
    BY <2>1, <2>2
<1>9. Opened'
  <2>1. \A t \in DOMAIN sessions' :
          /\ IsToken(t, Run)
          /\ sessions'[t].username \in DOMAIN users
          /\ sessions'[t].role = users[sessions'[t].username].role
    BY <1>1, <1>4, <1>5 DEF Opened
  <2>2. \A r \in Tokens : /\ \E run \in 0..Run : IsToken(r.token, run)
                          /\ RunOf(r.token) = Run => r.token \in DOMAIN sessions'
                          /\ r.form.username \in DOMAIN users
    BY <1>4 DEF Opened
  <2> QED
    BY <1>1, <1>7, <2>1, <2>2 DEF Opened, Tokens
<1>10. Run' \notin raced' => Apart'
  <2> SUFFICES ASSUME Run' \notin raced' PROVE Apart'
    OBVIOUS
  <2>1. Apart /\ token # <<>> /\ Drawn(w)
    BY <1>1, <1>7, TokensAreNotEmpty DEF Drawn
  <2>2. token \notin DOMAIN sessions
    BY <2>1 DEF Apart
  <2>3. \A t \in DOMAIN sessions : sessions'[t] = sessions[t]
    BY <1>4, <2>2
  <2>4. \A v \in Workers : /\ v # w \/ ctx'[v].pc = "answer"
                           /\ Drawn(v)' => v # w /\ Drawn(v) /\ ctx'[v] = ctx[v]
    BY <1>3, <1>7 DEF Drawn
  <2>5. \A v \in Workers : ctx'[v].pc = "drawStep" => ctx[v].pc = "drawStep" /\ ctx'[v] = ctx[v]
    BY <1>3, <1>7, <2>4
  <2>6. \A t \in DOMAIN sessions' : First(t) < gen'
    BY <1>1, <1>4, <2>1 DEF Apart
  <2>7. \A v \in Workers : Drawn(v)' =>
          /\ First(ctx'[v].draws) < gen'
          /\ \A t \in DOMAIN sessions' : First(t) # First(ctx'[v].draws)
    BY <1>1, <1>4, <2>1, <2>4 DEF Apart
  <2>8. \A u, v \in Workers : Drawn(u)' /\ Drawn(v)' /\ u # v =>
          First(ctx'[u].draws) # First(ctx'[v].draws)
    BY <2>1, <2>4 DEF Apart
  <2>9. \A r \in Tokens' : RunOf(r.token) = Run' =>
          sessions'[r.token].username = r.form.username
    BY <1>1, <1>7, <2>1, <2>3 DEF Apart, Opened, Tokens
  <2>10. \A v \in Workers : ctx'[v].pc = "answer" /\ ctx'[v].status = "200" =>
           sessions'[ctx'[v].draws].username = ctx'[v].form.username
    BY <1>3, <1>4, <1>5, <1>7, <2>1, <2>3 DEF Apart, Placed
  <2> QED
    BY <1>1, <2>1, <2>5, <2>6, <2>7, <2>8, <2>9, <2>10 DEF Apart
<1> QED
  BY <1>7, <1>8, <1>9, <1>10

LEMMA InsertUserKeepsAInv ==
  ASSUME AInv, NEW w \in Workers, InsertUser(w)
  PROVE  AInv'
<1> USE DEF AInv
<1> DEFINE form == ctx[w].form
           row == [hash |-> Hash(form.password), role |-> form.role, by |-> ctx[w].req]
<1>1. /\ ctx[w].pc = "insert" /\ ctx[w].kind = "register" /\ Busy(w)
      /\ Acceptable(form) /\ ctx[w].draws = <<>>
      /\ UNCHANGED <<sessions, gen, replies, raced>>
  BY DEF InsertUser, Placed, Busy
<1>2. PICK status \in {"201", "409", "400"} :
        /\ ctx' = [ctx EXCEPT ![w].pc = "answer", ![w].status = status]
        /\ \/ users' = users /\ status = "409" /\ form.username \in DOMAIN users /\ NoFault
           \/ users' = users /\ status = "400" /\ Fault
           \/ /\ users' = With(users, form.username, row) /\ form.username \notin DOMAIN users
              /\ (status = "201" /\ NoFault) \/ (status = "400" /\ Fault)
  <2> HIDE DEF row
  <2>1. LET Outcome(table, status) ==
              /\ users' = table
              /\ ctx' = [ctx EXCEPT ![w].pc = "answer", ![w].status = status]
            New == With(users, form.username, row)
        IN  \/ form.username \notin DOMAIN users /\ NoFault /\ Outcome(New, "201")
            \/ form.username \in DOMAIN users /\ NoFault /\ Outcome(users, "409")
            \/ Fault /\ Outcome(users, "400")
            \/ form.username \notin DOMAIN users /\ Fault /\ Outcome(New, "400")
    BY DEF InsertUser, row
  <2> QED
    BY <2>1
<1> DEFINE c == [ctx[w] EXCEPT !.pc = "answer", !.status = status]
<1>3. ctx' = [ctx EXCEPT ![w] = c]
  BY <1>2 DEF Shaped
<1>4. /\ c = [f \in Locals |-> c[f]] /\ c.draws = <<>>
      /\ c.pc = "answer" /\ c.status = status
      /\ c.kind = "register" /\ c.req = ctx[w].req /\ c.form = form
  BY <1>1 DEF Shaped, Locals
<1>5. /\ row.by = ctx[w].req /\ row.role = form.role /\ row.role \in {"admin", "employee"}
      /\ Verifies(form.password, row.hash)
  BY <1>1 DEF Acceptable, Verifies
<1>6. /\ DOMAIN users \subseteq DOMAIN users'
      /\ \A u \in DOMAIN users : users'[u] = users[u]
      /\ \A u \in DOMAIN users' : u \in DOMAIN users \/ (u = form.username /\ users'[u] = row)
      /\ status = "201" =>
           form.username \in DOMAIN users' /\ users'[form.username] = row
  <2> HIDE DEF form, row
  <2> QED
    BY <1>2 DEF With
<1>7. /\ ctx'[w] = c /\ \A v \in Workers : v # w => ctx'[v] = ctx[v]
  BY <1>3 DEF Shaped
<1>8. /\ spent' \in [Counted -> Nat] /\ Run' = Run
      /\ spent'.requests = spent.requests /\ spent.requests \in Nat
      /\ spent'.faults \in Nat /\ spent.faults \in Nat
      /\ spent'.faults >= spent.faults
      /\ status = "400" => spent'.faults # 0
  BY <1>2, Counters, SpentIsTyped DEF Shaped
<1> HIDE DEF c, row, form
<1>9. Shaped'
  BY <1>1, <1>3, <1>4, <1>8 DEF Shaped, AccountPcs
<1>10. Numbered'
  <2>1. \A v \in Workers : /\ ctx'[v].req = ctx[v].req
                           /\ Busy(v)' => Busy(v)
                           /\ ctx'[v].pc = "insert" => v # w /\ ctx[v].pc = "insert"
    BY <1>1, <1>4, <1>7 DEF Busy
  <2>2. ctx[w].req \in 1..spent.requests
        /\ \A v \in Workers : v # w /\ Busy(v) => ctx[v].req # ctx[w].req
    BY <1>1 DEF Numbered
  <2>3. \A u \in DOMAIN users' : users'[u].by \in 0..spent'.requests
                                 /\ users'[u].role \in {"admin", "employee"}
    BY <1>5, <1>6, <1>8, <2>2 DEF Numbered
  <2>4. \A v \in Workers, u \in DOMAIN users' :
          ctx'[v].pc = "insert" => users'[u].by # ctx'[v].req
    BY <1>5, <1>6, <2>1, <2>2 DEF Numbered, Busy
  <2> QED
    BY <1>1, <1>8, <2>1, <2>3, <2>4 DEF Numbered
<1>11. Told'
  <2>1. \A r \in replies : r.req # ctx[w].req
    BY <1>1 DEF Numbered
  <2>2. ASSUME NEW f, NEW req, NEW answer, Tells(f, req, answer), req # ctx[w].req
        PROVE  Tells(f, req, answer)'
    BY <1>5, <1>6, <1>8, <2>2 DEF Tells
  <2>3. \A r \in replies' : r.kind = "register" => Tells(r.form, r.req, r.status)'
    BY <1>1, <2>1, <2>2 DEF Told
  <2>4. ASSUME NEW v \in Workers, v # w, ctx'[v].pc = "answer", ctx'[v].kind = "register"
        PROVE  Tells(ctx[v].form, ctx[v].req, ctx[v].status)'
    BY <1>1, <1>5, <1>6, <1>7, <1>8, <2>4 DEF Tells, Told, Numbered, Busy
  <2>5. ASSUME ctx'[w].form = form, ctx'[w].req = ctx[w].req
        PROVE  Tells(ctx[w].form, ctx[w].req, ctx[w].status)'
    <3>1. ctx'[w].status = status
      BY <1>4, <1>7
    <3>2. status = "409" =>
            form.username \in DOMAIN users' /\ users'[form.username].by # ctx[w].req
      BY <1>1, <1>2, <1>6 DEF Numbered
    <3>3. form.username \in DOMAIN users' /\ users'[form.username].by = ctx[w].req =>
            users'[form.username] = row /\ Acceptable(form)
      BY <1>1, <1>6 DEF Numbered
    <3> QED
      BY <1>2, <1>5, <1>6, <1>8, <2>5, <3>1, <3>2, <3>3 DEF Tells
  <2> QED
    BY <1>4, <1>7, <2>3, <2>4, <2>5 DEF Told
<1>12. \A v \in Workers : Placed(v)'
  <2> TAKE v \in Workers
  <2>1. CASE v = w
    BY <1>4, <1>7, <2>1 DEF Placed
  <2>2. CASE v # w
    BY <1>1, <1>6, <1>7, <1>8, <2>2 DEF Placed
  <2> QED
    BY <2>1, <2>2
<1>13. Opened'
  BY <1>1, <1>6, <1>8 DEF Opened, Tokens
<1>14. Run' \notin raced' => Apart'
  <2>1. c.pc = "answer" /\ c.status # "200"
    BY <1>2, <1>4
  <2> QED
    BY <1>1, <1>7, <1>8, <2>1 DEF Apart, Tokens, Drawn
<1> QED
  BY <1>9, <1>10, <1>11, <1>12, <1>13, <1>14

LEMMA AnswerKeepsAInv ==
  ASSUME AInv, NEW w \in Workers, Answer(w)
  PROVE  AInv'
<1> USE DEF AInv
<1> DEFINE c == ctx[w]
           reply == [req |-> c.req, kind |-> c.kind, form |-> c.form, status |-> c.status,
                     token |-> IF c.status = "200" THEN c.draws ELSE None]
<1>1. /\ c.pc = "answer" /\ Busy(w)
      /\ replies \subseteq replies' /\ replies' \subseteq replies \cup {reply}
      /\ ctx' = [ctx EXCEPT ![w] = NoHandler]
      /\ UNCHANGED <<users, sessions, gen, raced, spent>> /\ Run' = Run
  BY DEF Answer, Busy, Run
<1>2. /\ ctx'[w] = NoHandler /\ \A v \in Workers : v # w => ctx'[v] = ctx[v]
      /\ NoHandler = [f \in Locals |-> NoHandler[f]] /\ NoHandler.pc = "idle"
      /\ NoHandler.draws = <<>>
  BY <1>1 DEF Shaped, NoHandler, Locals
<1>3. /\ reply.req = c.req /\ reply.kind = c.kind /\ reply.form = c.form
      /\ reply.status = c.status
      /\ reply.token = IF c.status = "200" THEN c.draws ELSE None
  OBVIOUS
<1> HIDE DEF reply
<1>4. Shaped'
  BY <1>1, <1>2 DEF Shaped, AccountPcs
<1>5. Numbered'
  <2>1. \A v \in Workers : Busy(v)' => v # w /\ Busy(v) /\ ctx'[v] = ctx[v]
    BY <1>2 DEF Busy
  <2>2. \A v \in Workers : ctx'[v].pc = "insert" => v # w /\ ctx'[v] = ctx[v]
    BY <1>2
  <2> QED
    BY <1>1, <1>3, <2>1, <2>2 DEF Numbered
<1>6. Told'
  <2>1. \A r \in replies' : r.kind = "register" => Tells(r.form, r.req, r.status)
    BY <1>1, <1>3 DEF Told
  <2>2. \A v \in Workers : ctx'[v].pc = "answer" => v # w /\ ctx'[v] = ctx[v]
    BY <1>2
  <2> QED
    BY <1>1, <2>1, <2>2 DEF Told, Tells
<1>7. \A v \in Workers : Placed(v)'
  <2> TAKE v \in Workers
  <2>1. CASE v = w
    BY <1>2, <2>1 DEF Placed
  <2>2. CASE v # w
    BY <1>1, <1>2, <2>2 DEF Placed
  <2> QED
    BY <2>1, <2>2
\* A token handed out now opens a session.
<1>8. \A r \in Tokens' : r \notin Tokens =>
        /\ r = reply /\ c.status = "200" /\ c.draws \in DOMAIN sessions
        /\ c.form.username \in DOMAIN users
  BY <1>1, <1>3 DEF Tokens, Placed
<1>9. Opened'
  <2>1. \A r \in Tokens' : /\ \E run \in 0..Run : IsToken(r.token, run)
                           /\ RunOf(r.token) = Run => r.token \in DOMAIN sessions
                           /\ r.form.username \in DOMAIN users
    <3>1. Run \in 0..Run
      BY SpentIsTyped DEF Run, Shaped
    <3> QED
      BY <1>3, <1>8, <3>1 DEF Opened
  <2> QED
    BY <1>1, <2>1 DEF Opened
<1>10. Run' \notin raced' => Apart'
  <2> SUFFICES ASSUME Run' \notin raced' PROVE Apart'
    OBVIOUS
  <2>1. Apart
    BY <1>1
  <2>2. \A v \in Workers : /\ Drawn(v)' => v # w /\ Drawn(v) /\ ctx'[v] = ctx[v]
                           /\ ctx'[v].pc = "drawStep" => v # w /\ ctx'[v] = ctx[v]
                           /\ ctx'[v].pc = "answer" => v # w /\ ctx'[v] = ctx[v]
    BY <1>2 DEF Drawn
  <2>3. \A r \in Tokens' : RunOf(r.token) = Run =>
          sessions[r.token].username = r.form.username
    BY <1>1, <1>3, <1>8, <2>1 DEF Apart
  <2> QED
    BY <1>1, <2>1, <2>2, <2>3 DEF Apart
<1> QED
  BY <1>4, <1>5, <1>6, <1>7, <1>9, <1>10

LEMMA AccountStepKeepsAInv ==
  ASSUME AInv, NEW w \in Workers, AccountStep(w)
  PROVE  AInv'
  BY InsertUserKeepsAInv, FindUserKeepsAInv, DrawReadKeepsAInv, DrawStepKeepsAInv,
     StoreKeepsAInv, AnswerKeepsAInv DEF AccountStep
-----------------------------------------------------------------------------
\* What no step but a crash takes back: rows, sessions, and tokens that were
\* handed out; a session keeps its account while no draws overlap.
Grown ==
  /\ Run' = Run /\ raced \subseteq raced'
  /\ spent'.requests >= spent.requests /\ spent'.faults >= spent.faults
  /\ \A u \in DOMAIN users : u \in DOMAIN users' /\ users'[u] = users[u]
  /\ DOMAIN sessions \subseteq DOMAIN sessions'
  /\ Run \notin raced => \A t \in DOMAIN sessions : sessions'[t] = sessions[t]
  /\ replies \subseteq replies'
  /\ \A r \in Tokens' \ Tokens : r.token \in DOMAIN sessions

LEMMA AccountStepGrows ==
  ASSUME AInv, NEW w \in Workers, AccountStep(w)
  PROVE  Grown
<1> USE DEF AInv
<1>1. /\ NoFault \/ Fault => /\ Run' = Run /\ spent'.requests = spent.requests
                             /\ spent'.faults >= spent.faults
                             /\ spent'.requests >= spent.requests
      /\ UNCHANGED spent => NoFault
  BY Counters, SpentIsTyped DEF Shaped, NoFault
<1>2. CASE InsertUser(w)
  BY <1>1, <1>2 DEF InsertUser, With, Grown, Tokens
<1>3. CASE FindUser(w)
  BY <1>1, <1>3 DEF FindUser, Grown, Tokens
<1>4. CASE DrawRead(w)
  BY <1>1, <1>4 DEF DrawRead, Grown, Tokens
<1>5. CASE DrawStep(w)
  BY <1>1, <1>5 DEF DrawStep, Grown, Tokens
<1>6. CASE Store(w)
  <2>1. ctx[w].draws # <<>>
    BY <1>6, TokensAreNotEmpty DEF Store, Placed
  <2>2. Run \notin raced => ctx[w].draws \notin DOMAIN sessions
    BY <1>6, <2>1 DEF Store, Apart, Drawn
  <2> QED
    BY <1>1, <1>6, <2>2 DEF Store, With, Grown, Tokens
<1>7. CASE Answer(w)
  <2>1. \A r \in Tokens' \ Tokens : r.token \in DOMAIN sessions
    BY <1>7 DEF Answer, Tokens, Placed
  <2> QED
    BY <1>1, <1>7, <2>1 DEF Answer, Grown
<1> QED
  BY <1>2, <1>3, <1>4, <1>5, <1>6, <1>7 DEF AccountStep

\* The properties of Accounts, from the invariant.
LEMMA AInvTells == AInv => AnswersTellTheTable
  BY DEF AInv, Told, Tells, AnswersTellTheTable, Created

LEMMA AInvOpens == AInv => TokenOpensItsAccount
<1> SUFFICES ASSUME AInv PROVE TokenOpensItsAccount
  OBVIOUS
<1>1. \A t \in DOMAIN sessions : RunOf(t) = Run
  BY DEF AInv, Opened, IsToken, RunOf
<1> QED
  BY <1>1 DEF AInv, Opened, Apart, TokenOpensItsAccount

LEMMA AInvTypes == AInv => TypeOK
<1> SUFFICES ASSUME AInv PROVE TypeOK
  OBVIOUS
<1> USE DEF AInv
<1>1. ASSUME NEW w \in Workers
      PROVE  ctx[w].draws \in Seq(Draws)
  <2>1. ctx[w].pc \in AccountPcs /\ <<>> \in Seq(Draws)
    BY DEF Shaped
  <2>2. \A t \in DOMAIN sessions : t \in Seq(Draws)
    BY DEF Opened, IsToken
  <2> QED
    BY <2>1, <2>2 DEF AccountPcs, Placed, IsBegun, IsToken
<1> QED
  BY <1>1 DEF TypeOK, Shaped, Numbered, Opened, IsToken
=============================================================================
