------------------------------ MODULE Accounts ------------------------------
(***************************************************************************)
(* Accounts and tokens: AuthController and UserRepository over the table   *)
(* Users, and SessionStore, the map from tokens to accounts that lives in  *)
(* the process.  Registrations and logins run on the workers, several at a *)
(* time; the module Catalogue puts the handlers that ask for a token       *)
(* beside them and has the complete next-state relation.                   *)
(*                                                                         *)
(* A statement is one step, and commits by itself (autocommit is never     *)
(* turned off), so that a failing SQLEndTran reports an error over a row   *)
(* that is there.  The login column has a unique index, which create_user  *)
(* relies on.  A token is two draws from one generator that all workers    *)
(* share without a lock.  A crash loses the map and reseeds the generator. *)
(*                                                                         *)
(* A username is a record [id, length, plain], plain if each character is  *)
(* a letter, a digit, an underscore or a dot; a password is [id, length].  *)
(* A registration that is not JSON or lacks a field ends like a form that  *)
(* is not acceptable.                                                      *)
(***************************************************************************)
EXTENDS Integers, Sequences, FiniteSets

CONSTANTS Workers,        \* the worker threads that run handlers
          Forms,          \* username, password and role, as clients send them
          InitialForms,   \* those whose accounts exist from the start
          Bound,          \* bounds: how often each kind of event may happen
          None            \* no form, no role, no token

ASSUME FormsAreTyped ==
  /\ InitialForms \subseteq Forms
  /\ \A f, g \in InitialForms : f.username = g.username => f = g
  /\ \A f \in InitialForms : f.role \in {"admin", "employee"}
  /\ \A f \in Forms : /\ f.username.length \in Nat /\ f.username.plain \in BOOLEAN
                      /\ f.password.length \in Nat
ASSUME NoneIsNothing == None \notin {"admin", "employee"} \cup Seq(Nat \X Nat)
ASSUME BoundsAreTyped ==
  /\ {"requests", "registers", "logins", "mishaps"} \subseteq DOMAIN Bound
  /\ \A what \in DOMAIN Bound : Bound[what] \in Nat

VARIABLES users,      \* Users: hash_password and role by login, and the request
                      \* that inserted the row
          sessions,   \* SessionStore::sessions: username and role by token
          gen,        \* the position of the generator in generate_token
          ctx,        \* the account handler each worker runs, with its locals
          replies,    \* the replies clients have had from it, but for refused logins
          raced,      \* the runs of the process in which draws overlapped
          spent       \* how much of each bound is used up

accountVars == <<users, sessions, gen, ctx, replies, raced, spent>>

NoHandler == [pc |-> "idle", kind |-> "none", req |-> 0, form |-> None, role |-> None,
              seen |-> 0, draws |-> <<>>, status |-> "none"]

Run == spent.crashes      \* the process counts as a new one after each crash
Spend(what) == spent[what] < Bound[what] /\ spent' = [spent EXCEPT ![what] = @ + 1]
Mishap(kind) ==   \* a failing statement, or a crash
  /\ spent.faults + spent.crashes < Bound["mishaps"]
  /\ spent' = [spent EXCEPT ![kind] = @ + 1]
Fault == Mishap("faults")
NoFault == UNCHANGED spent
Asks(kind) ==   \* a client sends a request of that kind
  /\ spent.requests < Bound["requests"] /\ spent[kind] < Bound[kind]
  /\ spent' = [spent EXCEPT !.requests = @ + 1, ![kind] = @ + 1]
ThisRequest == spent.requests + 1

With(f, k, v) == [x \in DOMAIN f \cup {k} |-> IF x = k THEN v ELSE f[x]]

Counted == (DOMAIN Bound \cup {"faults", "crashes"}) \ {"mishaps"}

\* hash_password and verify_password: only the password itself verifies.
Hash(password) == <<"pbkdf2", password>>
Verifies(password, stored) == stored = Hash(password)

AccountsInit ==
  /\ users = [u \in {f.username : f \in InitialForms} |->
                LET f == CHOOSE g \in InitialForms : g.username = u
                IN  [hash |-> Hash(f.password), role |-> f.role, by |-> 0]]
  /\ sessions = <<>>
  /\ gen = 0
  /\ ctx = [w \in Workers |-> NoHandler]
  /\ replies = {}
  /\ raced = {}
  /\ spent = [what \in Counted |-> 0]
-----------------------------------------------------------------------------
(***************************************************************************)
(* Faulty variants of the definitions below, not part of the               *)
(* specification: each is a mistake that some property catches.            *)
(***************************************************************************)
\* An account of that name is replaced.
InsertUserOverwriting(w) ==
  /\ ctx[w].pc = "insert"
  /\ NoFault
  /\ users' = With(users, ctx[w].form.username,
                   [hash |-> Hash(ctx[w].form.password), role |-> ctx[w].form.role,
                    by |-> ctx[w].req])
  /\ ctx' = [ctx EXCEPT ![w].pc = "answer", ![w].status = "201"]
  /\ UNCHANGED <<sessions, gen, replies, raced>>

\* The generator is seeded for every token.
DrawStepReseeding(w) ==
  /\ ctx[w].pc = "drawStep"
  /\ gen' = IF ctx[w].draws = <<>> THEN ctx[w].seen + 1 ELSE 0
  /\ ctx' = [ctx EXCEPT ![w].draws = Append(@, <<Run, ctx[w].seen>>),
               ![w].pc = IF ctx[w].draws = <<>> THEN "drawRead" ELSE "store"]
  /\ UNCHANGED <<users, sessions, replies, raced, spent>>

\* The role is not looked at.
AcceptableAnyRole(form) ==
  form.username.length \in 3..50 /\ form.username.plain /\ form.password.length \in 8..128
-----------------------------------------------------------------------------
Busy(w) == ctx[w].pc # "idle"

ValidUsername(username) == username.length \in 3..50 /\ username.plain
ValidPassword(password) == password.length \in 6..128 /\ password.length >= 8
Acceptable(form) ==
  /\ ValidUsername(form.username)
  /\ ValidPassword(form.password)
  /\ form.role \in {"admin", "employee"}

\* POST /register reaches a worker: the form is looked at before the table is.
Register(w, form) ==
  /\ ~Busy(w)
  /\ Asks("registers")
  /\ ctx' = [ctx EXCEPT ![w] =
       [NoHandler EXCEPT !.kind = "register", !.req = ThisRequest, !.form = form,
                         !.pc = IF Acceptable(form) THEN "insert" ELSE "answer",
                         !.status = IF Acceptable(form) THEN "none" ELSE "400"]]
  /\ UNCHANGED <<users, sessions, gen, replies, raced>>

\* INSERT INTO Users: the unique index decides between two of one name.  A
\* fault before the insert leaves no row; one in SQLEndTran leaves the row.
InsertUser(w) ==
  LET name == ctx[w].form.username
      New == With(users, name, [hash |-> Hash(ctx[w].form.password),
                                role |-> ctx[w].form.role, by |-> ctx[w].req])
      Outcome(table, status) ==
        /\ users' = table
        /\ ctx' = [ctx EXCEPT ![w].pc = "answer", ![w].status = status]
  IN  /\ ctx[w].pc = "insert"
      /\ \/ name \notin DOMAIN users /\ NoFault /\ Outcome(New, "201")
         \/ name \in DOMAIN users /\ NoFault /\ Outcome(users, "409")
         \/ Fault /\ Outcome(users, "400")
         \/ name \notin DOMAIN users /\ Fault /\ Outcome(New, "400")
      /\ UNCHANGED <<sessions, gen, replies, raced>>

\* POST /login reaches a worker, with a body that can be read or not; it has
\* no role.
Login(w, form) ==
  /\ ~Busy(w)
  /\ Asks("logins")
  /\ \E readable \in BOOLEAN :
       ctx' = [ctx EXCEPT ![w] =
         [NoHandler EXCEPT !.kind = "login", !.req = ThisRequest,
                           !.form = [form EXCEPT !.role = None],
                           !.pc = IF readable THEN "find" ELSE "answer",
                           !.status = IF readable THEN "none" ELSE "400"]]
  /\ UNCHANGED <<users, sessions, gen, replies, raced>>

\* find_by_username and verify_password.  A failing statement looks like an
\* unknown name: its result is not checked.
FindUser(w) ==
  LET form == ctx[w].form
      Known == /\ form.username \in DOMAIN users
               /\ Verifies(form.password, users[form.username].hash)
  IN  /\ ctx[w].pc = "find"
      /\ \/ /\ Known /\ NoFault
            /\ ctx' = [ctx EXCEPT ![w].pc = "drawRead",
                                  ![w].role = users[form.username].role]
         \/ /\ (~Known /\ NoFault) \/ Fault
            /\ ctx' = [ctx EXCEPT ![w].pc = "answer", ![w].status = "401"]
      /\ UNCHANGED <<users, sessions, gen, replies, raced>>

\* generate_token: two draws, each of which reads the state of the generator
\* that all workers share and then advances it.  When another worker is
\* between the two, both get one number, and the later one sets the generator
\* back by what was drawn in between.
DrawRead(w) ==
  /\ ctx[w].pc = "drawRead"
  /\ ctx' = [ctx EXCEPT ![w].pc = "drawStep", ![w].seen = gen]
  /\ raced' = IF \E v \in Workers : ctx[v].pc = "drawStep" THEN raced \cup {Run} ELSE raced
  /\ UNCHANGED <<users, sessions, gen, replies, spent>>

DrawStep(w) ==
  /\ ctx[w].pc = "drawStep"
  /\ gen' = ctx[w].seen + 1
  /\ ctx' = [ctx EXCEPT ![w].draws = Append(@, <<Run, ctx[w].seen>>),
               ![w].pc = IF ctx[w].draws = <<>> THEN "drawRead" ELSE "store"]
  /\ UNCHANGED <<users, sessions, replies, raced, spent>>

\* create_token, under the store's mutex: an entry of that token is replaced.
\* The username is that of the row, which is the form's: the table compares
\* names as they are written, as the find by form.username has it.
Store(w) ==
  /\ ctx[w].pc = "store"
  /\ sessions' = With(sessions, ctx[w].draws,
                      [username |-> ctx[w].form.username, role |-> ctx[w].role])
  /\ ctx' = [ctx EXCEPT ![w].pc = "answer", ![w].status = "200"]
  /\ UNCHANGED <<users, gen, replies, raced, spent>>

\* The reply reaches the client.  Those of registrations are kept, and those
\* that bring a token; a login that was refused leaves nothing to tell.
Answer(w) ==
  /\ ctx[w].pc = "answer"
  /\ replies' =
       IF ctx[w].kind = "register" \/ ctx[w].status = "200"
       THEN replies \cup {[req |-> ctx[w].req, kind |-> ctx[w].kind,
                           form |-> ctx[w].form, status |-> ctx[w].status,
                           token |-> IF ctx[w].status = "200" THEN ctx[w].draws ELSE None]}
       ELSE replies
  /\ ctx' = [ctx EXCEPT ![w] = NoHandler]
  /\ UNCHANGED <<users, sessions, gen, raced, spent>>

AccountStep(w) ==
  \/ InsertUser(w) \/ FindUser(w) \/ DrawRead(w) \/ DrawStep(w) \/ Store(w) \/ Answer(w)

\* The process dies and is started again: the table stays, the map is empty,
\* and the generator has a new seed.
LoseAccounts ==
  /\ Mishap("crashes")
  /\ sessions' = <<>>
  /\ gen' = 0
  /\ ctx' = [w \in Workers |-> NoHandler]
  /\ UNCHANGED <<users, replies, raced>>

\* What SessionStore::find and require_auth make of the token of a request;
\* required is the role asked for, or None.
Authorise(token, required) ==
  IF token \notin DOMAIN sessions THEN "401"
  ELSE IF required # None /\ sessions[token].role # required THEN "403" ELSE "ok"
-----------------------------------------------------------------------------
AccountPcs == {"idle", "insert", "find", "drawRead", "drawStep", "store", "answer"}
Draws == Nat \X Nat

TypeOK ==
  /\ \A u \in DOMAIN users : users[u].role \in {"admin", "employee"}
  /\ \A t \in DOMAIN sessions : t \in Seq(Draws) /\ Len(t) = 2
  /\ gen \in Nat
  /\ \A w \in Workers : ctx[w].pc \in AccountPcs /\ ctx[w].draws \in Seq(Draws)
  /\ spent \in [Counted -> Nat]
  /\ raced \subseteq 0..Run

Created(r) ==
  r.form.username \in DOMAIN users /\ users[r.form.username].by = r.req

\* What a registration is told agrees with the table from then on, whoever
\* registers the name at the same time and whatever crashes: after 201 the
\* account is there, after 409 it is somebody else's, and without a failing
\* statement a 400 has created nothing; and whatever the client was told, an
\* account that its request created has the password and the role it asked for.
AnswersTellTheTable ==
  \A r \in replies : r.kind = "register" =>
    /\ Created(r) => /\ Acceptable(r.form)
                     /\ Verifies(r.form.password, users[r.form.username].hash)
                     /\ users[r.form.username].role = r.form.role
    /\ r.status = "201" => Created(r)
    /\ r.status = "409" => r.form.username \in DOMAIN users /\ ~Created(r)
    /\ r.status = "400" /\ spent.faults = 0 => ~Acceptable(r.form) /\ ~Created(r)

Tokens == {r \in replies : r.token # None}
RunOf(token) == token[1][1]

\* A token opens a session in the run of the process that gave it out, and in
\* no other.  As long as no two workers draw at once in that run, the session
\* is that of the account that logged in, with the account's role, whatever
\* other logins do between the draws; and even if they do, no session speaks
\* for an account that is not in the table, or with a role it has not.
TokenOpensItsAccount ==
  /\ \A r \in Tokens :
       /\ r.token \in DOMAIN sessions <=> RunOf(r.token) = Run
       /\ RunOf(r.token) = Run /\ Run \notin raced =>
            sessions[r.token].username = r.form.username
  /\ \A t \in DOMAIN sessions :
       /\ sessions[t].username \in DOMAIN users
       /\ sessions[t].role = users[sessions[t].username].role
=============================================================================
