----------------------------- MODULE Catalogue ------------------------------
(***************************************************************************)
(* The product catalogue beside the accounts: a request is routed, its     *)
(* token is looked up in SessionStore, and ProductController speaks to the *)
(* table Products through ProductService and ProductRepository.  Its       *)
(* handlers and those of Accounts share the workers and the token store;   *)
(* the next-state relation at the end is that of both.                     *)
(*                                                                         *)
(* What a product is called and costs is left out: a row is known by the   *)
(* request that added it.  A row that an order's line refers to cannot be  *)
(* deleted; the lines come from checkouts (OrderFlow), here a step of      *)
(* their own.  An error text that is not JSON is the status "garbled" of a *)
(* repository call.                                                        *)
(***************************************************************************)
EXTENDS Accounts, Router

CONSTANTS Methods, Paths,   \* what clients ask for
          Numerals,         \* what std::stoi makes of a text, where it does not throw
          Forged            \* texts that clients send as tokens and generate_token never makes

ASSUME ForgedIsNoToken == Forged \cap Seq(Nat \X Nat) = {}
ASSUME MoreBounds == {"edits", "orders"} \subseteq DOMAIN Bound

VARIABLES products,   \* Products: the ids that exist
          added,      \* by id, the request that added the row; ids are never reused
          ordered,    \* the products that lines of orders refer to
          job,        \* the product handler each worker runs, with its locals
          answers     \* the replies clients have had to additions and deletions

shopVars == <<products, added, ordered, job, answers>>
vars == <<accountVars, shopVars>>

NoJob == [pc |-> "idle", handler |-> "none", req |-> 0, id |-> 0, token |-> None,
          good |-> FALSE, status |-> "none"]

Working(w) == Busy(w) \/ job[w].pc # "idle"

Init ==
  /\ AccountsInit
  /\ products = {1}
  /\ added = <<0>>
  /\ ordered = {}
  /\ job = [w \in Workers |-> NoJob]
  /\ answers = {}
-----------------------------------------------------------------------------
(***************************************************************************)
(* Faulty variants of the definitions below, not part of the               *)
(* specification: each is a mistake that some property catches.            *)
(***************************************************************************)
\* Every handler is content with any account.
RoleForAnyone(handler) == None

\* 200 whether or not a row was there.
RemovedAnyway(id) == "200"
-----------------------------------------------------------------------------
Tokenless == {"get_products", "get_product", "update_product"}
NeedsToken == {"add_product", "delete_product"}
RequiredRole(handler) == IF handler = "delete_product" THEN "admin" ELSE None
NeedsId == {"get_product", "delete_product", "update_product"}
NeedsBody == {"add_product", "update_product"}

BadId(r) == r.handler \in NeedsId /\ r.text \notin DOMAIN Numerals
BadBody(r) == r.handler \in NeedsBody /\ ~r.good

\* Where a routed request goes: to the token check, to its statement, or
\* straight to a reply.
FirstStep(r) ==
  CASE r.handler \in NeedsToken -> "auth"
    [] r.handler \in Tokenless /\ ~BadId(r) /\ ~BadBody(r) -> "statement"
    [] OTHER -> "answer"
FirstStatus(r) ==
  CASE FirstStep(r) # "answer" -> "none"
    [] r.handler = "not_found" -> "404"
    [] r.handler = "home" -> "200"
    [] OTHER -> "400"

\* A worker runs the task of a session: the router finds the handler, which
\* begins.  The accounts' and the orders' handlers are modelled elsewhere.  A
\* client sends a token that some client was given, a forged one, or none; a
\* header without "Bearer " counts as none.
Request(w) ==
  /\ ~Working(w)
  /\ Asks("edits")
  /\ \E method \in Methods, path \in Paths, good \in BOOLEAN,
        token \in {r.token : r \in Tokens} \cup Forged \cup {None} :
       LET found == Route(method, path)
           text == IF "id" \in DOMAIN found.params THEN found.params["id"] ELSE ""
           r == [handler |-> found.handler, text |-> text, good |-> good]
       IN  /\ found.handler \in NeedsToken \cup Tokenless \cup {"home", "not_found"}
           /\ job' = [job EXCEPT ![w] =
                [pc |-> FirstStep(r), handler |-> found.handler, req |-> ThisRequest,
                 id |-> IF found.handler \in NeedsId /\ ~BadId(r) THEN Numerals[text] ELSE 0,
                 token |-> IF found.handler \in NeedsToken THEN token ELSE None,
                 good |-> ~BadId(r) /\ ~BadBody(r),
                 status |-> FirstStatus(r)]]
  /\ UNCHANGED <<users, sessions, gen, ctx, replies, raced, products, added, ordered, answers>>

\* require_auth, under the store's mutex; only then is the rest of the
\* request looked at.
CheckToken(w) ==
  LET verdict == Authorise(job[w].token, RequiredRole(job[w].handler))
      Goes == verdict = "ok" /\ job[w].good
  IN  /\ job[w].pc = "auth"
      /\ job' = [job EXCEPT ![w].pc = IF Goes THEN "statement" ELSE "answer",
                            ![w].status = IF Goes THEN "none"
                                          ELSE IF verdict = "ok" THEN "400" ELSE verdict]
      /\ UNCHANGED <<accountVars, products, added, ordered, answers>>

Status(w, status) == job' = [job EXCEPT ![w].pc = "answer", ![w].status = status]

\* INSERT INTO Products.  The reply is 201 whatever the repository says; a
\* fault leaves the row out, or lies in SQLEndTran and leaves it in.
InsertProduct(w) ==
  /\ job[w].pc = "statement" /\ job[w].handler = "add_product"
  /\ \/ /\ NoFault \/ Fault
        /\ products' = products \cup {Len(added) + 1}
        /\ added' = Append(added, job[w].req)
     \/ Fault /\ UNCHANGED <<products, added>>
  /\ Status(w, "201")
  /\ UNCHANGED <<users, sessions, gen, ctx, replies, raced, ordered, answers>>

\* What SQLRowCount says of a statement WHERE id = ?.
RowsTell(id) == IF id \in products THEN "200" ELSE "404"

\* DELETE FROM Products.  When the statement itself fails, because a line
\* refers to the row or by a fault, the repository's text lacks its last brace
\* and the controller cannot read it; the other errors it can.
RemoveProduct(w) ==
  /\ job[w].pc = "statement" /\ job[w].handler = "delete_product"
  /\ \/ /\ job[w].id \in ordered /\ NoFault
        /\ Status(w, "500") /\ UNCHANGED products
     \/ /\ job[w].id \notin ordered /\ NoFault
        /\ products' = products \ {job[w].id}
        /\ Status(w, RowsTell(job[w].id))
     \/ /\ Fault
        /\ \E status \in {"400", "500"} : Status(w, status)
        /\ UNCHANGED products
     \/ /\ job[w].id \notin ordered /\ Fault
        /\ products' = products \ {job[w].id}
        /\ Status(w, "400")
  /\ UNCHANGED <<users, sessions, gen, ctx, replies, raced, added, ordered, answers>>

\* UPDATE Products, and the two SELECTs: none changes which products exist.
\* An update that fails is answered 400.  A read whose statement fails is
\* answered 200 with the text of the error, and a product that is not there
\* likewise; when dump throws over what it has read, get_product catches the
\* exception and answers 400, and get_products leaves it to the router's 500.
UpdateOrRead(w) ==
  /\ job[w].pc = "statement" /\ job[w].handler \in Tokenless
  /\ IF job[w].handler = "update_product"
     THEN (NoFault /\ Status(w, RowsTell(job[w].id))) \/ (Fault /\ Status(w, "400"))
     ELSE \/ (NoFault \/ Fault) /\ Status(w, "200")
          \/ Fault /\ Status(w, IF job[w].handler = "get_product" THEN "400" ELSE "500")
  /\ UNCHANGED <<users, sessions, gen, ctx, replies, raced, products, added, ordered, answers>>

\* The reply reaches the client; those of additions and deletions are kept, if
\* the token was found.
Deliver(w) ==
  /\ job[w].pc = "answer"
  /\ answers' = IF job[w].handler \in NeedsToken /\ job[w].status # "401"
                THEN answers \cup {[req |-> job[w].req, handler |-> job[w].handler,
                                    id |-> job[w].id, token |-> job[w].token,
                                    status |-> job[w].status, run |-> Run]}
                ELSE answers
  /\ job' = [job EXCEPT ![w] = NoJob]
  /\ UNCHANGED <<accountVars, products, added, ordered>>

\* A checkout on a worker that is free inserts a line for a product.
OrderLine(w) ==
  /\ ~Working(w)
  /\ Spend("orders")
  /\ \E id \in products : ordered' = ordered \cup {id}
  /\ UNCHANGED <<users, sessions, gen, ctx, replies, raced, products, added, job, answers>>

ShopStep(w) ==
  \/ Request(w) \/ CheckToken(w) \/ InsertProduct(w) \/ RemoveProduct(w)
  \/ UpdateOrRead(w) \/ Deliver(w) \/ OrderLine(w)

Crash ==
  /\ LoseAccounts
  /\ job' = [w \in Workers |-> NoJob]
  /\ UNCHANGED <<products, added, ordered, answers>>

Next ==
  \/ \E w \in Workers, form \in Forms :
       /\ ~Working(w)
       /\ Register(w, form) \/ Login(w, form)
       /\ UNCHANGED shopVars
  \/ \E w \in Workers : AccountStep(w) /\ UNCHANGED shopVars
  \/ \E w \in Workers : ShopStep(w)
  \/ Crash

Spec == Init /\ [][Next]_vars
-----------------------------------------------------------------------------
JobPcs == {"idle", "auth", "statement", "answer"}

ShopTypeOK ==
  /\ TypeOK
  /\ products \subseteq DOMAIN added /\ ordered \subseteq products
  /\ added \in Seq(0..spent.requests)
  /\ \A w \in Workers : /\ job[w].pc \in JobPcs /\ job[w].req \in 0..spent.requests
                        /\ ~(Busy(w) /\ job[w].pc # "idle")
                        /\ job[w].pc = "statement" => job[w].good

\* What gets past require_auth, out of the tokens of this and earlier runs and
\* forged ones: a client whose token was given out by this run of the process
\* and, where the handler asks for a role, an account that has
\* it, unless two logins of this run drew their tokens at once.  The check is
\* made before the statement, and other logins store tokens in between.
GuardedByItsToken ==
  \A a \in answers :
    /\ a.token # None /\ RunOf(a.token) = a.run
    /\ \E r \in Tokens : r.token = a.token
    /\ a.status # "403" /\ a.run \notin raced =>
         \A r \in Tokens : r.token = a.token /\ a.handler = "delete_product" =>
           users[r.form.username].role = "admin"

\* The replies fit together and fit the table, whatever other workers, failing
\* statements and crashes do: of two deletes of one product at most one is
\* answered 200, and the product then is gone for good; a delete answered 500
\* has left an ordered product where it was, unless a statement failed; and
\* each addition answered 201 has added exactly one product, unless a
\* statement failed.
AnswersTellTheCatalogue ==
  \A a \in answers :
    /\ a.handler = "delete_product" /\ a.status = "200" =>
         /\ a.id \in DOMAIN added \ products
         /\ \A b \in answers :
              b.handler = "delete_product" /\ b.id = a.id /\ b.status = "200" => b = a
    /\ a.handler = "delete_product" /\ a.status = "500" /\ spent.faults = 0 =>
         a.id \in ordered
    /\ a.handler = "add_product" /\ a.status = "201" =>
         LET ids == {id \in DOMAIN added : added[id] = a.req}
         IN  Cardinality(ids) = 1 \/ (spent.faults > 0 /\ ids = {})

\* Before the first request the table of routes is complete: every request gets
\* the handler that a plain reading of the table gives it.
RouterFindsTheRoute ==
  Init => FindsTheRoute(Methods, {"", "products", "orders", "order", "1", "x"})
=============================================================================
