# A TLA+ model of the order server

The repository is an HTTPS order server in C++: Boost.Asio sessions on one io
thread, a thread pool that runs the request handlers, a pool of ODBC connections,
and repositories that speak SQL to the tables of a shop. These modules model the
parts of it in which order, interleaving and failure matter. TLC checks them on
small instances; TLAPS proves every safety property that a run checks, and every refinement, for
every value of the constants. Liveness stays with TLC.

File and line references are to the sources at the commit the modules describe.

## 1. The system

### Components

| Component | Sources | State it keeps | Operations |
|---|---|---|---|
| Main | `Source.cpp` | the objects below, built in order and destroyed in reverse | start, run the io loop, end |
| Server | `Server.*` | acceptor, TLS context | accept a connection and start a `Session` |
| Session | `Session.*` | `buffer`, parser state, `keep_alive`, `write_queue`, `writing` | handshake, read, parse, dispatch, write, shut down |
| Thread pool | `ThreadPool.*` | one `WorkQueue` of three deques for each worker, `task_count`, `stop`, round-robin index | `submit`, `push`, `pop`, `DoWork`, `wait`, `shutdown` |
| Router | `Router.h`, `Structs.h` | the route table, fixed before the server starts | match a path, call the handler |
| Connection pool | `ConnectionPool.*` | queue of ODBC connections | `acquire`, `release` through `LeasedConnection` |
| Orders and payments | `OrderRepository.*`, `PaymentController.*`, `PaymentRepository.*` | tables Orders, OrderItems, Payments (and the stock in Products) | checkout, payment callback, reads |
| Product catalogue | `Product*.{h,cpp}` | table Products | list, get, add, update, delete |
| Accounts | `AuthController.*`, `AuthMiddleware.h`, `SessionStore.h`, `UserRepository.*`, `Validation.h`, `PasswordHash.h` | table Users, the map of tokens | register, log in, check a token and its role |
| Payment codecs | `LiqPayHelper.h`, `FormParser.h` | none | encode, sign, verify, decode |
| Configuration and log | `Config.h`, `Logger.h` | the file of the log | load, write a line |

### How they interact

    client ==TLS== Session --submit--> ThreadPool --task--> Router --> handler
                      ^                                                   |
                      +------ post to the io thread <---- reply ----------+
                                                                          |
                       ConnectionPool <--acquire/release-- repositories <-+
                                                                |
                                                             database

* The io thread runs every completion handler of every session, and it is the only
  thread that calls `submit`. When the limit of 100 tasks or one queue of 64 is full,
  `submit` blocks it, and with it every connection.
* A handler runs on a worker. Each repository call takes a connection, runs a few
  statements and gives it back; nothing keeps a connection between two calls.
* A worker's reply reaches its session by `post`, twice: `process_request` posts
  `send_response_safe`, which posts `send_response`.
* Shared state without a lock: the generators behind `generate_payment_ref`
  (PaymentController.cpp:30-39) and `SessionStore::generate_token` (SessionStore.h:59).
* Shared state that is locked on one side only: `stop` and `task_count`, which the
  predicates of waiting threads read, are set outside the mutex of the condition
  variable that is then notified.

### What is hard, and what makes each part correct

* **Thread pool.** Three condition variables over two kinds of mutex; notifications
  after the unlock; a shutdown that notifies without the queues' mutexes; a limit counted
  under one mutex and lowered under none. Correct when no task is lost, doubled or run
  twice, the counter counts what is unfinished, nobody sleeps on work or on room,
  accepted tasks are run, and `shutdown` returns only when they have been, and does return.
* **Connection pool.** Four workers over a few connections. Correct when no connection
  is with two threads, none is lost, and no connection lies idle while the threads that
  want one sleep.
* **Orders and payments.** Autocommit is never turned off, so every statement is a
  transaction of its own and `SQLEndTran` neither commits nor undoes anything. Handlers
  on several workers interleave between statements; a statement may fail, with its result
  ignored in some places; the process may die between two statements; LiqPay repeats
  and delays its reports. Correct when amounts are those of the lines, stock accounts
  for what was sold, an order's status follows its payment's, and a settled payment stays
  settled.
* **Session.** Bytes arrive in any portions, several requests at once, well formed
  or not, and replies come back from another thread. Correct when one thing at a
  time is outstanding, the requests dispatched are the client's, replies go
  out in order, a close is honoured, and no session falls silent.
* **Accounts.** Two registrations of one name, with only the unique index to decide; a
  statement that fails before the row is written or after; tokens drawn by several workers
  from one generator; a crash that keeps the table and loses the map. Correct when what
  a registration was told agrees with the table from then on, and a token opens the
  account that logged in, with its role, in the run that gave it out and in no other.
* **Product catalogue.** The role is looked up in one step and the statement runs in another, with
  logins, deletes and checkouts between. Correct when nothing passes the check without a
  token of this run and the role, a product is deleted for one client at most, and an error
  has not deleted it.
* **Router and codecs.** Pure functions: a request must get the handler a plain reading of
  the table gives it, and a report must come out of base64 and the form as LiqPay signed it.

`PROJECT.json` lists each hazard at its line, with the properties that cover it.

## 2. The modules

| Module | What it is |
|---|---|
| `ConnectionPool` | `acquire`, `release` and the lease, with mutex and wait set |
| `Leases` | what the connection pool promises: the abstract specification |
| `ConnectionPoolProofs` | its invariants, its wakeups and its refinement, proved |
| `ThreadPool` | `submit`, `push`, `pop`, `DoWork`, `wait`, `shutdown` |
| `TaskPool` | what the thread pool promises: the abstract specification |
| `ThreadPoolProofs` | types, places of tasks and counter, that `ThreadPool` implements `TaskPool`, and that no worker sleeps on work and no submitter on room, proved |
| `DataLemmas` | what `Append` and `Tail` do to a queue, what a sum gains from one more term, what loops over sequences compute, that numbers and finite sets have a least: lemmas that several proofs cite |
| `OrderFlow` | checkout, payment callback and product edits over the four tables |
| `Shop` | what checkout and callback promise the customer: the abstract specification |
| `OrderFlowProofs` | types, amounts, stock, what LiqPay reported explains the statuses, when an order and its payment are in step, and that `OrderFlow` implements `Shop`, proved |
| `Session` | one client connection |
| `Conversation` | what a session promises its client: the abstract specification |
| `SessionProofs` | one thing at a time, replies in order, nothing after a close, the framing of requests, and that `Session` implements `Conversation`, proved |
| `Accounts` | registration, login, tokens and the token store |
| `Router` | the table of routes, `match` and `route` |
| `Catalogue` | routed requests for products, beside the handlers of `Accounts` |
| `AccountsProofs` | the invariant of `Accounts`, and that each of its steps keeps it |
| `CatalogueProofs` | the theorems about `Accounts`, `Catalogue` and `Router` |
| `Codecs` | base64, `url_decode`, `parse_form_urlencoded` |
| `CodecsProofs` | what was encoded, put in a form and sent is decoded as it was, proved |
| `MCThreadPool`, `MCOrderFlow`, `MCSession`, `MCCatalogue` | the constants of TLC's instances |

What composes what: `Catalogue` extends `Accounts` and `Router`, and its `Next` is that of all
the handlers that ask for, or give out, a token; `MCOrderFlow` puts `Codecs` beside `OrderFlow`.

Each component's module also holds, in a section of their own and outside `Next`, faulty
variants of its actions: the mistake a plausible change to the code would make. For
every property of every passing run `PROJECT.json` names the variant that
breaks it when it takes the place of the action it is a variant of.

### ConnectionPool (`ConnectionPool.h`, `ConnectionPool.cpp`)

`available` is the queue, `lease[t]` the handle in t's `LeasedConnection`, `pc[t]` where
t is. `cv.wait(lock, predicate)` is three steps: the test under the mutex (`Take` or
`TestFails`), the pause between the test and the wait set with the mutex still held
(`"blocking"`), and the wait set (`"asleep"`). A woken thread goes back to the test and may
find that another came first. `Release` is one critical section: push, `notify_one`
to some member of the wait set. `LeaveScope` stands for every way out of a repository method,
an exception included: the destructor runs on all of them. `Leases` keeps only `lease`.

### ThreadPool (`ThreadPool.h`, `ThreadPool.cpp`)

The same treatment for three condition variables: `cv2` (over `mtx2`; the limit in
`submit` and `wait`), and each queue's `cv_not_empty` and `cv_not_full`. All places in
which a thread can be preempted with a consequence are values of `pc`; the module's header
draws the three paths. Notifications that the code makes after an unlock are steps of
their own (`NotifyPop`, `NotifyPush`, `NotifySubmit`, `NotifyZero`, `WakePops` once for
each queue, `WakeSubmitters`), because what happens between the unlock and the notification is
where such code goes wrong. `fate` is a history variable: what became of each task.

`steal` is not modelled because it cannot run: `pop` blocks until its queue has a task or
`stop` is set, so it returns an empty function only when `stop` is set, and
`DoWork` then leaves its loop (ThreadPool.cpp:14-17). The run `pool_steal` shows what follows.

### OrderFlow (`PaymentController.cpp`, `OrderRepository.cpp`, `PaymentRepository.cpp`)

The tables are `catalog`, `orders` (status by `order_id`), `items` and `payments`; `ctx[w]` holds
the handler that worker w runs, with its local variables. Every SQL statement is
one step, so handlers interleave between statements and nowhere else. Which results
the code checks decides what a fault does: a failed price query, order insert or line
insert ends the checkout with an error; a failed deduction, payment insert or status
update is ignored; a `SCOPE_IDENTITY()` that yields nothing leaves `order_id` at 0. `FormFails` is
the `catch` at the end of `checkout` (lines 115-119): what is thrown while the form is built is
answered 500 after the rows of order and payment are there.
`GenRead` and `GenStep` are the two halves of a draw from the shared generator, so that two
workers may draw the same reference. A report carries a status as LiqPay words it, and
`Succeeds` is what line 191 makes of it: `success` and `sandbox` mean Paid, every other
status, `processing` too, Failed. `forms`, `told`, `refused` and `torn` are
history: what customers were given, what LiqPay said, which checkouts got an error, and the refs of
which two callbacks overlapped or one made only one of its two updates. A handler reads none of them.

`AmountIsTheOrders` and `StockAccounted` speak of rows through `row`, the row's own
number, and so hold for the orders whose lines went to `order_id` 0 as well.

`Shop` keeps of all this the tables a customer can see, with `forms` and `told`, and says which
changes of them are allowed at all: it knows no workers, no statements and no faults.

### Session (`Session.cpp`)

A client sends requests, each a sequence of lines and a body; what travels is a sequence of
units: a carriage return, a line feed, or a word. A read may end after any unit, so between the CR and
the LF of a line, within a line, and anywhere in a body. A cut inside a word is not told from
one before it: `parse` looks at nothing of a line until its CRLF is there, nor of a body until it is
complete. A word stands for its spellings in either case, with the space before it where it
follows another, and counts as one byte against the limit. `headers` is the map it is in the code,
filled from lines, so a later header of the same name wins (line 414 then reads that one); `Numeric` and
`ContentLength` are `std::stoll`'s view of a value, with 0, a negative number, one above the limit, and a
text that is no number. `io` is what the io thread does for the session; the loop of `parse` is one step for each iteration. What keeps a session alive is
one outstanding completion: a read, a request with a worker, a posted function, a write, the
handshake, the TLS shutdown. Error replies (400, 413) are number 0; they leave the
parser where it was, as the code does, so what follows a bad line is parsed as a
continuation, and `Framing` promises nothing about it.

`Conversation` keeps the requests that were taken, with method, path, headers, body and wish to close,
the numbers of those that were answered, and whether the connection has ended.

### Accounts (`AuthController.cpp`, `UserRepository.cpp`, `SessionStore.h`, `Validation.h`)

`users` is the table Users, `sessions` the map of tokens, `ctx[w]` the account handler that worker w
runs. `Register` validates and goes to `InsertUser`, which the unique index may refuse;
a fault lies before the row (none is left) or in `SQLEndTran` (autocommit has kept
it), and both are answered 400. `Login` goes to `FindUser`, where a failing statement looks like an
unknown name; then `generate_token` draws twice from the shared `std::mt19937_64`. A draw is
two steps, `DrawRead` and `DrawStep`, because the state of the generator is read, used and
written back without a lock: a worker between the two has a stale position, and writing it
back may rewind the generator. A draw is modelled as the pair of the run and the position,
so that equal positions of one run give equal numbers. `raced` records in which runs of the process draws
overlapped. `LoseAccounts` is a crash: the table stays, map, handlers and generator start anew.

The validators disagree on the shortest password: `Validation.h:125` accepts 6, and
`AuthController.cpp:103-106` asks for 8 after it; `ValidPassword` has both, and the stricter decides.

### Catalogue and Router (`Product*.cpp`, `AuthMiddleware.h`, `Router.h`, `Structs.h`)

`Request` routes a method and a path through `Route` and places the request at its first step: the token
check, the statement, or a reply. The token may be any that was given out in any run, none, or one of
`Forged`: texts, guessed or malformed, that `generate_token` never makes. `CheckToken` is `require_auth`, atomic under the store's mutex;
what it found may be out of date when the statement runs. `InsertProduct`, `RemoveProduct` and
`UpdateOrRead` are the statements with the replies the controller makes of the repository's text.
Two of those are easy to miss: `add_product` answers 201 whatever the repository
says (ProductController.cpp:115), and the text of a failed DELETE lacks a brace, so that the
controller's parse fails and the answer is 500 where 400 was meant (ProductRepository.cpp:865).
A read that fails is answered 400 by `get_product`'s own `catch`, and 500 by the router's for `get_products`.
`OrderLine` is what a checkout does to the catalogue: a row that a line refers to cannot be deleted. `replies` and `answers` keep what clients were told as far as it says something about a table or a token:
a login that was refused, and a request whose token was not found, leave no entry.

`Match` follows the loop of `match` segment by segment as a recursive function; `FindsTheRoute` compares
it with a reading of the table that knows nothing of loops.

### Codecs (`LiqPayHelper.h`, `FormParser.h`)

`Encode` and `Decode` keep `val` as the 32-bit int it is: `ShiftLeft` drops what leaves the
word and lets the sign change. `HexOf` reads hexadecimal digits in either case, as `std::stoi` does. `Escape` and `FormOf` are the sender's side, external to the
repository; `SurvivesTheForm` sends a payload through all of it and compares.

## 3. What the runs check

"Pass" runs finish with no error. "Violation" runs check one statement that a comment
of the repository makes, and find a behaviour of the code that breaks it.

| Run | Instance | Shows |
|---|---|---|
| `leases` | 4 threads, 2 connections, unlimited calls | `Exclusive`, `Conserved`: no connection shared or lost. `BlockingSawTheQueue`, `NoLostWakeup`: a release between test and sleep is not missed. `PoolKeepsServing`: connections keep being handed out while someone waits. `Refines`: the pool implements `Leases`. |
| `pool_program` | 1 client (main), 2 workers, 4 tasks, limit 2, queues of 1 | the pool as the program uses it: `OnePlace`, `CounterAccurate`, `NoSleepOnWork`; `AcceptedIsRun`: every accepted task is run, shutdown or not; `Refines`: it implements `TaskPool`. |
| `pool_clients` | 2 clients, 5 tasks, one of which submits, three priorities, limit 3, queues of 1 | `NoSleepOnRoom`: of several submitters asleep on one queue none is forgotten; `Refines` when submitters race with each other and with shutdown, which the class allows and this program does not do. |
| `pool_shutdown` | 1 task, 2 workers | violation: `ShutdownReturns` |
| `pool_steal` | 3 tasks, one endless, 2 workers | violation: `QueuedIsTaken` |
| `orders` | 2 workers, 2 checkouts, of two products or of one product twice, 2 reports (`success` or `processing`), 1 edit, 1 fault, 1 crash | `AmountIsTheOrders`, `StockAccounted`, `PaidWasPaid`, `OrderStatusExplained`, `StatusesInStep`, `SettledStays` at every interleaving of statements, with a failure and a crash anywhere. `Refines`: all of it implements `Shop`. `ReportSurvivesItsForm`: the codecs bring each report through. |
| `orders_stock` | 2 workers, 2 checkouts | violation: `StockNeverNegative` |
| `orders_error` | 1 worker, 2 checkouts, 1 fault | violation: `ErrorLeavesNoOrder` |
| `orders_sync` | 2 workers, 1 checkout, 2 reports | violation: `OrderFollowsPayment`, of callbacks that overlap |
| `orders_crash` | 1 worker, 1 checkout, 1 report, 1 crash | violation: `OrderFollowsPayment`, of a callback cut in two |
| `catalogue` | 2 workers, 5 forms (2 accounts from the start), every route of the products, 2 registrations, 2 logins, 2 product requests with tokens of any run, forged ones or none (3 requests in all), 1 order line, 1 fault or crash | `AnswersTellTheTable`, `TokenOpensItsAccount`, `GuardedByItsToken`, `AnswersTellTheCatalogue` at every interleaving; `RouterFindsTheRoute` for every path of up to 4 segments. |
| `session` | every stream of up to 3 requests of 11 kinds, in every division that cuts after any unit, buffer limit 20 units | `OneActivity`, `RepliesInOrder`, `CloseIsLast`, `Framing`; `EveryRequestAnswered`, if writes end; `Refines`: the session implements `Conversation`. |

### What the violations show

1. **`pool_shutdown`** (ThreadPool.cpp:117-121). `shutdown` sets `stop` under `mtx2` and notifies
   each queue's `cv_not_empty` without that queue's mutex. A worker that has tested its
   predicate and not yet joined the wait set misses it, sleeps for ever, and `join` with it.
   The comment promises that every `pop` is woken.
2. **`pool_steal`** (ThreadPool.cpp:13-19). A free worker blocks in `pop` on its own queue and never
   reaches `steal`; a task queued behind a long one waits for it, against the comments.
3. **`orders_stock`** (OrderRepository.cpp:71, 90, 163). The stock is tested by one
   statement and deducted, unconditionally, by another; two checkouts sell the same units.
4. **`orders_error`** (OrderRepository.cpp:157, OrderRepository.h:56). With autocommit on, the rollback after a failed
   line undoes nothing: the customer gets an error and the order stays.
5. **`orders_sync`** (PaymentController.cpp:179, 193-200). Two reports of one payment, `success` and `processing`,
   handled at once: both pass the test of the status, and their four updates interleave
   to a Paid payment with a Cancelled order.
6. **`orders_crash`** (PaymentController.cpp:179, 193-195). The process dies after the payment's update and
   before the order's. The order stays New: when LiqPay reports again, line 179 finds the
   payment Paid and skips the rest.

`StatusesInStep` is what remains true where 5 and 6 are not at work: on every other path, an order and its
payment change together.

Not all of this takes concurrency or a failure. A cart that names a product twice passes the test of
`OrderRepository.cpp:90` line by line on the same stock, so one worker alone takes the stock below zero with it.
`orders` has such carts, and `StockAccounted` holds of them; `orders_stock` leaves them out, to show what
it is about.

## 4. Bounds, and why they are enough

* **Connection pool.** No bound on the number of calls: the state space is finite. Four threads
  over two connections give two holders and two waiters, so a release can meet an
  empty or a full wait set, and a woken thread can be overtaken. The proofs cover every other size.
* **Thread pool.** Two workers are the fewest that let one be idle while the other is busy.
  Queues of one and a limit of two or three make both limits bind within
  four or five tasks, which is what 64 and 100 do rarely. In `pool_program` a client blocks at the limit
  and at a full queue. In `pool_clients` two submitters sleep on one queue: that takes three counted
  tasks for it, and since tasks go to the two queues in turn, five tasks; and the
  spawning task can push to its worker's own queue. Safety is proved for every size.
* **Orders.** Two handlers in flight are enough for each pair of statements to interleave;
  two checkouts and two reports give every order of draw, payment and report. One
  edit, one fault and one crash are each placed at every point. Three handlers or a second
  fault multiply the states without a new kind of conflict: no statement touches what two
  others have both read. A cart has one line of each of two products, or two of one product that
together ask for more than there is. Prices, stocks and misreported amounts take the values on either side
  of each test: a stock that covers one cart and not two, and an amount that is the
  payment's or 0.02 off it.
* **Session.** Three requests are needed for a pipelined request behind one that is
  being answered, with another behind it. The eleven kinds have a header that is later overridden, bodies of
  two units (one of them a CR and an LF), a length of 0, and each way in which a request line, a header or a
  length can be refused. The limit of 20 units lies above the longest single request and below the longest
  stream, so that the 413 path is taken while valid requests wait in the buffer.
* **Catalogue.** Two logins are needed for a raced draw, two registrations for a name taken
  twice, two product requests for a delete that meets another; three requests in all let any
  of these meet one of another kind (a login, then a delete with its token, beside a second login).
  One mishap, a failing statement or a crash, is placed at every point. Names and passwords
  lie at the inner side of each bound (3 and 50 characters, 8 and 128), and one form asks for a role
  that does not exist. All of it is also proved, without bounds.
* **Router.** Paths of up to four segments over six texts: the longest route has three, so a path that
  is too long, too short or ends in a slash is among them. The proof covers paths of any length and any texts.
* **Codecs.** Payloads of up to six bytes of 0, 251 and 255: every padding twice; the fifth byte is the
  first to push another out of the 32 bits of `val`; and those bytes yield the digits A, + and /.
  The proof covers payloads of any bytes and any length.

Deadlock checking is off where the system may stop: after shutdown, at the end of a
session, and where the bounds end every behaviour.

## 5. Fairness

* `ConnectionPool!Fairness`: a thread inside the pool keeps running (the operating system
  schedules it), and a repository call ends. No fairness makes a thread call, and
  none favours a thread at the mutex: `PoolKeepsServing` promises progress of the pool, not of
  each thread, since `notify_one` and the mutex may starve one.
* `ThreadPool!Fairness`: weak fairness of each thread's next step, for the same reason, and of
  a running task's end unless it is `Endless`. A sleeping thread owes nothing. No client is
  obliged to submit or to shut down.
* `Session!Fairness`: the io thread runs what is ready, and a worker finishes its request. A read need
  not end: the client may never send. Nor need a write: `async_write` (Session.cpp:556) has no timeout, so a
  client that stops reading leaves it pending. `EveryRequestAnswered` has `WritesEnd`, that every write
  completes or fails, as its hypothesis.
* `OrderFlow` and `Catalogue` have no liveness property: customers and LiqPay may stop at any
  point, and a crash may come before any reply.

## 6. What is proved

From the named assumptions of the modules: `ConnectionPool`: a finite set of threads, a
number of connections, a null handle that is none of them; `ThreadPool`: a finite set of tasks
and of clients, main one of them and none of them a worker, integer priorities, at least one worker, limits
that are natural numbers; `Accounts`: accounts at the start with distinct names and with roles that
exist, lengths that are natural numbers (`FormsAreTyped`), a `None` that is neither role nor
token (`NoneIsNothing`), bounds that are natural numbers (`BoundsAreTyped`, `MoreBounds`);
`OrderFlow`: carts with at least one line, of a product and an integer quantity of either sign
(`CartsHaveLines`; the tests for a quantity below 1 are the code's), a finite set of workers
(`FinitelyManyWorkers`), and prices and stocks that are integers, of either sign since
`update_product` tests neither (`IntegersAreSet`; a price counts the smallest coin, so that adding
is exact, as it is not with the code's double); `Catalogue`: what a client makes up is not a token that
`generate_token` makes (`ForgedIsNoToken`). `Session`: words are neither CR nor LF (`WordsAreNoBreaks`), `std::stoll`
makes integers of some of them (`NumbersAreIntegers`), the limit is a natural number
(`SizeIsNatural`), and what a client sends is a sequence of requests (`StreamsAreRequests`). A request
there is any sequence of lines of any words, and any body; `WellFormed` says which of them
are as they should be.

| Theorem | Statement |
|---|---|
| `ConnectionPoolProofs!Invariance` | `TypeOK`, `Exclusive`, `Conserved`, `BlockingSawTheQueue`; the first, third and fourth also as `TypesAreKept`, `NoConnectionIsLost`, `NobodyBlocksOnAConnection` |
| `ConnectionPoolProofs!NoWakeupIsLost` | `NoLostWakeup` |
| `ConnectionPoolProofs!PoolRefinesLeases` | `Spec => Lender!Spec` |
| `ThreadPoolProofs!TypesAreKept` | `TypeOK` |
| `ThreadPoolProofs!NoTaskIsLost` | `OnePlace` |
| `ThreadPoolProofs!CountIsRight` | `CounterAccurate` |
| `ThreadPoolProofs!NoWorkerMissesWork` | `NoSleepOnWork` |
| `ThreadPoolProofs!NoSubmitterMissesRoom` | `NoSleepOnRoom` |
| `ThreadPoolProofs!PoolRefinesTaskPool` | `Spec => Promise!Spec` |
| `OrderFlowProofs!TypeCorrectness` | `TypeOK` |
| `OrderFlowProofs!AmountsAreTheOrders` | `AmountIsTheOrders` |
| `OrderFlowProofs!StockIsAccounted` | `StockAccounted` |
| `OrderFlowProofs!PaidIsExplained` | `PaidWasPaid` |
| `OrderFlowProofs!OrdersAreExplained` | `OrderStatusExplained` |
| `OrderFlowProofs!SettledPaymentsStay` | `SettledStays` |
| `OrderFlowProofs!StatusesStayInStep` | `StatusesInStep` |
| `OrderFlowProofs!OrderFlowRefinesShop` | `Spec => Promise!Spec`, for `Shop` |
| `SessionProofs!SessionIsTyped` | `TypeOK` |
| `SessionProofs!SessionDoesOneThing` | `OneActivity` |
| `SessionProofs!SessionRepliesInOrder` | `RepliesInOrder` |
| `SessionProofs!NothingAfterClose` | `CloseIsLast` |
| `SessionProofs!RequestsAreFramed` | `Framing` |
| `SessionProofs!SessionRefinesConversation` | `Spec => Promise!Spec`, for `Conversation` |
| `CatalogueProofs!RegistrationsAreTold` | `AnswersTellTheTable` |
| `CatalogueProofs!TokensOpenAccounts` | `TokenOpensItsAccount` |
| `CatalogueProofs!CatalogueIsTyped` | `ShopTypeOK` |
| `CatalogueProofs!HandlersAreGuarded` | `GuardedByItsToken` |
| `CatalogueProofs!CatalogueTellsTheTruth` | `AnswersTellTheCatalogue` |
| `CatalogueProofs!RouteFound` | what `FindsTheRoute` says of one request, for a path of any length |
| `CatalogueProofs!EveryRequestFindsItsRoute` | `FindsTheRoute`, for any methods and texts |
| `CatalogueProofs!RequestsFindTheirRoutes` | `RouterFindsTheRoute` |
| `CodecsProofs!Base64ComesBack` | `Decode(Encode(p)) = p`, for payloads of any bytes and length |
| `CodecsProofs!AnyPayloadSurvives` | `SurvivesTheForm`, for any such payloads and any senders that escape the '+', in either case of the hexadecimal digits |
| `CodecsProofs!ReportComesThrough` | `ReportSurvivesItsForm` |

**Connection pool.** `Inv` joins the four invariants; it is inductive because a thread
that is about to sleep holds the mutex, which `BlockingSawTheQueue` says of it, and a
release waits for that mutex. `NoLostWakeup` is inductive over it as a count: each release adds one
connection and, if anyone sleeps, one thread on its way to the queue.

**Thread pool.** `OnePlace` and `CounterAccurate` are not inductive alone: that a task
leaves the queue for a worker that has none, and that Join finds nothing unfinished, need to know
where each thread may be. `Control` says it: a worker has a task exactly in the
functions between `pop` and the task's end; a client is in `submit`, at home, or is main in
`shutdown`; `stop` is set exactly when main is there; at `join` the count is zero, and
stays so because `submit` then refuses and `Finish` needs an unfinished task.
`Inv == TypeOK /\ Control /\ OnePlace /\ CounterAccurate` is inductive. The proof splits into
steps that move a thread and leave the tasks alone (`QuietKeepsInv`, from
`Moves`: a thread goes to p, and nobody else moves but by being woken) and the six
that do something to a task, one lemma each.

**Wakeups.** `NoSleepOnWork` needs that a worker between test and sleep still sees an empty
queue: a push needs the mutex it holds. `NoSleepOnRoom` needs more. A pop wakes one
submitter of perhaps several, so "somebody is awake" is not kept when the woken one takes
a place and others remain; what is kept is a count. `EnoughWoken`: while a submitter sleeps
on a queue, the submitters about to test it, with the worker if it is about to notify, are at
least as many as its free places. A push lowers both by one; a pop raises the places and
owes a notification; the notification turns the debt into a woken submitter.

**Refinement.** A state of `ThreadPool` stands for the state of `TaskPool` in which an
offered task is still new. `LimitPasses` is Accept, `LimitRefuses` Refuse, `PopTakes` Start,
`Finish` Finish, `Shutdown` Close and `Join` Return; everything else is a stutter.

**Orders and payments.** Between the test of a payment's status and the two updates anything may
happen, so the invariant says what a callback knows there and why it stays true: reports, once
received, stay received, and a row of Payments keeps its ref, order and amount (`Kept`). So a
callback that is about to mark has a report for its ref and a payment of its order, with an amount
that agrees if the report is a success (`Knows`), and what it writes is explained. Nothing about
amounts of orders, stock or distinct refs is needed: the theorems hold even when two payments share a ref.

**Types, amounts and stock.** `Typed` is inductive with two facts that `TypeOK` does not mention: the
tables are finite, and a handler's locals fit the statement it is at (`Placed`: what it looked up is the
cart's beginning, its order is the row it inserted or 0). `Amounts` adds what of an order is written when:
at each statement between the insert of the order and that of the payment, the lines in the table are
the cart's up to the one the handler is at, and add up to its `total`, at the prices it looked up (`Written`);
no other handler writes that row, and nobody has been charged for it (`OwnRow`). A price edited meanwhile changes
neither. `StockAccounted` is inductive with these: inserting a line raises what is sold and what is owed
by the same quantity, deducting lowers the stock and what is owed, and a fault or a crash drops what is
owed and leaves the stock, which turns the equation into an inequality. Sums are those of the community modules,
recursive over sets: `DataLemmas` shows that one more term adds its value, by the smallest set for which
it would not.

**Orders and payments in step.** `AllTied` says of a payment whose ref no other payment drew, and of whose ref
no callback was torn, that at most one worker is past the test of the status with it (`Tied`). As long as there is none, or
it has yet to make its first update, payment and order have statuses that belong together; between the two updates
the payment has the one that the order is about to get. Other payments' callbacks do not interfere, because no order row has
two payments (`OnePerRow`). A callback that passes the test while another is past it tears the ref, and
so does a callback that a failed update or a crash leaves with one update of two; the rest of the proof shows
that nothing else can part the two.

**Orders implement the shop.** `OrderFlowRefinesShop` holds for any number of workers, faults and crashes. An
insert of an order is Open, one of a line AddLine, the payment's insert Charge, whether it
succeeds or fails (the customer gets the form either way), a callback Report, the two updates Settle and
Follow; the rest stutters, a crash included. That a line is added only before the charge, and that the charge is the
sum of the lines of one cart, comes from `Amounts`. `Backed` is what is new: a callback that is about to mark has
seen a payment of the report's ref whose amount agrees with it, whatever other callbacks did since. A payment
or an order that is not found is not changed, which is a stutter; and Settle decides every payment of the ref,
since refs may collide.

**Session.** `SInv` says that the session is in one of six places: on the io thread, in a
read, with a worker, in a posted function, in a write, or outside (handshake, shutdown, closed). Each place
says which variables are empty there and which requests have been answered: all of them while reading and
parsing, all but the last while its reply is on the way. The four properties follow from
the places, and each step goes from one place to another.

`Framing` compares what was dispatched with the requests as the client meant them, and needs to know
where the parser stands. `FlattenSeq` lays lines and requests one after another, so each
has a place in the stream (`Start`, `LineStart`). `FInv` says that `buffer` and `wire` are together the end of the stream (`Reads`),
and, as long as every request so far is well formed, that the parser is in one of three situations:
at the start of the request after the last dispatched (`AtRequest`), after j of its lines,
with `headers` what those make (`AmongHeaders`), or before its body
(`AtBody`). The heart of it is `NextLine`: where a line of the client's comes next in the stream, the line that `parse`
cuts off the buffer at the first CRLF is that line, however reads cut it, because the buffer is a beginning of what
is left and no line holds a CR; while not all of the line and its CRLF are there, no CRLF is found. A
body is taken when the buffer has as much as the length says, and those are then its units. What makes it inductive is the reset of the
parser: without `reset_parser` the next request would begin with the headers of the last. Once a request
that is not well formed has been reached (`Spoilt`), only that it is there is remembered.

**The session implements the conversation.** A dispatch is Take, a write that completes is
Answer, and what ends the connection otherwise is End: a failed read, write or handshake, or the client's close. A 400 or 413
is answered without a request and stutters. Take needs `Framing` and the places of `SInv` (nothing
waits while the parser runs); Answer needs that `keep_alive` is still what the request being answered
set, which `Due` says along its way to the worker and back.

**Accounts.** `AInv` rests on three facts. A row of Users never changes and no request number is
given twice, so what a registration was told stays true (`Told`, `Numbered`). A token names
the run that drew it, so after a crash no old token can be in the map (`Opened`). And in a run where
no draws overlapped, every first draw in use lies below the generator and is in use once, so a new
token never replaces another (`Apart`); this is the part that a raced run loses, and the
properties say so.

**Catalogue.** `AInv` says nothing of jobs, and a step of a product handler leaves what it is about
alone (`Passing`), so it is kept. On top of it `GInv` carries the outcome of the token check from the check to the
statement and into the reply: a token handed out in a run stays a token of that run, and an
account's role never changes, so a check made earlier is still right. `CInv` gives each id one
adder and at most one request that deleted it: ids are not reused, and only the delete that found the
row answers 200.

**Router.** `Match` is a recursive function over the positions of a route. That it exists is shown by giving
it (`MeetsFrom`), and that it says what it should by its last position where it would not
(`LoopMeets`); so a route matches exactly the paths of its length with its texts in their places
(`MatchMeans`). The table is then read off: method, length and second text tell the twelve routes apart
(`RoutesDiffer`), so at most one matches and the order of registration does not matter.

**Codecs.** `val` is a word from which bits are lost, so neither loop has a simple sum as invariant.
What it has is a closed form: after k bytes the encoder has written the first 4k ÷ 3 digits of the payload
(`Written`; `Value(p, j)` is the j-th digit, read off the payload as if zeros followed it) and the last byte is
what is left of `val`; after j digits the decoder has written the first 3j ÷ 4 bytes and the last digit is what
is left (`Decoded`). `ByteIn` and `DigitIn` say why that is enough: of what a shift
leaves, only the last byte or digit is ever read. The loops are `FoldLeft`s over sets of places; that
the function behind such a fold exists is `LoopExists`, and induction is replaced by a least counterexample.
`url_decode` is a recursive function that moves on by one byte or three: it exists (`UrlExists`), and by
the last place where it would not, it yields the rest of what was escaped (`Unescaped`). A form is cut
at its one '&', since no digit, escape or key contains one, and each field at its first '='.

TLC checked the strengthened invariants (`Inv`, `EnoughWoken` and its companions) on the instances
of `pool_program` and `pool_clients` before they were proved.

## 7. What is only model-checked, and what is assumed

Only model-checked:

* the liveness properties (`PoolKeepsServing`, `AcceptedIsRun`, `EveryRequestAnswered`): the
  prover does not reach fairness and ENABLED;
* that `ShutdownReturns`, `QueuedIsTaken` and the three promises of the orders are broken: TLC finds the behaviours.

Assumed, from how the sources use what lies outside them:

* condition variables have no spurious wakeups (no property relies on one; the code's
  predicates tolerate them);
* the database runs each statement atomically with autocommit on, has a foreign key from
  OrderItems to Products (the error text of `delete_product` names it,
  ProductRepository.cpp:865), and keeps its tables over a crash of the server;
* a valid signature means LiqPay sent the report: refused reports change nothing;
* one io thread (`Source.cpp` calls `io.run()` once), so a session's handlers never overlap;
* Users has a unique index on login, as the handling of error 23000 in `create_user` supposes,
  and compares names as they are written, so that the name `find_by_username` returns, which `login` puts into
  the session (AuthController.cpp:57), is the one in the form;
* an overlapping draw is a lost update of the generator: both workers get one number, and the later
  write counts. Two runs of the process, seeded apart, never draw the same numbers, and two tokens
  are equal only if their numbers are (SessionStore.h:66 writes one after the other without padding);
* a client guesses no token that was, or will be, given out: what it makes up is in `Forged`;
* only the password itself verifies against its hash; the SHA-1 signature cannot be
  forged, and LiqPay escapes the '+' of base64 in its forms;
* the futures of `submit` are dropped, as `Session.cpp:489` does.

### Known exceptions

Three things the code does wrong are exceptions by name in properties that hold, since nothing in the repository promises
otherwise and the rest of the property is worth having:

* In a run of the process in which draws of tokens overlapped, two logins may get one token, and it opens the account
  of the later (SessionStore.h:66). `TokenOpensItsAccount` and `GuardedByItsToken` then promise only that a session speaks
  for an account that exists, with that account's role.
* A registration whose row was written before `SQLEndTran` failed is answered 400 (UserRepository.cpp:106).
  `AnswersTellTheTable` promises then that the account is as that form asked.
* An addition whose statement failed is answered 201 (ProductController.cpp:115), with no row.

### Not modelled

* `State` (ThreadPool.h:142-192) is never instantiated; `steal`, lines 19-51 of `DoWork` and
  `push_task` are never reached; lines 28-643 of `ProductRepository.cpp` are not called or commented
  out; `SessionStore::remove` and the validators of products are never called, and no route logs out.
* Configuration and logging are input and output. JSON, OpenSSL (SHA-1, PBKDF2, TLS) and ODBC are
  libraries, and appear as what the code relies on.
* The GET handlers of orders only read. An escape that is not hexadecimal is left out: `std::stoi`
  throws there, and the router answers 500 before the callback has changed anything.
* The accept loop of `Server` keeps no state; how sessions, thread pool and connection pool work
  as one is described in section 1 and not checked as one.

## 8. What could be added

1. **Server**: the composition. Sessions submit to `TaskPool`, whose tasks take connections from `Leases`: the
   io thread blocked in `submit`, and the reply of a task that outlives the io loop
   (Source.cpp:74-88: the io context is destroyed before the pool). Both abstract
   specifications are proved to be implemented, so they may stand for the pools there.
2. **Repaired variants**: `shutdown` that takes each queue's mutex and `NotifyZero` that
   takes `mtx2`, under which `ShutdownReturns` passes; a stealing `pop`, under which
   `QueuedIsTaken` passes; a conditional deduction, under which `StockNeverNegative` passes.
3. **Accounts and catalogue**: an abstract specification of what they promise, as `Shop` is for the orders.
