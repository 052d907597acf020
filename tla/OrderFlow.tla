----------------------------- MODULE OrderFlow ------------------------------
(***************************************************************************)
(* Orders and payments: PaymentController, OrderRepository and             *)
(* PaymentRepository over the tables Products, Orders, OrderItems and      *)
(* Payments, with the product edits that ProductRepository makes beside    *)
(* them.  Handlers run on the pool's workers, several at a time; each SQL  *)
(* statement is one step.                                                  *)
(*                                                                         *)
(* create_connection never turns autocommit off, so every statement is a   *)
(* transaction of its own: SQLEndTran neither commits nor undoes anything  *)
(* and is not a step.  A statement may fail (a fault), the process may     *)
(* crash between two statements, and LiqPay may report a payment several   *)
(* times, late, or in another order.  The database refuses to delete a     *)
(* product, or to insert a line of one that is gone, when a line refers to *)
(* it (the foreign key that delete_product's error message names).         *)
(*                                                                         *)
(* Money is in hundredths.  Requests that are refused before they touch a  *)
(* table (bad JSON, an empty cart, a bad signature) change nothing and are *)
(* left out; so are the reads behind GET.                                  *)
(***************************************************************************)
EXTENDS Integers, Sequences, FiniteSets, FiniteSetsExt

CONSTANTS Workers,       \* the worker threads that run handlers
          Products,      \* the products of the shop
          Carts,         \* the carts customers send: sequences of lines
          InitialPrice, InitialStock,
          Prices, Stocks,   \* what an administrator may set them to
          Reports,       \* the statuses LiqPay may report
          Misreports,    \* by how much LiqPay's amount may differ
          MaxCheckouts, MaxCallbacks, MaxEdits, MaxFaults, MaxCrashes  \* bounds

Lines == [product : Products, quantity : Int]

ASSUME CartsHaveLines == \A cart \in Carts : cart \in Seq(Lines) /\ Len(cart) > 0

\* The pool has so many threads; what an administrator sets is an integer, and
\* not tested (update_product).
ASSUME FinitelyManyWorkers == IsFiniteSet(Workers)
ASSUME IntegersAreSet ==
  /\ InitialPrice \in Int /\ InitialStock \in Int
  /\ Prices \subseteq Int /\ Stocks \subseteq Int

VARIABLES catalog,    \* Products: price and stock_quantity of those that exist
          orders,     \* Orders: the status of each, by order_id
          items,      \* OrderItems
          payments,   \* Payments
          gen,        \* the generator in generate_payment_ref
          ctx,        \* the handler each worker runs, with its local variables
          forms,      \* the payment forms customers were given
          told,       \* what LiqPay has reported
          refused,    \* the order rows of checkouts that were answered by an error
          torn,       \* the refs of callbacks that overlapped, or made one of
                      \* their two updates and not the other
          spent       \* how much of each bound is used up

tables == <<catalog, orders, items, payments>>
vars == <<catalog, orders, items, payments, gen, ctx, forms, told, refused, torn, spent>>

Tolerance == 1   \* the 0.01 of payment_callback
Succeeds(status) == status \in {"success", "sandbox"}   \* Paid; any other is Failed

NoHandler == [pc |-> "idle", cart |-> <<>>, resolved |-> <<>>, line |-> 0,
              row |-> 0, order |-> 0, total |-> 0, ref |-> 0, amount |-> 0,
              good |-> FALSE]

Idle(w) == ctx[w].pc = "idle"
Reply(w) == ctx' = [ctx EXCEPT ![w] = NoHandler]
Spend(what) == spent' = [spent EXCEPT ![what] = @ + 1]
Fault == spent.faults < MaxFaults /\ Spend("faults")
NoFault == UNCHANGED spent

RowsOf(ref) == {p \in payments : p.ref = ref}

\* Worker w is between the test of the status and the end of the callback.
Marks(w, ref) == ctx[w].ref = ref /\ ctx[w].pc \in {"markPayment", "markOrder"}

Init ==
  /\ catalog = [p \in Products |-> [price |-> InitialPrice, stock |-> InitialStock]]
  /\ orders = <<>>
  /\ items = {}
  /\ payments = {}
  /\ gen = 1
  /\ ctx = [w \in Workers |-> NoHandler]
  /\ forms = {}
  /\ told = {}
  /\ refused = {}
  /\ torn = {}
  /\ spent = [checkouts |-> 0, callbacks |-> 0, edits |-> 0, faults |-> 0, crashes |-> 0]
-----------------------------------------------------------------------------
(***************************************************************************)
(* Faulty variants of the definitions below, not part of the               *)
(* specification: each is a mistake that some property at the end of the   *)
(* module catches.                                                         *)
(***************************************************************************)
\* The order's id is taken to be the newest in the table.
IdentityOfNewest(w) ==
  /\ ctx[w].pc = "identity"
  /\ ctx' = [ctx EXCEPT ![w].pc = "insertItem", ![w].order = Len(orders), ![w].line = 1]
  /\ UNCHANGED <<tables, gen, forms, told, refused, torn, spent>>

\* The line is inserted at the price of the moment.
InsertItemAtCurrentPrice(w) ==
  LET r == ctx[w].resolved[ctx[w].line]
  IN  /\ ctx[w].pc = "insertItem"
      /\ r.product \in DOMAIN catalog
      /\ items' = items \cup {[row |-> ctx[w].row, line |-> ctx[w].line,
                               order |-> ctx[w].order, product |-> r.product,
                               quantity |-> r.quantity,
                               price |-> catalog[r.product].price]}
      /\ ctx' = [ctx EXCEPT ![w].pc = "deduct"]
      /\ UNCHANGED <<catalog, orders, payments, gen, forms, told, refused, torn, spent>>

\* The stock of the first line's product is reduced for every line.
DeductFirstLine(w) ==
  LET r == ctx[w].resolved[ctx[w].line]
  IN  /\ ctx[w].pc = "deduct"
      /\ catalog' = [catalog EXCEPT ![ctx[w].resolved[1].product].stock = @ - r.quantity]
      /\ ctx' = [ctx EXCEPT ![w].total = @ + r.price * r.quantity, ![w].line = @ + 1,
                   ![w].pc = IF ctx[w].line = Len(ctx[w].resolved) THEN "genRead" ELSE "insertItem"]
      /\ UNCHANGED <<orders, items, payments, gen, forms, told, refused, torn, spent>>

\* The callback does not compare the amounts, or does not skip a paid payment.
MatchesAnyAmount(w, p) == p.status # "Paid"
MatchesPaid(w, p) == ctx[w].amount - p.amount \in (-Tolerance)..Tolerance

\* The two order statuses are swapped.
MarkOrderSwapped(w) ==
  /\ ctx[w].pc = "markOrder"
  /\ orders' = [n \in DOMAIN orders |->
       IF n = ctx[w].order THEN (IF ctx[w].good THEN "Cancelled" ELSE "Processing")
                           ELSE orders[n]]
  /\ Reply(w)
  /\ UNCHANGED <<catalog, items, payments, gen, forms, told, refused, torn, spent>>

\* The order hears of success alone.
MarkOrderOnSuccess(w) ==
  /\ ctx[w].pc = "markOrder"
  /\ orders' = [n \in DOMAIN orders |->
       IF n = ctx[w].order /\ ctx[w].good THEN "Processing" ELSE orders[n]]
  /\ Reply(w)
  /\ UNCHANGED <<catalog, items, payments, gen, forms, told, refused, torn, spent>>
-----------------------------------------------------------------------------
\* POST /checkout reaches a worker; create_order begins.
Checkout(w, cart) ==
  /\ Idle(w)
  /\ spent.checkouts < MaxCheckouts
  /\ Spend("checkouts")
  /\ ctx' = [ctx EXCEPT ![w] = [NoHandler EXCEPT !.pc = "lookup", !.cart = cart]]
  /\ UNCHANGED <<tables, gen, forms, told, refused, torn>>

Line(w) == ctx[w].cart[Len(ctx[w].resolved) + 1]
Available(line) ==
  /\ line.quantity > 0
  /\ line.product \in DOMAIN catalog
  /\ catalog[line.product].stock >= line.quantity

\* get_product_price of the next line: its price is kept, its stock tested.
LookUp(w) ==
  /\ ctx[w].pc = "lookup"
  /\ Available(Line(w))
  /\ LET r == Append(ctx[w].resolved,
                     [product |-> Line(w).product, quantity |-> Line(w).quantity,
                      price |-> catalog[Line(w).product].price])
     IN  ctx' = [ctx EXCEPT ![w].resolved = r,
                   ![w].pc = IF Len(r) = Len(ctx[w].cart) THEN "insertOrder" ELSE "lookup"]
  /\ UNCHANGED <<tables, gen, forms, told, refused, torn, spent>>

\* A line that cannot be had, or whose query fails, ends the checkout.
LookUpRejects(w) ==
  /\ ctx[w].pc = "lookup"
  /\ (~Available(Line(w)) /\ NoFault) \/ Fault
  /\ Reply(w)
  /\ UNCHANGED <<tables, gen, forms, told, refused, torn>>

\* INSERT INTO Orders.
InsertOrder(w) ==
  /\ ctx[w].pc = "insertOrder"
  /\ \/ /\ NoFault
        /\ orders' = Append(orders, "New")
        /\ ctx' = [ctx EXCEPT ![w].pc = "identity", ![w].row = Len(orders) + 1]
     \/ /\ Fault
        /\ Reply(w)
        /\ UNCHANGED orders
  /\ UNCHANGED <<catalog, items, payments, gen, forms, told, refused, torn>>

\* SELECT SCOPE_IDENTITY(), unchecked: when it yields nothing, order_id is 0.
Identity(w) ==
  /\ ctx[w].pc = "identity"
  /\ \E id \in {ctx[w].row, 0} :
       /\ IF id = 0 THEN Fault ELSE NoFault
       /\ ctx' = [ctx EXCEPT ![w].pc = "insertItem", ![w].order = id, ![w].line = 1]
  /\ UNCHANGED <<tables, gen, forms, told, refused, torn>>

Resolved(w) == ctx[w].resolved[ctx[w].line]

\* INSERT INTO OrderItems, at the price looked up before.
InsertItem(w) ==
  /\ ctx[w].pc = "insertItem"
  /\ Resolved(w).product \in DOMAIN catalog
  /\ items' = items \cup {[row |-> ctx[w].row, line |-> ctx[w].line,
                           order |-> ctx[w].order, product |-> Resolved(w).product,
                           quantity |-> Resolved(w).quantity, price |-> Resolved(w).price]}
  /\ ctx' = [ctx EXCEPT ![w].pc = "deduct"]
  /\ UNCHANGED <<catalog, orders, payments, gen, forms, told, refused, torn, spent>>

\* The insert fails: the rollback undoes nothing and the customer gets an error.
InsertItemFails(w) ==
  /\ ctx[w].pc = "insertItem"
  /\ (Resolved(w).product \notin DOMAIN catalog /\ NoFault) \/ Fault
  /\ refused' = refused \cup {ctx[w].row}
  /\ Reply(w)
  /\ UNCHANGED <<tables, gen, forms, told, torn>>

\* UPDATE Products SET stock_quantity = stock_quantity - ?, result ignored.
Deduct(w) ==
  /\ ctx[w].pc = "deduct"
  /\ \/ /\ NoFault
        /\ catalog' = [catalog EXCEPT ![Resolved(w).product].stock = @ - Resolved(w).quantity]
     \/ Fault /\ UNCHANGED catalog
  /\ ctx' = [ctx EXCEPT ![w].total = @ + Resolved(w).price * Resolved(w).quantity,
               ![w].line = @ + 1,
               ![w].pc = IF ctx[w].line = Len(ctx[w].resolved) THEN "genRead" ELSE "insertItem"]
  /\ UNCHANGED <<orders, items, payments, gen, forms, told, refused, torn>>

\* generate_payment_ref: every worker draws from one static generator with no
\* lock.  A draw reads its state, and then advances it.
GenRead(w) ==
  /\ ctx[w].pc = "genRead"
  /\ ctx' = [ctx EXCEPT ![w].ref = gen, ![w].pc = "genStep"]
  /\ UNCHANGED <<tables, gen, forms, told, refused, torn, spent>>

GenStep(w) ==
  /\ ctx[w].pc = "genStep"
  /\ gen' = ctx[w].ref + 1
  /\ ctx' = [ctx EXCEPT ![w].pc = "insertPayment"]
  /\ UNCHANGED <<tables, forms, told, refused, torn, spent>>

\* INSERT INTO Payments, result ignored, and the form for the customer.
InsertPayment(w) ==
  /\ ctx[w].pc = "insertPayment"
  /\ \/ /\ NoFault
        /\ payments' = payments \cup {[row |-> ctx[w].row, order |-> ctx[w].order,
                                       ref |-> ctx[w].ref, amount |-> ctx[w].total,
                                       status |-> "Pending"]}
     \/ Fault /\ UNCHANGED payments
  /\ forms' = forms \cup {[row |-> ctx[w].row, order |-> ctx[w].order, ref |-> ctx[w].ref,
                           amount |-> ctx[w].total, cart |-> ctx[w].cart]}
  /\ Reply(w)
  /\ UNCHANGED <<catalog, orders, items, gen, told, refused, torn>>

\* liqpay.create_payment throws: the customer gets an error, over an order and
\* perhaps a payment that are there.
FormFails(w) ==
  /\ ctx[w].pc = "insertPayment"
  /\ Fault
  /\ payments' \in {payments,
                    payments \cup {[row |-> ctx[w].row, order |-> ctx[w].order,
                                    ref |-> ctx[w].ref, amount |-> ctx[w].total,
                                    status |-> "Pending"]}}
  /\ refused' = refused \cup {ctx[w].row}
  /\ Reply(w)
  /\ UNCHANGED <<catalog, orders, items, gen, forms, told, torn>>
-----------------------------------------------------------------------------
\* POST /payment/callback with a valid signature: LiqPay reports a status of a
\* payment some customer was given a form for; each but two is a failure.
Callback(w) ==
  /\ Idle(w)
  /\ spent.callbacks < MaxCallbacks
  /\ Spend("callbacks")
  /\ \E f \in forms, status \in Reports, off \in Misreports :
       /\ told' = told \cup {[ref |-> f.ref, status |-> status, amount |-> f.amount + off]}
       /\ ctx' = [ctx EXCEPT ![w] = [NoHandler EXCEPT !.pc = "find", !.ref = f.ref,
                                       !.good = Succeeds(status),
                                       !.amount = f.amount + off]]
  /\ UNCHANGED <<tables, gen, forms, refused, torn>>

Matches(w, p) ==
  p.status # "Paid" /\ ctx[w].amount - p.amount \in (-Tolerance)..Tolerance

\* find_by_ref fetches a row with the ref; the callback goes on with its order
\* only if it is not yet paid and the amounts agree.
Find(w) ==
  /\ ctx[w].pc = "find"
  /\ \E p \in RowsOf(ctx[w].ref) :
       /\ Matches(w, p)
       /\ ctx' = [ctx EXCEPT ![w].pc = "markPayment", ![w].order = p.order]
  /\ torn' = IF \E v \in Workers : Marks(v, ctx[w].ref) THEN torn \cup {ctx[w].ref} ELSE torn
  /\ UNCHANGED <<tables, gen, forms, told, refused, spent>>

\* No row (or no answer), already paid, or another amount: nothing more is done.
FindStops(w) ==
  /\ ctx[w].pc = "find"
  /\ \/ NoFault /\ RowsOf(ctx[w].ref) = {}
     \/ NoFault /\ \E p \in RowsOf(ctx[w].ref) : ~Matches(w, p)
     \/ Fault
  /\ Reply(w)
  /\ UNCHANGED <<tables, gen, forms, told, refused, torn>>

\* update_payment_status: every row with the ref; the result is ignored.
MarkPayment(w) ==
  /\ ctx[w].pc = "markPayment"
  /\ \/ /\ NoFault
        /\ payments' = (payments \ RowsOf(ctx[w].ref)) \cup
             {[p EXCEPT !.status = IF ctx[w].good THEN "Paid" ELSE "Failed"]
                : p \in RowsOf(ctx[w].ref)}
        /\ UNCHANGED torn
     \/ Fault /\ UNCHANGED payments /\ torn' = torn \cup {ctx[w].ref}
  /\ ctx' = [ctx EXCEPT ![w].pc = "markOrder"]
  /\ UNCHANGED <<catalog, orders, items, gen, forms, told, refused>>

\* update_order_status: no row for order 0; the result is ignored.
MarkOrder(w) ==
  /\ ctx[w].pc = "markOrder"
  /\ \/ /\ NoFault
        /\ orders' = [n \in DOMAIN orders |->
             IF n = ctx[w].order THEN (IF ctx[w].good THEN "Processing" ELSE "Cancelled")
                                 ELSE orders[n]]
        /\ UNCHANGED torn
     \/ Fault /\ UNCHANGED orders /\ torn' = torn \cup {ctx[w].ref}
  /\ Reply(w)
  /\ UNCHANGED <<catalog, items, payments, gen, forms, told, refused>>
-----------------------------------------------------------------------------
\* PUT /products/:id and DELETE /products/:id, one statement each, on a worker
\* that is free.
UpdateProduct(w, p) ==
  /\ Idle(w)
  /\ spent.edits < MaxEdits
  /\ p \in DOMAIN catalog
  /\ Spend("edits")
  /\ \E price \in Prices, stock \in Stocks :
       catalog' = [catalog EXCEPT ![p] = [price |-> price, stock |-> stock]]
  /\ UNCHANGED <<orders, items, payments, gen, ctx, forms, told, refused, torn>>

DeleteProduct(w, p) ==
  /\ Idle(w)
  /\ spent.edits < MaxEdits
  /\ p \in DOMAIN catalog
  /\ \A i \in items : i.product # p
  /\ Spend("edits")
  /\ catalog' = [q \in DOMAIN catalog \ {p} |-> catalog[q]]
  /\ UNCHANGED <<orders, items, payments, gen, ctx, forms, told, refused, torn>>

\* The process dies and is started again: the handlers and their replies are
\* gone, the tables stay, and the generator has a new seed.  A callback between
\* its two updates is torn.
Crash ==
  /\ spent.crashes < MaxCrashes
  /\ \E w \in Workers : ~Idle(w)
  /\ Spend("crashes")
  /\ ctx' = [w \in Workers |-> NoHandler]
  /\ gen' = 1 + Max({gen} \cup {ctx[w].ref : w \in Workers}
                      \cup {p.ref : p \in payments} \cup {f.ref : f \in forms})
  /\ torn' = torn \cup {ctx[w].ref : w \in {v \in Workers : ctx[v].pc = "markOrder"}}
  /\ UNCHANGED <<tables, forms, told, refused>>

CheckoutStep(w) ==
  \/ LookUp(w) \/ LookUpRejects(w) \/ InsertOrder(w) \/ Identity(w)
  \/ InsertItem(w) \/ InsertItemFails(w) \/ Deduct(w)
  \/ GenRead(w) \/ GenStep(w) \/ InsertPayment(w) \/ FormFails(w)

CallbackStep(w) == Find(w) \/ FindStops(w) \/ MarkPayment(w) \/ MarkOrder(w)

Next ==
  \/ \E w \in Workers, cart \in Carts : Checkout(w, cart)
  \/ \E w \in Workers : CheckoutStep(w) \/ Callback(w) \/ CallbackStep(w)
  \/ \E w \in Workers, p \in Products : UpdateProduct(w, p) \/ DeleteProduct(w, p)
  \/ Crash

Spec == Init /\ [][Next]_vars
-----------------------------------------------------------------------------
Statuses == {"New", "Processing", "Cancelled"}
Handlers == {"idle", "lookup", "insertOrder", "identity", "insertItem", "deduct",
             "genRead", "genStep", "insertPayment", "find", "markPayment", "markOrder"}

TypeOK ==
  /\ DOMAIN catalog \subseteq Products
  /\ \A p \in DOMAIN catalog : catalog[p].price \in Int /\ catalog[p].stock \in Int
  /\ orders \in Seq(Statuses)
  /\ \A i \in items : i.row \in DOMAIN orders /\ i.order \in {i.row, 0}
                      /\ i.product \in DOMAIN catalog /\ i.quantity \in Nat \ {0}
  /\ \A p \in payments : p.row \in DOMAIN orders /\ p.order \in {p.row, 0}
                         /\ p.status \in {"Pending", "Paid", "Failed"}
  /\ gen \in Nat
  /\ \A w \in Workers : ctx[w].pc \in Handlers
  /\ refused \subseteq DOMAIN orders

LinesOf(row) == {i \in items : i.row = row}
Total(lines) == SumFunction([i \in lines |-> i.price * i.quantity])
Units(lines) == SumFunction([i \in lines |-> i.quantity])

\* Every form and every payment row asks for exactly what the lines of its
\* order add up to, and the lines are the cart's, whatever administrators and
\* other checkouts do between the statements of create_order.
AmountIsTheOrders ==
  /\ \A p \in payments : p.amount = Total(LinesOf(p.row))
  /\ \A f \in forms :
       /\ f.amount = Total(LinesOf(f.row))
       /\ {<<i.line, i.product, i.quantity>> : i \in LinesOf(f.row)} =
          {<<n, f.cart[n].product, f.cart[n].quantity>> : n \in DOMAIN f.cart}

\* As long as no administrator has set a stock, the units a product has lost
\* are those of its order lines, but for the line a worker is about to
\* deduct; a fault or a crash can only leave a deduction out.
Deducting(p) == {w \in Workers : ctx[w].pc = "deduct" /\ Resolved(w).product = p}
Held(p) == SumFunction([w \in Deducting(p) |-> Resolved(w).quantity])
Sold(p) == Units({i \in items : i.product = p})
Lost(p) == InitialStock - catalog[p].stock
StockAccounted ==
  spent.edits = 0 => \A p \in DOMAIN catalog :
    /\ Lost(p) <= Sold(p) - Held(p)
    /\ spent.faults + spent.crashes = 0 => Lost(p) = Sold(p) - Held(p)

\* A payment is Paid only if LiqPay reported success for its ref, with an
\* amount that agrees with a payment of that ref.
PaidWasPaid ==
  \A p \in payments : p.status = "Paid" =>
    \E t \in told, q \in RowsOf(p.ref) :
      t.ref = p.ref /\ Succeeds(t.status) /\ t.amount - q.amount \in (-Tolerance)..Tolerance

\* An order is Processing only if LiqPay reported success, and Cancelled only
\* if it reported another status, for a payment of that very order.
OrderStatusExplained ==
  \A n \in DOMAIN orders : orders[n] # "New" =>
    \E p \in payments, t \in told :
      p.order = n /\ t.ref = p.ref /\ Succeeds(t.status) = (orders[n] = "Processing")

\* A ref is settled when all its payments are Paid and no callback for it is
\* past the test of the status.  Nothing LiqPay repeats or sends late, and no
\* crash, unsettles it: only a second payment that drew the same ref does.
Settled(ref) ==
  /\ RowsOf(ref) # {}
  /\ \A p \in RowsOf(ref) : p.status = "Paid"
  /\ \A w \in Workers : ~Marks(w, ref)
SettledStays ==
  [][\A p \in payments :
       Settled(p.ref) =>
         \/ p \in payments' /\ Settled(p.ref)'
         \/ \E q \in payments' \ payments : q.ref = p.ref /\ q.status = "Pending"]_vars

\* An order and its payment have the statuses that belong together, whatever
\* LiqPay repeats, sends late or contradicts and whichever other handlers run,
\* fail or die, from the payment's insert on.  Only three things part them: two
\* callbacks of one ref at once, one that made one of its updates and not the
\* other, and a ref that a second payment drew.
InStep(order, payment) ==
  <<order, payment>> \in {<<"New", "Pending">>, <<"Processing", "Paid">>, <<"Cancelled", "Failed">>}
StatusesInStep ==
  \A p \in payments :
    /\ p.order # 0
    /\ RowsOf(p.ref) = {p}
    /\ p.ref \notin torn
    /\ \A w \in Workers : ~Marks(w, p.ref)
    => InStep(orders[p.order], p.status)

\* Stock is checked before the order is created, so it never goes below zero
\* (create_order, step 1).
StockNeverNegative == \A p \in DOMAIN catalog : catalog[p].stock >= 0

\* create_order creates an order with its lines or returns an error.
ErrorLeavesNoOrder == refused = {}

\* The order's status is synchronised with its payment: when no handler runs,
\* the order of a paid payment is Processing.
OrderFollowsPayment ==
  (\A w \in Workers : Idle(w)) =>
    \A p \in payments : p.status = "Paid" /\ p.order # 0 => orders[p.order] = "Processing"

\* Orders and payments keep the promises of Shop: with any number of handlers
\* at once, and faults and crashes anywhere, an order is complete before it is
\* charged for, what is asked is what its lines cost, and only a report that
\* agrees with a payment changes it or its order.
Promise == INSTANCE Shop
Refines == Promise!Spec
=============================================================================
