-------------------------- MODULE OrderFlowProofs ---------------------------
(***************************************************************************)
(* Proofs about OrderFlow, for all workers, carts, prices and bounds: what *)
(* LiqPay reported explains the status of every payment and every order,   *)
(* and a settled payment stays settled.  That takes no fact about amounts, *)
(* stock or the generator, so two payments may well share a ref.           *)
(*                                                                         *)
(* The argument is that what was reported stays reported and rows keep     *)
(* their ref, order and amount; so what a callback knows when it passes    *)
(* the test of find_by_ref is still true when it writes, however long      *)
(* after.                                                                  *)
(*                                                                         *)
(* The sections after that are about types, amounts and stock, which hold  *)
(* whatever happens between the statements of create_order; about when an  *)
(* order and its payment have the statuses that belong together; and the   *)
(* last shows that OrderFlow implements Shop.                              *)
(***************************************************************************)
EXTENDS OrderFlow, DataLemmas, TLAPS

\* The fields that records have: enough to know what EXCEPT leaves alone.
Locals == {"pc", "cart", "resolved", "line", "row", "order", "total", "ref", "amount",
           "good"}
Columns == {"row", "order", "ref", "amount", "status"}
Shaped ==
  /\ ctx = [w \in Workers |-> ctx[w]]
  /\ \A w \in Workers : ctx[w] = [f \in Locals |-> ctx[w][f]]
  /\ \A w \in Workers : ctx[w].good \in BOOLEAN
  /\ \A p \in payments : p = [f \in Columns |-> p[f]]
  /\ orders \in Seq(Statuses)

\* LiqPay has reported that outcome for a ref; a payment of that ref is for
\* that order; and a success was reported with an amount that some payment of
\* the ref has.
Reported(ref, good) == \E t \in told : t.ref = ref /\ Succeeds(t.status) = good
PaysFor(order, ref) == \E p \in payments : p.order = order /\ p.ref = ref
Agree(a, b) == a - b \in (-Tolerance)..Tolerance
Success(ref) ==
  \E t \in told, p \in payments :
    t.ref = ref /\ Succeeds(t.status) /\ p.ref = ref /\ Agree(t.amount, p.amount)

\* What a callback knows on its way.
Late == {"find", "markPayment", "markOrder"}
Knows(w) ==
  /\ ctx[w].pc = "find" =>
       \E t \in told : /\ t.ref = ctx[w].ref /\ Succeeds(t.status) = ctx[w].good
                       /\ t.amount = ctx[w].amount
  /\ ctx[w].pc \in {"markPayment", "markOrder"} =>
       Reported(ctx[w].ref, ctx[w].good) /\ PaysFor(ctx[w].order, ctx[w].ref)
  /\ ctx[w].pc = "markPayment" /\ ctx[w].good => Success(ctx[w].ref)

PaidExplained == \A p \in payments : p.status = "Paid" => Success(p.ref)

Inv ==
  /\ Shaped
  /\ \A w \in Workers : Knows(w)
  /\ PaidExplained
  /\ OrderStatusExplained

\* What every step keeps: the reports, and of each row its ref, its order and
\* its amount.
Kept ==
  /\ told \subseteq told'
  /\ \A p \in payments : \E q \in payments' :
       q.ref = p.ref /\ q.order = p.order /\ q.amount = p.amount

\* The steps that neither touch a payment nor bring a callback further.
Plain ==
  /\ told' = told
  /\ payments' = payments
  /\ \/ orders' = orders
     \/ orders' = Append(orders, "New")
  /\ \A w \in Workers : ctx'[w] = ctx[w] \/ ctx'[w].pc \notin Late

LEMMA InitInv == Init => Inv
<1> SUFFICES ASSUME Init PROVE Inv
  OBVIOUS
<1> USE DEF Init
<1>1. Shaped
  <2>1. orders \in Seq(Statuses)
    OBVIOUS
  <2>2. \A w \in Workers : ctx[w] = NoHandler
    OBVIOUS
  <2>3. NoHandler = [f \in Locals |-> NoHandler[f]] /\ NoHandler.good \in BOOLEAN
    BY DEF NoHandler, Locals
  <2> QED
    BY <2>1, <2>2, <2>3 DEF Shaped
<1>2. \A w \in Workers : Knows(w)
  BY DEF Knows, NoHandler
<1>3. PaidExplained /\ OrderStatusExplained
  BY DEF PaidExplained, OrderStatusExplained
<1> QED
  BY <1>1, <1>2, <1>3 DEF Inv

LEMMA KnowledgeLasts ==
  ASSUME Kept
  PROVE  /\ \A ref, good : Reported(ref, good) => Reported(ref, good)'
         /\ \A order, ref : PaysFor(order, ref) => PaysFor(order, ref)'
         /\ \A ref : Success(ref) => Success(ref)'
  BY DEF Kept, Reported, PaysFor, Success

\* A worker that a step leaves alone still knows what it knew.
LEMMA StillKnows ==
  ASSUME Kept, NEW w \in Workers, Knows(w), ctx'[w] = ctx[w]
  PROVE  Knows(w)'
  BY KnowledgeLasts DEF Knows, Kept

\* An order whose status a step leaves alone is explained as before.
LEMMA StillExplained ==
  ASSUME Inv, Kept, NEW n \in DOMAIN orders, orders[n] # "New"
  PROVE  \E p \in payments', t \in told' :
           p.order = n /\ t.ref = p.ref /\ Succeeds(t.status) = (orders[n] = "Processing")
<1>1. PICK p \in payments, t \in told :
        p.order = n /\ t.ref = p.ref /\ Succeeds(t.status) = (orders[n] = "Processing")
  BY DEF Inv, OrderStatusExplained
<1>2. PICK q \in payments' : q.ref = p.ref /\ q.order = p.order
  BY DEF Kept
<1> QED
  BY <1>1, <1>2 DEF Kept

LEMMA PlainKeepsInv ==
  ASSUME Inv, Plain, Shaped'
  PROVE  Inv'
<1>1. Kept
  BY DEF Plain, Kept
<1>2. \A w \in Workers : Knows(w)'
  <2> TAKE w \in Workers
  <2>1. CASE ctx'[w] = ctx[w]
    BY <1>1, <2>1, StillKnows DEF Inv
  <2>2. CASE ctx'[w].pc \notin Late
    BY <2>2 DEF Knows, Late
  <2> QED
    BY <2>1, <2>2 DEF Plain
<1>3. PaidExplained'
  BY <1>1, KnowledgeLasts DEF Inv, Plain, PaidExplained
<1>4. OrderStatusExplained'
  <2> SUFFICES ASSUME NEW n \in DOMAIN orders', orders'[n] # "New"
               PROVE  \E p \in payments', t \in told' :
                        p.order = n /\ t.ref = p.ref /\ Succeeds(t.status) = (orders'[n] = "Processing")
    BY DEF OrderStatusExplained
  <2>1. n \in DOMAIN orders /\ orders'[n] = orders[n]
    BY DEF Plain, Inv, Shaped
  <2> QED
    BY <1>1, <2>1, StillExplained
<1> QED
  BY <1>2, <1>3, <1>4 DEF Inv

\* What an assignment to the fields of one worker's record leaves alone.
LEMMA CheckoutStepIsPlain ==
  ASSUME Inv, NEW w \in Workers,
         \/ \E cart \in Carts : Checkout(w, cart)
         \/ LookUp(w) \/ LookUpRejects(w) \/ InsertOrder(w) \/ Identity(w)
         \/ InsertItem(w) \/ InsertItemFails(w) \/ Deduct(w)
         \/ GenRead(w) \/ GenStep(w) \/ FindStops(w)
  PROVE  Plain /\ Shaped'
<1> USE DEF Inv, Shaped, Plain, Late, tables, Locals
<1>1. CASE \E cart \in Carts : Checkout(w, cart)
  <2>1. PICK cart \in Carts :
          /\ ctx' = [ctx EXCEPT ![w] = [NoHandler EXCEPT !.pc = "lookup", !.cart = cart]]
          /\ UNCHANGED <<told, payments, orders>>
    BY <1>1 DEF Checkout
  <2> DEFINE c == [NoHandler EXCEPT !.pc = "lookup", !.cart = cart]
  <2>2. c = [f \in Locals |-> c[f]] /\ c.good \in BOOLEAN /\ c.pc = "lookup"
    BY DEF NoHandler
  <2> HIDE DEF c
  <2> QED
    BY <2>1, <2>2 DEF c
<1>2. CASE LookUp(w)
  <2>1. PICK r, pc :
          /\ ctx' = [ctx EXCEPT ![w].resolved = r, ![w].pc = pc]
          /\ pc \in {"insertOrder", "lookup"}
    BY <1>2 DEF LookUp
  <2>2. UNCHANGED <<told, payments, orders>>
    BY <1>2 DEF LookUp
  <2>3. Shaped'
    BY <2>1, <2>2
  <2> QED
    BY <2>1, <2>2, <2>3
<1>3. CASE LookUpRejects(w)
  BY <1>3 DEF LookUpRejects, Reply, NoHandler
<1>4. CASE InsertOrder(w)
  <2>1. UNCHANGED <<told, payments>>
    BY <1>4 DEF InsertOrder
  <2>2. CASE /\ orders' = Append(orders, "New")
             /\ \E row : ctx' = [ctx EXCEPT ![w].pc = "identity", ![w].row = row]
    <3>1. orders' \in Seq(Statuses)
      BY <2>2 DEF Statuses
    <3>2. PICK row : ctx' = [ctx EXCEPT ![w].pc = "identity", ![w].row = row]
      BY <2>2
    <3>3. Shaped'
      BY <2>1, <3>1, <3>2
    <3>4. Plain
      BY <2>1, <2>2, <3>2
    <3> QED
      BY <3>3, <3>4
  <2>3. CASE orders' = orders /\ Reply(w)
    BY <2>1, <2>3 DEF Reply, NoHandler
  <2> QED
    BY <1>4, <2>2, <2>3 DEF InsertOrder
<1>5. CASE Identity(w)
  BY <1>5 DEF Identity
<1>6. CASE InsertItem(w)
  BY <1>6 DEF InsertItem
<1>7. CASE InsertItemFails(w)
  BY <1>7 DEF InsertItemFails, Reply, NoHandler
<1>8. CASE Deduct(w)
  <2>1. PICK total, line, pc :
          /\ ctx' = [ctx EXCEPT ![w].total = total, ![w].line = line, ![w].pc = pc]
          /\ pc \in {"genRead", "insertItem"}
    BY <1>8 DEF Deduct
  <2>2. UNCHANGED <<told, payments, orders>>
    BY <1>8 DEF Deduct
  <2> DEFINE c == [ctx[w] EXCEPT !.total = total, !.line = line, !.pc = pc]
  <2>3. ctx' = [ctx EXCEPT ![w] = c]
    BY <2>1
  <2>4. c = [f \in Locals |-> c[f]] /\ c.good = ctx[w].good
    OBVIOUS
  <2> HIDE DEF c
  <2>5. Shaped'
    BY <2>2, <2>3, <2>4
  <2> QED
    BY <2>1, <2>2, <2>5
<1>9. CASE GenRead(w)
  BY <1>9 DEF GenRead
<1>10. CASE GenStep(w)
  BY <1>10 DEF GenStep
<1>11. CASE FindStops(w)
  BY <1>11 DEF FindStops, Reply, NoHandler
<1> QED
  BY <1>1, <1>2, <1>3, <1>4, <1>5, <1>6, <1>7, <1>8, <1>9, <1>10, <1>11

LEMMA EditOrCrashIsPlain ==
  ASSUME Inv,
         \/ \E w \in Workers, p \in Products : UpdateProduct(w, p) \/ DeleteProduct(w, p)
         \/ Crash
  PROVE  Plain /\ Shaped'
<1> USE DEF Inv, Shaped, Plain, Late, Locals
<1>1. CASE \E w \in Workers, p \in Products : UpdateProduct(w, p) \/ DeleteProduct(w, p)
  BY <1>1 DEF UpdateProduct, DeleteProduct
<1>2. CASE Crash
  <2>1. ctx' = [w \in Workers |-> NoHandler] /\ UNCHANGED <<told, payments, orders>>
    BY <1>2 DEF Crash, tables
  <2> QED
    BY <2>1 DEF NoHandler
<1> QED
  BY <1>1, <1>2

\* The last step of a checkout, whatever of it fails: a payment row is inserted
\* or not, a form is given or not.
NewPayment(w) == [row |-> ctx[w].row, order |-> ctx[w].order, ref |-> ctx[w].ref,
                  amount |-> ctx[w].total, status |-> "Pending"]
NewForm(w) == [row |-> ctx[w].row, order |-> ctx[w].order, ref |-> ctx[w].ref,
               amount |-> ctx[w].total, cart |-> ctx[w].cart]
Pays(w) ==
  /\ ctx[w].pc = "insertPayment" /\ Reply(w)
  /\ payments' = payments \cup {NewPayment(w)} \/ payments' = payments
  /\ forms' = forms \cup {NewForm(w)} \/ forms' = forms
  /\ refused' = refused \cup {ctx[w].row} \/ refused' = refused
  /\ UNCHANGED <<catalog, orders, items, gen, told, torn>>
  /\ NoFault \/ Fault

LEMMA EitherPays ==
  ASSUME NEW w \in Workers, InsertPayment(w) \/ FormFails(w)
  PROVE  Pays(w)
<1>1. CASE InsertPayment(w)
  BY <1>1 DEF InsertPayment, Pays, NewPayment, NewForm
<1>2. CASE FormFails(w)
  BY <1>2 DEF FormFails, Pays, NewPayment
<1> QED
  BY <1>1, <1>2

\* A new row is Pending, and has a row, an order and a ref of its own.
LEMMA InsertPaymentKeepsInv ==
  ASSUME Inv, NEW w \in Workers, Pays(w)
  PROVE  Inv'
<1> USE DEF Inv
<1>1. PICK row :
        /\ payments' = payments \cup {row} \/ payments' = payments
        /\ row = [f \in Columns |-> row[f]] /\ row.status = "Pending"
  <2> DEFINE new == NewPayment(w)
  <2>1. payments' = payments \cup {new} \/ payments' = payments
    BY DEF Pays
  <2>2. new = [f \in Columns |-> new[f]] /\ new.status = "Pending"
    BY DEF Columns, NewPayment
  <2> QED
    BY <2>1, <2>2
<1>2. /\ ctx' = [ctx EXCEPT ![w] = NoHandler]
      /\ told' = told /\ orders' = orders
  BY DEF Pays, Reply
<1>3. Kept
  BY <1>1, <1>2 DEF Kept
<1>4. Shaped'
  <2>1. NoHandler = [f \in Locals |-> NoHandler[f]] /\ NoHandler.good \in BOOLEAN
    BY DEF NoHandler, Locals
  <2> QED
    BY <1>1, <1>2, <2>1 DEF Shaped
<1>5. \A v \in Workers : Knows(v)'
  <2> TAKE v \in Workers
  <2>1. CASE v = w
    BY <1>2, <2>1 DEF Knows, Shaped, NoHandler
  <2>2. CASE v # w
    BY <1>2, <1>3, <2>2, StillKnows DEF Shaped
  <2> QED
    BY <2>1, <2>2
<1>6. PaidExplained'
  BY <1>1, <1>3, KnowledgeLasts DEF PaidExplained
<1>7. OrderStatusExplained'
  BY <1>2, <1>3, StillExplained DEF OrderStatusExplained
<1> QED
  BY <1>4, <1>5, <1>6, <1>7

LEMMA CallbackKeepsInv ==
  ASSUME Inv, NEW w \in Workers, Callback(w)
  PROVE  Inv'
<1> USE DEF Inv
<1>1. PICK f \in forms, status \in Reports, off \in Misreports :
        /\ told' = told \cup {[ref |-> f.ref, status |-> status, amount |-> f.amount + off]}
        /\ ctx' = [ctx EXCEPT ![w] = [NoHandler EXCEPT !.pc = "find", !.ref = f.ref,
                                        !.good = Succeeds(status), !.amount = f.amount + off]]
  BY DEF Callback
<1>2. payments' = payments /\ orders' = orders
  BY DEF Callback, tables
<1> DEFINE sum == f.amount + off
           good == Succeeds(status)
           c == [NoHandler EXCEPT !.pc = "find", !.ref = f.ref, !.good = good,
                                  !.amount = sum]
           t == [ref |-> f.ref, status |-> status, amount |-> sum]
<1>3. /\ c = [g \in Locals |-> c[g]] /\ c.good \in BOOLEAN
      /\ c.pc = "find" /\ c.ref = t.ref /\ c.amount = t.amount
      /\ Succeeds(t.status) = c.good
  <2>1. good \in BOOLEAN
    BY DEF Succeeds
  <2>2. c.good = good /\ t.status = status
    BY DEF NoHandler
  <2>3. Succeeds(t.status) = c.good
    BY <2>2
  <2> HIDE DEF good
  <2> QED
    BY <2>1, <2>3 DEF NoHandler, Locals
<1>4. ctx' = [ctx EXCEPT ![w] = c] /\ told' = told \cup {t}
  BY <1>1
<1> HIDE DEF c, t, good
<1>5. Kept
  BY <1>2, <1>4 DEF Kept
<1>6. Shaped'
  BY <1>2, <1>3, <1>4 DEF Shaped
<1>7. \A v \in Workers : Knows(v)'
  <2> TAKE v \in Workers
  <2>1. CASE v = w
    BY <1>3, <1>4, <2>1 DEF Knows, Shaped
  <2>2. CASE v # w
    BY <1>4, <1>5, <2>2, StillKnows DEF Shaped
  <2> QED
    BY <2>1, <2>2
<1>8. PaidExplained'
  BY <1>2, <1>5, KnowledgeLasts DEF PaidExplained
<1>9. OrderStatusExplained'
  BY <1>2, <1>5, StillExplained DEF OrderStatusExplained
<1> QED
  BY <1>6, <1>7, <1>8, <1>9

\* The row that passes the test has the amount of the report.
LEMMA FindKeepsInv ==
  ASSUME Inv, NEW w \in Workers, Find(w)
  PROVE  Inv'
<1> USE DEF Inv
<1>1. PICK p \in payments :
        /\ p.ref = ctx[w].ref /\ Agree(ctx[w].amount, p.amount)
        /\ ctx' = [ctx EXCEPT ![w].pc = "markPayment", ![w].order = p.order]
  BY DEF Find, RowsOf, Matches, Agree
<1>2. payments' = payments /\ orders' = orders /\ told' = told
  BY DEF Find, tables
<1>3. Kept
  BY <1>2 DEF Kept
<1>4. Shaped'
  BY <1>1, <1>2 DEF Shaped, Locals
<1>5. /\ ctx'[w].pc = "markPayment" /\ ctx'[w].order = p.order
      /\ ctx'[w].ref = ctx[w].ref /\ ctx'[w].good = ctx[w].good
      /\ \A v \in Workers : v # w => ctx'[v] = ctx[v]
  BY <1>1 DEF Shaped, Locals
<1>6. \A v \in Workers : Knows(v)'
  <2> TAKE v \in Workers
  <2>1. CASE v = w
    <3>1. PICK t \in told : /\ t.ref = ctx[w].ref /\ Succeeds(t.status) = ctx[w].good
                            /\ t.amount = ctx[w].amount
      BY DEF Find, Knows
    <3>2. Reported(ctx[w].ref, ctx[w].good) /\ PaysFor(p.order, ctx[w].ref)
      BY <1>1, <3>1 DEF Reported, PaysFor
    <3>3. ctx[w].good => Success(ctx[w].ref)
      BY <1>1, <3>1 DEF Success
    <3> QED
      BY <1>2, <1>5, <2>1, <3>2, <3>3 DEF Knows, Reported, PaysFor, Success
  <2>2. CASE v # w
    BY <1>3, <1>5, <2>2, StillKnows
  <2> QED
    BY <2>1, <2>2
<1>7. PaidExplained'
  BY <1>2, <1>3, KnowledgeLasts DEF PaidExplained
<1>8. OrderStatusExplained'
  BY <1>2, <1>3, StillExplained DEF OrderStatusExplained
<1> QED
  BY <1>4, <1>6, <1>7, <1>8

\* The rows of the ref change their status and nothing else; the new status
\* is the one that was reported.
LEMMA MarkPaymentKeepsInv ==
  ASSUME Inv, NEW w \in Workers, MarkPayment(w)
  PROVE  Inv'
<1> USE DEF Inv
<1> DEFINE status == IF ctx[w].good THEN "Paid" ELSE "Failed"
           Mark(p) == [p EXCEPT !.status = status]
<1>1. /\ told' = told /\ orders' = orders
      /\ ctx' = [ctx EXCEPT ![w].pc = "markOrder"]
      /\ \/ payments' = payments
         \/ payments' = (payments \ RowsOf(ctx[w].ref)) \cup {Mark(p) : p \in RowsOf(ctx[w].ref)}
  BY DEF MarkPayment
<1>2. \A p \in payments :
        /\ Mark(p) = [f \in Columns |-> Mark(p)[f]] /\ Mark(p).status = status
        /\ Mark(p).ref = p.ref /\ Mark(p).order = p.order /\ Mark(p).amount = p.amount
  BY DEF Shaped, Columns
<1> HIDE DEF Mark
<1>3. \A q \in payments' :
        q \in payments \/ \E p \in payments : p.ref = ctx[w].ref /\ q = Mark(p)
  BY <1>1 DEF RowsOf
<1>4. Kept
  BY <1>1, <1>2 DEF Kept, RowsOf
<1>5. Shaped'
  <2>1. \A q \in payments' : q = [f \in Columns |-> q[f]]
    BY <1>2, <1>3 DEF Shaped
  <2> QED
    BY <1>1, <2>1 DEF Shaped, Locals
<1>6. \A v \in Workers : Knows(v)'
  <2> TAKE v \in Workers
  <2>1. CASE v = w
    <3>1. /\ ctx[w].pc = "markPayment" /\ ctx'[w].pc = "markOrder"
          /\ ctx'[w].ref = ctx[w].ref /\ ctx'[w].order = ctx[w].order
          /\ ctx'[w].good = ctx[w].good
      BY <1>1 DEF MarkPayment, Shaped, Locals
    <3>2. Reported(ctx[w].ref, ctx[w].good) /\ PaysFor(ctx[w].order, ctx[w].ref)
      BY <3>1 DEF Knows
    <3> QED
      BY <1>4, <2>1, <3>1, <3>2 DEF Knows, Kept, Reported, PaysFor
  <2>2. CASE v # w
    BY <1>1, <1>4, <2>2, StillKnows DEF Shaped
  <2> QED
    BY <2>1, <2>2
<1>7. PaidExplained'
  <2> SUFFICES ASSUME NEW q \in payments', q.status = "Paid" PROVE Success(q.ref)'
    BY DEF PaidExplained
  <2>1. Success(q.ref)
    <3>1. CASE q \in payments
      BY <3>1 DEF PaidExplained
    <3>2. CASE \E p \in payments : p.ref = ctx[w].ref /\ q = Mark(p)
      <4>1. q.ref = ctx[w].ref /\ ctx[w].good
        BY <1>2, <3>2
      <4> QED
        BY <4>1 DEF Knows, MarkPayment
    <3> QED
      BY <1>3, <3>1, <3>2
  <2> QED
    BY <1>4, <2>1 DEF Kept, Success
<1>8. OrderStatusExplained'
  BY <1>1, <1>4, StillExplained DEF OrderStatusExplained
<1> QED
  BY <1>5, <1>6, <1>7, <1>8

\* The order that changes is one that a payment of the reported ref is for.
LEMMA MarkOrderKeepsInv ==
  ASSUME Inv, NEW w \in Workers, MarkOrder(w)
  PROVE  Inv'
<1> USE DEF Inv
<1> DEFINE status == IF ctx[w].good THEN "Processing" ELSE "Cancelled"
<1>1. /\ told' = told /\ payments' = payments
      /\ ctx' = [ctx EXCEPT ![w] = NoHandler]
      /\ \/ orders' = orders
         \/ orders' = [n \in DOMAIN orders |-> IF n = ctx[w].order THEN status ELSE orders[n]]
  BY DEF MarkOrder, Reply
<1>2. Kept
  BY <1>1 DEF Kept
<1>3. Shaped'
  <2>1. NoHandler = [f \in Locals |-> NoHandler[f]] /\ NoHandler.good \in BOOLEAN
    BY DEF NoHandler, Locals
  <2>2. orders' \in Seq(Statuses)
    <3>1. orders \in Seq(Statuses) /\ status \in Statuses
      BY DEF Shaped, Statuses
    <3> HIDE DEF status
    <3> QED
      BY <1>1, <3>1
  <2> QED
    BY <1>1, <2>1, <2>2 DEF Shaped
<1>4. \A v \in Workers : Knows(v)'
  <2> TAKE v \in Workers
  <2>1. CASE v = w
    BY <1>1, <2>1 DEF Knows, Shaped, NoHandler
  <2>2. CASE v # w
    BY <1>1, <1>2, <2>2, StillKnows DEF Shaped
  <2> QED
    BY <2>1, <2>2
<1>5. PaidExplained'
  BY <1>1, <1>2, KnowledgeLasts DEF PaidExplained
<1>6. OrderStatusExplained'
  <2> SUFFICES ASSUME NEW n \in DOMAIN orders', orders'[n] # "New"
               PROVE  \E p \in payments', t \in told' :
                        p.order = n /\ t.ref = p.ref /\ Succeeds(t.status) = (orders'[n] = "Processing")
    BY DEF OrderStatusExplained
  <2>1. n \in DOMAIN orders
    BY <1>1
  <2>2. CASE orders'[n] = orders[n]
    BY <1>2, <2>1, <2>2, StillExplained
  <2>3. CASE n = ctx[w].order /\ orders'[n] = status
    <3>1. PICK p \in payments, t \in told :
            p.order = n /\ t.ref = p.ref /\ Succeeds(t.status) = ctx[w].good
      BY <2>3 DEF Knows, MarkOrder, Reported, PaysFor
    <3>2. ctx[w].good \in BOOLEAN
      BY DEF Shaped
    <3>3. ctx[w].good = (orders'[n] = "Processing")
      BY <2>3, <3>2
    <3> QED
      BY <1>1, <3>1, <3>3
  <2> QED
    BY <1>1, <2>1, <2>2, <2>3
<1> QED
  BY <1>3, <1>4, <1>5, <1>6

LEMMA NextKeepsInv == Inv /\ [Next]_vars => Inv'
<1> SUFFICES ASSUME Inv, [Next]_vars PROVE Inv'
  OBVIOUS
<1>1. CASE UNCHANGED vars
  <2>1. Plain /\ Shaped'
    BY <1>1 DEF vars, Inv, Plain, Shaped
  <2> QED
    BY <2>1, PlainKeepsInv
<1>2. ASSUME NEW w \in Workers,
             \/ \E cart \in Carts : Checkout(w, cart)
             \/ CheckoutStep(w) \/ Callback(w) \/ CallbackStep(w)
      PROVE  Inv'
  <2>1. CASE InsertPayment(w) \/ FormFails(w)
    BY <2>1, EitherPays, InsertPaymentKeepsInv
  <2>2. CASE Callback(w)
    BY <2>2, CallbackKeepsInv
  <2>3. CASE Find(w)
    BY <2>3, FindKeepsInv
  <2>4. CASE MarkPayment(w)
    BY <2>4, MarkPaymentKeepsInv
  <2>5. CASE MarkOrder(w)
    BY <2>5, MarkOrderKeepsInv
  <2>6. CASE \/ \E cart \in Carts : Checkout(w, cart)
             \/ LookUp(w) \/ LookUpRejects(w) \/ InsertOrder(w) \/ Identity(w)
             \/ InsertItem(w) \/ InsertItemFails(w) \/ Deduct(w)
             \/ GenRead(w) \/ GenStep(w) \/ FindStops(w)
    BY <2>6, CheckoutStepIsPlain, PlainKeepsInv
  <2> QED
    BY <1>2, <2>1, <2>2, <2>3, <2>4, <2>5, <2>6 DEF CheckoutStep, CallbackStep
<1>3. CASE \/ \E w \in Workers, p \in Products : UpdateProduct(w, p) \/ DeleteProduct(w, p)
           \/ Crash
  BY <1>3, EditOrCrashIsPlain, PlainKeepsInv
<1> QED
  BY <1>1, <1>2, <1>3 DEF Next

LEMMA Invariance == Spec => []Inv
<1> QED
  BY InitInv, NextKeepsInv, PTL DEF Spec

\* For any shop: a payment is Paid only if LiqPay reported its success with an
\* amount that agrees.
THEOREM PaidIsExplained == Spec => []PaidWasPaid
<1>1. Inv => PaidWasPaid
  BY DEF Inv, PaidExplained, Success, Agree, PaidWasPaid, RowsOf
<1> QED
  BY <1>1, Invariance, PTL

\* For any shop: an order's status is what LiqPay reported for a payment of
\* that order.
THEOREM OrdersAreExplained == Spec => []OrderStatusExplained
<1>1. Inv => OrderStatusExplained
  BY DEF Inv
<1> QED
  BY <1>1, Invariance, PTL

\* The promise of SettledStays about one payment and one step.
Stays(p) ==
  \/ p \in payments' /\ Settled(p.ref)'
  \/ \E q \in payments' \ payments : q.ref = p.ref /\ q.status = "Pending"

\* No callback passes the test of find_by_ref in this step.
Calm ==
  \A w \in Workers : ctx'[w] = ctx[w] \/ ctx'[w].pc \notin {"markPayment", "markOrder"}

LEMMA CalmStays ==
  ASSUME Calm, payments' = payments, NEW p \in payments, Settled(p.ref)
  PROVE  Stays(p)
  BY DEF Calm, Stays, Settled, Marks, RowsOf

LEMMA StepStays ==
  ASSUME Inv, [Next]_vars, NEW p \in payments, Settled(p.ref)
  PROVE  Stays(p)
<1> USE DEF Inv
<1>1. CASE Plain
  BY <1>1, CalmStays DEF Plain, Calm, Late
<1>2. ASSUME NEW w \in Workers, Callback(w) \/ MarkOrder(w)
      PROVE  Stays(p)
  <2>1. payments' = payments
    BY <1>2 DEF Callback, MarkOrder, tables
  <2>2. Calm
    <3>1. CASE MarkOrder(w)
      BY <3>1 DEF MarkOrder, Reply, NoHandler, Calm, Shaped
    <3>2. CASE Callback(w)
      <4>1. PICK ref, good, amount :
              ctx' = [ctx EXCEPT ![w] = [NoHandler EXCEPT !.pc = "find", !.ref = ref,
                                              !.good = good, !.amount = amount]]
        BY <3>2 DEF Callback
      <4>2. [NoHandler EXCEPT !.pc = "find", !.ref = ref, !.good = good,
                              !.amount = amount].pc = "find"
        BY DEF NoHandler
      <4> QED
        BY <4>1, <4>2 DEF Calm, Shaped
    <3> QED
      BY <1>2, <3>1, <3>2
  <2> QED
    BY <2>1, <2>2, CalmStays
<1>3. ASSUME NEW w \in Workers, Find(w)
      PROVE  Stays(p)
  <2>1. PICK q \in payments :
          /\ q.ref = ctx[w].ref /\ q.status # "Paid"
          /\ ctx' = [ctx EXCEPT ![w].pc = "markPayment", ![w].order = q.order]
    BY <1>3 DEF Find, RowsOf, Matches
  <2>2. ctx[w].ref # p.ref
    BY <2>1 DEF Settled, RowsOf
  <2>3. \A v \in Workers : ctx'[v] = ctx[v] \/ (v = w /\ ctx'[v].ref = ctx[w].ref)
    BY <2>1 DEF Shaped, Locals
  <2>4. payments' = payments
    BY <1>3 DEF Find, tables
  <2> QED
    BY <2>2, <2>3, <2>4 DEF Stays, Settled, Marks, RowsOf
<1>4. ASSUME NEW w \in Workers, MarkPayment(w)
      PROVE  Stays(p)
  <2>1. ctx[w].ref # p.ref
    BY <1>4 DEF MarkPayment, Settled, Marks
  <2>2. \A v \in Workers : ctx'[v] = ctx[v] \/ (v = w /\ ctx'[v].ref = ctx[w].ref)
    BY <1>4 DEF MarkPayment, Shaped, Locals
  <2>3. p \in payments' /\ \A q \in payments' : q.ref = p.ref => q \in payments
    <3>1. \A q \in payments :
            [q EXCEPT !.status = IF ctx[w].good THEN "Paid" ELSE "Failed"].ref = q.ref
      BY DEF Shaped, Columns
    <3> QED
      BY <1>4, <2>1, <3>1 DEF MarkPayment, RowsOf
  <2> QED
    BY <2>1, <2>2, <2>3 DEF Stays, Settled, Marks, RowsOf
<1>5. ASSUME NEW w \in Workers, Pays(w)
      PROVE  Stays(p)
  <2> DEFINE new == NewPayment(w)
  <2>1. payments' = payments \cup {new} \/ payments' = payments
    BY <1>5 DEF Pays
  <2>2. new.status = "Pending" /\ new.ref = ctx[w].ref
    BY DEF NewPayment
  <2> HIDE DEF new
  <2>3. Calm
    BY <1>5 DEF Pays, Reply, NoHandler, Calm, Shaped
  <2>4. CASE payments' = payments
    BY <2>3, <2>4, CalmStays
  <2>5. CASE payments' = payments \cup {new} /\ new \notin payments /\ new.ref = p.ref
    BY <2>2, <2>5 DEF Stays
  <2>6. CASE payments' = payments \cup {new} /\ new.ref # p.ref
    BY <2>3, <2>6 DEF Stays, Settled, Marks, RowsOf, Calm
  <2> QED
    BY <2>1, <2>4, <2>5, <2>6
<1>6. CASE UNCHANGED vars
  BY <1>6, CalmStays DEF vars, Calm
<1> QED
  <2>1. CASE Next
    BY <2>1, <1>1, <1>2, <1>3, <1>4, <1>5, EitherPays, CheckoutStepIsPlain, EditOrCrashIsPlain
    DEF Next, CheckoutStep, CallbackStep
  <2> QED
    BY <2>1, <1>6

\* For any shop: nothing LiqPay repeats or sends late, and no crash, unsettles
\* a settled payment.
THEOREM SettledPaymentsStay == Spec => SettledStays
<1>1. Inv /\ [Next]_vars =>
        [\A p \in payments : Settled(p.ref) =>
           \/ p \in payments' /\ Settled(p.ref)'
           \/ \E q \in payments' \ payments : q.ref = p.ref /\ q.status = "Pending"]_vars
  BY StepStays DEF Stays
<1> QED
  BY <1>1, Invariance, PTL DEF Spec, SettledStays
-----------------------------------------------------------------------------
(***************************************************************************)
(* What the steps do to the local variables of the worker that takes them. *)
(***************************************************************************)
Others(w) == \A v \in Workers : v # w => ctx'[v] = ctx[v]

LEMMA ReplyEffect ==
  ASSUME Shaped, NEW w \in Workers, Reply(w)
  PROVE  /\ Others(w)
         /\ ctx'[w] = NoHandler /\ ctx'[w].pc = "idle"
         /\ ctx'[w].ref = 0 /\ ctx'[w].total = 0
  BY DEF Shaped, Others, Reply, NoHandler

LEMMA CheckoutEffect ==
  ASSUME Shaped, NEW w \in Workers, NEW cart \in Carts, Checkout(w, cart)
  PROVE  /\ Others(w)
         /\ ctx'[w].pc = "lookup" /\ ctx'[w].cart = cart /\ ctx'[w].resolved = <<>>
         /\ ctx'[w].ref = 0 /\ ctx'[w].total = 0
<1> DEFINE c == [NoHandler EXCEPT !.pc = "lookup", !.cart = cart]
<1>1. ctx' = [ctx EXCEPT ![w] = c]
  BY DEF Checkout
<1>2. c.pc = "lookup" /\ c.cart = cart /\ c.resolved = <<>> /\ c.ref = 0 /\ c.total = 0
  BY DEF NoHandler
<1> HIDE DEF c
<1> QED
  BY <1>1, <1>2 DEF Shaped, Others

LEMMA LookUpEffect ==
  ASSUME Shaped, NEW w \in Workers, LookUp(w)
  PROVE  LET r == Append(ctx[w].resolved,
                         [product |-> Line(w).product, quantity |-> Line(w).quantity,
                          price |-> catalog[Line(w).product].price])
         IN  /\ Others(w)
             /\ ctx'[w].resolved = r
             /\ ctx'[w].pc = (IF Len(r) = Len(ctx[w].cart) THEN "insertOrder" ELSE "lookup")
             /\ ctx'[w].cart = ctx[w].cart /\ ctx'[w].ref = ctx[w].ref
             /\ ctx'[w].total = ctx[w].total
<1> DEFINE r == Append(ctx[w].resolved,
                       [product |-> Line(w).product, quantity |-> Line(w).quantity,
                        price |-> catalog[Line(w).product].price])
           pc == IF Len(r) = Len(ctx[w].cart) THEN "insertOrder" ELSE "lookup"
<1>1. ctx' = [ctx EXCEPT ![w].resolved = r, ![w].pc = pc]
  BY DEF LookUp
<1> HIDE DEF r, pc
<1>2. /\ Others(w) /\ ctx'[w].resolved = r /\ ctx'[w].pc = pc
      /\ ctx'[w].cart = ctx[w].cart /\ ctx'[w].ref = ctx[w].ref /\ ctx'[w].total = ctx[w].total
  BY <1>1 DEF Shaped, Locals, Others
<1> QED
  BY <1>2 DEF r, pc

LEMMA InsertOrderEffect ==
  ASSUME Shaped, NEW w \in Workers, InsertOrder(w)
  PROVE  \/ Reply(w) /\ orders' = orders
         \/ /\ Others(w) /\ orders' = Append(orders, "New")
            /\ ctx'[w].pc = "identity" /\ ctx'[w].row = Len(orders) + 1
            /\ ctx'[w].cart = ctx[w].cart /\ ctx'[w].resolved = ctx[w].resolved
            /\ ctx'[w].ref = ctx[w].ref /\ ctx'[w].total = ctx[w].total
<1>1. CASE /\ orders' = Append(orders, "New")
           /\ ctx' = [ctx EXCEPT ![w].pc = "identity", ![w].row = Len(orders) + 1]
  <2> DEFINE row == Len(orders) + 1
  <2>1. ctx' = [ctx EXCEPT ![w].pc = "identity", ![w].row = row]
    BY <1>1
  <2> HIDE DEF row
  <2>2. /\ Others(w) /\ ctx'[w].pc = "identity" /\ ctx'[w].row = row
        /\ ctx'[w].cart = ctx[w].cart /\ ctx'[w].resolved = ctx[w].resolved
        /\ ctx'[w].ref = ctx[w].ref /\ ctx'[w].total = ctx[w].total
    BY <2>1 DEF Shaped, Locals, Others
  <2> QED
    BY <1>1, <2>2 DEF row
<1> QED
  BY <1>1 DEF InsertOrder

LEMMA IdentityEffect ==
  ASSUME Shaped, NEW w \in Workers, Identity(w)
  PROVE  /\ Others(w)
         /\ ctx'[w].pc = "insertItem" /\ ctx'[w].line = 1
         /\ ctx'[w].order \in {ctx[w].row, 0} /\ ctx'[w].row = ctx[w].row
         /\ ctx'[w].cart = ctx[w].cart /\ ctx'[w].resolved = ctx[w].resolved
         /\ ctx'[w].ref = ctx[w].ref /\ ctx'[w].total = ctx[w].total
<1>1. PICK id \in {ctx[w].row, 0} :
        ctx' = [ctx EXCEPT ![w].pc = "insertItem", ![w].order = id, ![w].line = 1]
  BY DEF Identity
<1> DEFINE c == [ctx[w] EXCEPT !.pc = "insertItem", !.order = id, !.line = 1]
<1>2. /\ c.pc = "insertItem" /\ c.line = 1 /\ c.order = id /\ c.row = ctx[w].row
      /\ c.cart = ctx[w].cart /\ c.resolved = ctx[w].resolved
      /\ c.ref = ctx[w].ref /\ c.total = ctx[w].total
  BY DEF Shaped, Locals
<1>3. ctx' = [ctx EXCEPT ![w] = c]
  BY <1>1
<1> HIDE DEF c
<1> QED
  BY <1>2, <1>3 DEF Shaped, Others

LEMMA InsertItemEffect ==
  ASSUME Shaped, NEW w \in Workers, InsertItem(w)
  PROVE  /\ Others(w)
         /\ ctx'[w].pc = "deduct" /\ ctx'[w].line = ctx[w].line
         /\ ctx'[w].order = ctx[w].order /\ ctx'[w].row = ctx[w].row
         /\ ctx'[w].cart = ctx[w].cart /\ ctx'[w].resolved = ctx[w].resolved
         /\ ctx'[w].ref = ctx[w].ref /\ ctx'[w].total = ctx[w].total
  BY DEF InsertItem, Shaped, Locals, Others

LEMMA DeductEffect ==
  ASSUME Shaped, NEW w \in Workers, Deduct(w)
  PROVE  /\ Others(w)
         /\ ctx'[w].pc = (IF ctx[w].line = Len(ctx[w].resolved) THEN "genRead"
                                                               ELSE "insertItem")
         /\ ctx'[w].line = ctx[w].line + 1
         /\ ctx'[w].total = ctx[w].total + Resolved(w).price * Resolved(w).quantity
         /\ ctx'[w].order = ctx[w].order /\ ctx'[w].row = ctx[w].row
         /\ ctx'[w].cart = ctx[w].cart /\ ctx'[w].resolved = ctx[w].resolved
         /\ ctx'[w].ref = ctx[w].ref
<1> DEFINE total == ctx[w].total + Resolved(w).price * Resolved(w).quantity
           line == ctx[w].line + 1
           pc == IF ctx[w].line = Len(ctx[w].resolved) THEN "genRead" ELSE "insertItem"
           c == [ctx[w] EXCEPT !.total = total, !.line = line, !.pc = pc]
<1>1. ctx' = [ctx EXCEPT ![w] = c]
  BY DEF Deduct
<1>2. /\ c.pc = pc /\ c.line = line /\ c.total = total
      /\ c.order = ctx[w].order /\ c.row = ctx[w].row /\ c.cart = ctx[w].cart
      /\ c.resolved = ctx[w].resolved /\ c.ref = ctx[w].ref
  <2> HIDE DEF total, line, pc
  <2> QED
    BY DEF Shaped, Locals
<1> HIDE DEF c
<1> QED
  BY <1>1, <1>2 DEF Shaped, Others

LEMMA GenEffect ==
  ASSUME Shaped, NEW w \in Workers, GenRead(w) \/ GenStep(w)
  PROVE  /\ Others(w)
         /\ \/ /\ GenRead(w) /\ ctx[w].pc = "genRead" /\ ctx'[w].pc = "genStep"
               /\ ctx'[w].ref = gen /\ gen' = gen
            \/ /\ GenStep(w) /\ ctx[w].pc = "genStep" /\ ctx'[w].pc = "insertPayment"
               /\ ctx'[w].ref = ctx[w].ref /\ gen' = ctx[w].ref + 1
         /\ ctx'[w].line = ctx[w].line
         /\ ctx'[w].order = ctx[w].order /\ ctx'[w].row = ctx[w].row
         /\ ctx'[w].cart = ctx[w].cart /\ ctx'[w].resolved = ctx[w].resolved
         /\ ctx'[w].total = ctx[w].total
<1>1. CASE GenRead(w)
  BY <1>1 DEF GenRead, Shaped, Locals, Others
<1>2. CASE GenStep(w)
  BY <1>2 DEF GenStep, Shaped, Locals, Others
<1> QED
  BY <1>1, <1>2

LEMMA CallbackEffect ==
  ASSUME Shaped, NEW w \in Workers, Callback(w)
  PROVE  /\ Others(w) /\ ctx'[w].pc = "find" /\ ctx'[w].total = 0
         /\ \E f \in forms : ctx'[w].ref = f.ref
<1>1. PICK f \in forms, status \in Reports, off \in Misreports :
        ctx' = [ctx EXCEPT ![w] = [NoHandler EXCEPT !.pc = "find", !.ref = f.ref,
                                     !.good = Succeeds(status), !.amount = f.amount + off]]
  BY DEF Callback
<1> DEFINE sum == f.amount + off
           good == Succeeds(status)
           c == [NoHandler EXCEPT !.pc = "find", !.ref = f.ref, !.good = good, !.amount = sum]
<1>2. c.pc = "find" /\ c.total = 0 /\ c.ref = f.ref
  <2> HIDE DEF sum, good
  <2> QED
    BY DEF NoHandler
<1>3. ctx' = [ctx EXCEPT ![w] = c]
  BY <1>1
<1> HIDE DEF c
<1> QED
  BY <1>2, <1>3 DEF Shaped, Others

LEMMA MarkingEffect ==
  ASSUME Shaped, NEW w \in Workers, Find(w) \/ MarkPayment(w)
  PROVE  /\ Others(w) /\ ctx'[w].pc \in {"markPayment", "markOrder"}
         /\ ctx'[w].ref = ctx[w].ref /\ ctx'[w].total = ctx[w].total
<1>1. CASE Find(w)
  <2>1. PICK p : ctx' = [ctx EXCEPT ![w].pc = "markPayment", ![w].order = p.order]
    BY <1>1 DEF Find
  <2> DEFINE o == p.order
  <2>2. ctx' = [ctx EXCEPT ![w].pc = "markPayment", ![w].order = o]
    BY <2>1
  <2> HIDE DEF o
  <2> QED
    BY <2>2 DEF Shaped, Locals, Others
<1>2. CASE MarkPayment(w)
  BY <1>2 DEF MarkPayment, Shaped, Locals, Others
<1> QED
  BY <1>1, <1>2
-----------------------------------------------------------------------------
(***************************************************************************)
(* The types of everything, which need what the handlers know: the row of  *)
(* an order that a worker writes exists, what it has looked up is the      *)
(* beginning of its cart, and the sets of rows are finite, so that sums over *)
(* them and the largest ref exist.                                         *)
(***************************************************************************)
\* The handlers that have a row in Orders, and those that know its number.
Writing == {"insertItem", "deduct", "genRead", "genStep", "insertPayment"}
Ordering == {"identity"} \cup Writing
Bought == [product : Products, quantity : Nat \ {0}, price : Int]
OrderLines == [row : Nat, line : Nat, order : Nat, product : Products,
               quantity : Nat \ {0}, price : Int]

\* What a checkout has looked up is the beginning of its cart.
Resolves(w) ==
  /\ ctx[w].cart \in Carts
  /\ ctx[w].resolved \in Seq(Bought)
  /\ Len(ctx[w].resolved) <= Len(ctx[w].cart)
  /\ \A m \in 1..Len(ctx[w].resolved) :
       /\ ctx[w].resolved[m].product = ctx[w].cart[m].product
       /\ ctx[w].resolved[m].quantity = ctx[w].cart[m].quantity

\* What a handler has looked up, and where it is in its order.
Placed(w) ==
  /\ ctx[w].pc \in Handlers /\ ctx[w].ref \in Nat /\ ctx[w].total \in Int
  /\ ctx[w].pc \in {"lookup", "insertOrder"} \cup Ordering => Resolves(w)
  /\ ctx[w].pc = "lookup" => Len(ctx[w].resolved) < Len(ctx[w].cart)
  /\ ctx[w].pc \in {"insertOrder"} \cup Ordering => Len(ctx[w].resolved) = Len(ctx[w].cart)
  /\ ctx[w].pc \in Ordering => ctx[w].row \in DOMAIN orders
  /\ ctx[w].pc \in Writing => ctx[w].order \in {ctx[w].row, 0}
  /\ ctx[w].pc \in {"insertItem", "deduct"} => ctx[w].line \in 1..Len(ctx[w].resolved)

\* The tables, and the forms that customers were given.
Shelved ==
  /\ DOMAIN catalog \subseteq Products
  /\ catalog \in [DOMAIN catalog -> [price : Int, stock : Int]]
Filed ==
  /\ orders \in Seq(Statuses)
  /\ IsFiniteSet(items) /\ items \subseteq OrderLines
  /\ \A i \in items : /\ i.row \in DOMAIN orders /\ i.order \in {i.row, 0}
                      /\ i.product \in DOMAIN catalog
  /\ IsFiniteSet(payments)
  /\ \A p \in payments : /\ p.row \in DOMAIN orders /\ p.order \in {p.row, 0}
                         /\ p.status \in {"Pending", "Paid", "Failed"} /\ p.ref \in Nat
  /\ refused \subseteq DOMAIN orders
Formed == IsFiniteSet(forms) /\ \A f \in forms : f.row \in DOMAIN orders /\ f.ref \in Nat

\* The inductive invariant.
Typed ==
  /\ Shelved /\ Filed /\ Formed /\ gen \in Nat
  /\ \A w \in Workers : Placed(w)

LEMMA TypedIsTypeOK == Typed => TypeOK
  BY DEF Typed, TypeOK, Shelved, Filed, Placed, OrderLines

LEMMA InitTyped == Init => Typed
<1> SUFFICES ASSUME Init PROVE Typed
  OBVIOUS
<1>1. Shelved
  BY IntegersAreSet DEF Init, Shelved
<1>2. Filed /\ Formed
  <2>1. IsFiniteSet({}) /\ orders = <<>> /\ orders \in Seq(Statuses)
    BY FS_EmptySet DEF Init
  <2> QED
    BY <2>1 DEF Init, Filed, Formed
<1>3. \A w \in Workers : Placed(w)
  BY DEF Init, Placed, NoHandler, Handlers, Ordering, Writing
<1> QED
  BY <1>1, <1>2, <1>3 DEF Init, Typed

\* A worker that a step leaves alone; an order once created stays.
LEMMA StaysPlaced ==
  ASSUME NEW v \in Workers, Placed(v), ctx'[v] = ctx[v], DOMAIN orders \subseteq DOMAIN orders'
  PROVE  Placed(v)'
  BY DEF Placed, Resolves

LEMMA OthersStayPlaced ==
  ASSUME Typed, NEW w \in Workers, Others(w), Placed(w)', DOMAIN orders \subseteq DOMAIN orders'
  PROVE  \A v \in Workers : Placed(v)'
  BY StaysPlaced DEF Typed, Others

\* The steps that neither touch a table nor hand out a form.
LEMMA QuietKeepsTyped ==
  ASSUME Typed, UNCHANGED <<catalog, orders, items, payments, forms>>,
         refused' \subseteq DOMAIN orders, gen' \in Nat,
         NEW w \in Workers, Others(w), Placed(w)'
  PROVE  Typed'
<1>1. Shelved' /\ Filed' /\ Formed'
  BY DEF Typed, Shelved, Filed, Formed
<1>2. \A v \in Workers : Placed(v)'
  BY OthersStayPlaced
<1> QED
  BY <1>1, <1>2 DEF Typed

LEMMA RepliedIsPlaced ==
  ASSUME Shaped, NEW w \in Workers, Reply(w)
  PROVE  Others(w) /\ Placed(w)'
  BY ReplyEffect DEF Placed, Handlers, Ordering, Writing

\* A checkout begins with an empty order and a cart of lines.
LEMMA CheckoutKeepsTyped ==
  ASSUME Inv, Typed, NEW w \in Workers, NEW cart \in Carts, Checkout(w, cart)
  PROVE  Typed'
<1>1. /\ Others(w) /\ ctx'[w].pc = "lookup" /\ ctx'[w].cart = cart
      /\ ctx'[w].resolved = <<>> /\ ctx'[w].ref = 0 /\ ctx'[w].total = 0
  BY CheckoutEffect DEF Inv
<1>2. UNCHANGED <<catalog, orders, items, payments, forms, refused, gen>>
  BY DEF Checkout, tables
<1>3. Len(cart) \in Nat /\ Len(cart) > 0
  BY CartsHaveLines
<1>4. Placed(w)'
  <2>1. Len(<<>>) = 0 /\ <<>> \in Seq(Bought) /\ 1..0 = {}
    OBVIOUS
  <2>2. Len(ctx'[w].resolved) = 0 /\ ctx'[w].resolved \in Seq(Bought)
    BY <1>1, <2>1
  <2>3. Resolves(w)'
    BY <1>1, <1>3, <2>1, <2>2 DEF Resolves
  <2> QED
    BY <1>1, <1>3, <2>2, <2>3 DEF Placed, Handlers, Ordering, Writing
<1>5. refused \subseteq DOMAIN orders /\ gen \in Nat
  BY DEF Typed, Filed
<1> QED
  BY <1>1, <1>2, <1>4, <1>5, QuietKeepsTyped

\* One more product is looked up, and it is the cart's next.
LEMMA LookUpKeepsTyped ==
  ASSUME Inv, Typed, NEW w \in Workers, LookUp(w)
  PROVE  Typed'
<1> DEFINE old == ctx[w].resolved
           line == Line(w)
           new == [product |-> line.product, quantity |-> line.quantity,
                   price |-> catalog[line.product].price]
           r == Append(old, new)
<1>1. /\ Others(w) /\ ctx'[w].resolved = r
      /\ ctx'[w].pc = (IF Len(r) = Len(ctx[w].cart) THEN "insertOrder" ELSE "lookup")
      /\ ctx'[w].cart = ctx[w].cart /\ ctx'[w].ref = ctx[w].ref
      /\ ctx'[w].total = ctx[w].total
  BY LookUpEffect DEF Inv
<1>2. /\ ctx[w].pc = "lookup" /\ Available(line)
      /\ UNCHANGED <<catalog, orders, items, payments, forms, refused, gen>>
  BY DEF LookUp, tables
<1>3. /\ Resolves(w) /\ old \in Seq(Bought) /\ ctx[w].cart \in Carts
      /\ ctx[w].ref \in Nat /\ ctx[w].total \in Int
      /\ Len(old) \in Nat /\ Len(old) < Len(ctx[w].cart) /\ Len(ctx[w].cart) \in Nat
  BY <1>2, CartsHaveLines DEF Typed, Placed, Resolves
<1>4. line = ctx[w].cart[Len(old) + 1] /\ line \in Lines
  <2>1. line = ctx[w].cart[Len(old) + 1]
    BY DEF Line
  <2>2. ctx[w].cart \in Seq(Lines)
    BY <1>3, CartsHaveLines
  <2>3. Len(old) + 1 \in 1..Len(ctx[w].cart)
    BY <1>3
  <2>4. \A i \in 1..Len(ctx[w].cart) : ctx[w].cart[i] \in Lines
    BY <2>2
  <2> HIDE DEF line, old
  <2> QED
    BY <2>1, <2>3, <2>4
<1>5. new \in Bought /\ new.product = line.product /\ new.quantity = line.quantity
  <2>1. /\ line.product \in DOMAIN catalog /\ line.quantity > 0
        /\ line.product \in Products /\ line.quantity \in Int
    BY <1>2, <1>4 DEF Available, Lines
  <2>2. catalog[line.product].price \in Int
    BY <2>1 DEF Typed, Shelved
  <2> QED
    BY <2>1, <2>2 DEF Bought
<1> HIDE DEF old, new, line
<1>6. /\ r \in Seq(Bought) /\ Len(r) = Len(old) + 1
      /\ \A m \in 1..Len(old) : r[m] = old[m]
      /\ r[Len(old) + 1] = new
  BY <1>3, <1>5
<1> HIDE DEF r
<1>7. Resolves(w)'
  <2>1. \A m \in 1..(Len(old) + 1) : /\ r[m].product = ctx[w].cart[m].product
                                     /\ r[m].quantity = ctx[w].cart[m].quantity
    <3> TAKE m \in 1..(Len(old) + 1)
    <3>1. CASE m = Len(old) + 1
      BY <1>4, <1>5, <1>6, <3>1
    <3>2. CASE m \in 1..Len(old)
      BY <1>3, <1>6, <3>2 DEF Resolves, old
    <3> QED
      BY <1>3, <3>1, <3>2
  <2> QED
    BY <1>1, <1>3, <1>6, <2>1 DEF Resolves
<1>8. Placed(w)'
  BY <1>1, <1>3, <1>6, <1>7 DEF Placed, Handlers, Ordering, Writing
<1>9. refused \subseteq DOMAIN orders /\ gen \in Nat
  BY DEF Typed, Filed
<1> QED
  BY <1>1, <1>2, <1>8, <1>9, QuietKeepsTyped

\* The steps that write no table, but go on to the next statement.
LEMMA GoingOnKeepsTyped ==
  ASSUME Inv, Typed, NEW w \in Workers,
         \/ LookUpRejects(w) \/ Identity(w) \/ InsertItemFails(w) \/ GenRead(w) \/ GenStep(w)
         \/ Callback(w) \/ Find(w) \/ FindStops(w)
  PROVE  Typed'
<1>1. UNCHANGED <<catalog, orders, items, payments, forms>>
  BY DEF LookUpRejects, Identity, InsertItemFails, GenRead, GenStep, Callback, Find,
         FindStops, tables
<1>2. refused \subseteq DOMAIN orders /\ gen \in Nat /\ Placed(w)
  BY DEF Typed, Filed
<1>3. CASE LookUpRejects(w) \/ FindStops(w)
  BY <1>1, <1>2, <1>3, RepliedIsPlaced, QuietKeepsTyped DEF LookUpRejects, FindStops, Inv
<1>4. CASE InsertItemFails(w)
  <2>1. refused' \subseteq DOMAIN orders
    BY <1>2, <1>4 DEF InsertItemFails, Placed, Ordering, Writing
  <2> QED
    BY <1>1, <1>2, <1>4, <2>1, RepliedIsPlaced, QuietKeepsTyped DEF InsertItemFails, Inv
<1>5. CASE Identity(w)
  <2>1. /\ Others(w)
        /\ ctx'[w].pc = "insertItem" /\ ctx'[w].line = 1
        /\ ctx'[w].order \in {ctx[w].row, 0} /\ ctx'[w].row = ctx[w].row
        /\ ctx'[w].cart = ctx[w].cart /\ ctx'[w].resolved = ctx[w].resolved
        /\ ctx'[w].ref = ctx[w].ref /\ ctx'[w].total = ctx[w].total
    BY <1>5, IdentityEffect DEF Inv
  <2>2. ctx[w].pc = "identity" /\ gen' = gen /\ refused' = refused /\ orders' = orders
    BY <1>5 DEF Identity, tables
  <2>3. Resolves(w)' /\ Len(ctx[w].resolved) > 0 /\ Len(ctx[w].resolved) \in Nat
    BY <1>2, <2>1, <2>2, CartsHaveLines DEF Placed, Resolves, Ordering
  <2>4. 1 \in 1..Len(ctx[w].resolved)
    BY <2>3
  <2>5. Placed(w)'
    BY <1>2, <2>1, <2>2, <2>3, <2>4 DEF Placed, Handlers, Ordering, Writing
  <2> QED
    BY <1>1, <1>2, <2>1, <2>2, <2>5, QuietKeepsTyped
<1>6. CASE GenRead(w) \/ GenStep(w)
  <2>1. /\ Others(w)
        /\ \/ ctx[w].pc = "genRead" /\ ctx'[w].pc = "genStep" /\ ctx'[w].ref = gen /\ gen' = gen
           \/ /\ ctx[w].pc = "genStep" /\ ctx'[w].pc = "insertPayment"
              /\ ctx'[w].ref = ctx[w].ref /\ gen' = ctx[w].ref + 1
        /\ ctx'[w].order = ctx[w].order /\ ctx'[w].row = ctx[w].row
        /\ ctx'[w].cart = ctx[w].cart /\ ctx'[w].resolved = ctx[w].resolved
        /\ ctx'[w].total = ctx[w].total
    BY <1>6, GenEffect DEF Inv
  <2>2. refused' = refused /\ orders' = orders
    BY <1>6 DEF GenRead, GenStep, tables
  <2>3. Resolves(w)'
    BY <1>2, <2>1 DEF Placed, Resolves, Ordering, Writing
  <2>4. Placed(w)' /\ gen' \in Nat
    BY <1>2, <2>1, <2>2, <2>3 DEF Placed, Handlers, Ordering, Writing
  <2> QED
    BY <1>1, <1>2, <2>1, <2>2, <2>4, QuietKeepsTyped
<1>7. CASE Callback(w) \/ Find(w)
  <2>1. /\ Others(w) /\ ctx'[w].pc \in {"find", "markPayment", "markOrder"}
        /\ ctx'[w].ref \in Nat /\ ctx'[w].total \in Int
    BY <1>2, <1>7, CallbackEffect, MarkingEffect DEF Inv, Typed, Formed, Placed
  <2>2. refused' = refused /\ gen' = gen
    BY <1>7 DEF Callback, Find
  <2>3. Placed(w)'
    BY <2>1 DEF Placed, Handlers, Ordering, Writing
  <2> QED
    BY <1>1, <1>2, <2>1, <2>2, <2>3, QuietKeepsTyped
<1> QED
  BY <1>3, <1>4, <1>5, <1>6, <1>7

\* The row of the new order exists from here on.
LEMMA InsertOrderKeepsTyped ==
  ASSUME Inv, Typed, NEW w \in Workers, InsertOrder(w)
  PROVE  Typed'
<1>1. UNCHANGED <<catalog, items, payments, forms, refused, gen>>
  BY DEF InsertOrder
<1>2. /\ refused \subseteq DOMAIN orders /\ gen \in Nat /\ Placed(w)
      /\ ctx[w].pc = "insertOrder" /\ orders \in Seq(Statuses)
  BY DEF Typed, Filed, InsertOrder
<1>3. CASE Reply(w) /\ orders' = orders
  BY <1>1, <1>2, <1>3, RepliedIsPlaced, QuietKeepsTyped DEF Inv
<1>4. CASE /\ Others(w) /\ orders' = Append(orders, "New")
           /\ ctx'[w].pc = "identity" /\ ctx'[w].row = Len(orders) + 1
           /\ ctx'[w].cart = ctx[w].cart /\ ctx'[w].resolved = ctx[w].resolved
           /\ ctx'[w].ref = ctx[w].ref /\ ctx'[w].total = ctx[w].total
  <2>1. /\ orders' \in Seq(Statuses) /\ DOMAIN orders \subseteq DOMAIN orders'
        /\ Len(orders) + 1 \in DOMAIN orders'
    BY <1>2, <1>4 DEF Statuses
  <2>2. Filed' /\ Formed' /\ Shelved'
    BY <1>1, <2>1 DEF Typed, Filed, Formed, Shelved
  <2>3. Resolves(w)'
    BY <1>2, <1>4 DEF Placed, Resolves
  <2>4. Placed(w)'
    BY <1>2, <1>4, <2>1, <2>3 DEF Placed, Handlers, Ordering, Writing
  <2> QED
    BY <1>1, <1>2, <1>4, <2>1, <2>2, <2>4, OthersStayPlaced DEF Typed
<1> QED
  BY <1>3, <1>4, InsertOrderEffect DEF Inv

\* The product of the new line exists: the foreign key saw to it.
LEMMA InsertItemKeepsTyped ==
  ASSUME Inv, Typed, NEW w \in Workers, InsertItem(w)
  PROVE  Typed'
<1> DEFINE new == [row |-> ctx[w].row, line |-> ctx[w].line, order |-> ctx[w].order,
                   product |-> Resolved(w).product, quantity |-> Resolved(w).quantity,
                   price |-> Resolved(w).price]
<1>1. /\ UNCHANGED <<catalog, orders, payments, forms, refused, gen>>
      /\ ctx[w].pc = "insertItem" /\ Resolved(w).product \in DOMAIN catalog
      /\ items' = items \cup {new}
  BY DEF InsertItem
<1>2. Placed(w) /\ Resolves(w) /\ ctx[w].line \in 1..Len(ctx[w].resolved)
  BY <1>1 DEF Typed, Placed, Ordering, Writing
<1>3. ctx[w].row \in DOMAIN orders /\ ctx[w].order \in {ctx[w].row, 0}
  BY <1>1, <1>2 DEF Placed, Ordering, Writing
<1>4. Resolved(w) \in Bought
  BY <1>2 DEF Resolves, Resolved
<1>5. /\ new \in OrderLines /\ new.row \in DOMAIN orders /\ new.order \in {new.row, 0}
      /\ new.product \in DOMAIN catalog
  <2>1. DOMAIN orders \subseteq Nat
    BY DEF Typed, Filed
  <2>2. ctx[w].line \in Nat
    BY <1>2 DEF Resolves
  <2> QED
    BY <1>1, <1>3, <1>4, <2>1, <2>2 DEF Bought, OrderLines
<1> HIDE DEF new
<1>6. Filed'
  <2>1. IsFiniteSet(items')
    BY <1>1, FS_AddElement DEF Typed, Filed
  <2> QED
    BY <1>1, <1>5, <2>1 DEF Typed, Filed
<1>7. Formed' /\ Shelved'
  BY <1>1 DEF Typed, Formed, Shelved
<1>8. /\ Others(w)
      /\ ctx'[w].pc = "deduct" /\ ctx'[w].line = ctx[w].line
      /\ ctx'[w].order = ctx[w].order /\ ctx'[w].row = ctx[w].row
      /\ ctx'[w].cart = ctx[w].cart /\ ctx'[w].resolved = ctx[w].resolved
      /\ ctx'[w].ref = ctx[w].ref /\ ctx'[w].total = ctx[w].total
  BY InsertItemEffect DEF Inv
<1>9. Placed(w)'
  <2>1. Resolves(w)'
    BY <1>2, <1>8 DEF Resolves
  <2> QED
    BY <1>1, <1>2, <1>8, <2>1 DEF Placed, Handlers, Ordering, Writing
<1> QED
  BY <1>1, <1>6, <1>7, <1>8, <1>9, OthersStayPlaced DEF Typed

\* The product is there to deduct from, and the next line, if any, is in the cart.
LEMMA DeductKeepsTyped ==
  ASSUME Inv, Typed, NEW w \in Workers, Deduct(w)
  PROVE  Typed'
<1> DEFINE k == Resolved(w).product
           q == Resolved(w).quantity
<1>1. /\ UNCHANGED <<orders, items, payments, forms, refused, gen>>
      /\ ctx[w].pc = "deduct"
      /\ \/ catalog' = [catalog EXCEPT ![k].stock = @ - q]
         \/ catalog' = catalog
  BY DEF Deduct
<1>2. Placed(w) /\ Resolves(w) /\ ctx[w].line \in 1..Len(ctx[w].resolved)
  BY <1>1 DEF Typed, Placed, Ordering, Writing
<1>3. Resolved(w) \in Bought
  BY <1>2 DEF Resolves, Resolved
<1>4. /\ q \in Int /\ Resolved(w).price * q \in Int
  BY <1>3 DEF Bought
<1>5. Shelved' /\ DOMAIN catalog' = DOMAIN catalog
  <2> HIDE DEF k, q
  <2>1. CASE catalog' = [catalog EXCEPT ![k].stock = @ - q] /\ k \in DOMAIN catalog
    <3>1. catalog[k].stock - q \in Int /\ catalog[k] \in [price : Int, stock : Int]
      BY <1>4, <2>1 DEF Typed, Shelved
    <3> QED
      BY <2>1, <3>1 DEF Typed, Shelved
  <2>2. CASE catalog' = catalog
    BY <2>2 DEF Typed, Shelved
  <2>3. CASE catalog' = [catalog EXCEPT ![k].stock = @ - q] /\ k \notin DOMAIN catalog
    BY <2>3 DEF Typed, Shelved
  <2> QED
    BY <1>1, <2>1, <2>2, <2>3
<1>6. Filed' /\ Formed'
  BY <1>1, <1>5 DEF Typed, Filed, Formed
<1>7. /\ Others(w)
      /\ ctx'[w].pc = (IF ctx[w].line = Len(ctx[w].resolved) THEN "genRead" ELSE "insertItem")
      /\ ctx'[w].line = ctx[w].line + 1
      /\ ctx'[w].total = ctx[w].total + Resolved(w).price * Resolved(w).quantity
      /\ ctx'[w].order = ctx[w].order /\ ctx'[w].row = ctx[w].row
      /\ ctx'[w].cart = ctx[w].cart /\ ctx'[w].resolved = ctx[w].resolved
      /\ ctx'[w].ref = ctx[w].ref
  BY DeductEffect DEF Inv
<1>8. Placed(w)'
  <2>1. Resolves(w)' /\ Len(ctx[w].resolved) \in Nat
    BY <1>2, <1>7 DEF Resolves
  <2>2. ctx'[w].total \in Int
    BY <1>2, <1>4, <1>7 DEF Placed
  <2>3. ctx'[w].pc = "insertItem" => ctx'[w].line \in 1..Len(ctx'[w].resolved)
    BY <1>2, <1>7, <2>1
  <2>4. ctx'[w].pc \in {"genRead", "insertItem"}
    BY <1>7
  <2>5. Len(ctx[w].resolved) = Len(ctx[w].cart) /\ ctx[w].row \in DOMAIN orders
        /\ ctx[w].order \in {ctx[w].row, 0} /\ ctx[w].ref \in Nat
    BY <1>1, <1>2 DEF Placed, Ordering, Writing
  <2>6. /\ Len(ctx'[w].resolved) = Len(ctx'[w].cart) /\ ctx'[w].row \in DOMAIN orders'
        /\ ctx'[w].order \in {ctx'[w].row, 0} /\ ctx'[w].ref \in Nat
    BY <1>1, <1>7, <2>5
  <2> QED
    BY <2>1, <2>2, <2>3, <2>4, <2>6 DEF Placed, Handlers, Ordering, Writing
<1> QED
  BY <1>1, <1>5, <1>6, <1>7, <1>8, OthersStayPlaced DEF Typed

LEMMA InsertPaymentKeepsTyped ==
  ASSUME Inv, Typed, NEW w \in Workers, Pays(w)
  PROVE  Typed'
<1> DEFINE new == NewPayment(w)
           form == NewForm(w)
<1>1. /\ UNCHANGED <<catalog, orders, items, gen>>
      /\ ctx[w].pc = "insertPayment" /\ Reply(w)
      /\ payments' = payments \cup {new} \/ payments' = payments
      /\ forms' = forms \cup {form} \/ forms' = forms
      /\ refused' = refused \cup {ctx[w].row} \/ refused' = refused
  BY DEF Pays
<1>2. /\ ctx[w].row \in DOMAIN orders /\ ctx[w].order \in {ctx[w].row, 0} /\ ctx[w].ref \in Nat
  BY <1>1 DEF Typed, Placed, Ordering, Writing
<1>3. /\ new.row \in DOMAIN orders /\ new.order \in {new.row, 0} /\ new.status = "Pending"
      /\ new.ref \in Nat /\ form.row \in DOMAIN orders /\ form.ref \in Nat
  BY <1>2 DEF NewPayment, NewForm
<1> HIDE DEF new, form
<1>4. IsFiniteSet(payments') /\ IsFiniteSet(forms')
  BY <1>1, FS_AddElement DEF Typed, Filed, Formed
<1>5. Filed' /\ Formed' /\ Shelved'
  BY <1>1, <1>2, <1>3, <1>4 DEF Typed, Filed, Formed, Shelved
<1> QED
  BY <1>1, <1>5, RepliedIsPlaced, OthersStayPlaced DEF Typed, Inv

LEMMA MarkPaymentKeepsTyped ==
  ASSUME Inv, Typed, NEW w \in Workers, MarkPayment(w)
  PROVE  Typed'
<1> DEFINE mark == [p \in payments |->
                      [p EXCEPT !.status = IF ctx[w].good THEN "Paid" ELSE "Failed"]]
           rows == RowsOf(ctx[w].ref)
<1>1. /\ UNCHANGED <<catalog, orders, items, forms, refused, gen>>
      /\ \/ payments' = (payments \ rows) \cup {mark[p] : p \in rows}
         \/ payments' = payments
  BY DEF MarkPayment, RowsOf
<1>2. \A p \in payments : /\ mark[p].row = p.row /\ mark[p].order = p.order
                          /\ mark[p].ref = p.ref /\ mark[p].status \in {"Paid", "Failed"}
  BY DEF Inv, Shaped, Columns
<1>3. rows \subseteq payments
  BY DEF RowsOf
<1> HIDE DEF mark, rows
<1>4. IsFiniteSet(payments')
  <2>1. IsFiniteSet(rows) /\ IsFiniteSet(payments \ rows)
    BY <1>3, FS_Subset DEF Typed, Filed
  <2>2. IsFiniteSet({mark[p] : p \in rows})
    BY <2>1, FiniteImage
  <2> QED
    BY <1>1, <2>1, <2>2, FS_Union DEF Typed, Filed
<1>5. Filed' /\ Formed' /\ Shelved'
  BY <1>1, <1>2, <1>3, <1>4 DEF Typed, Filed, Formed, Shelved
<1>6. Others(w) /\ Placed(w)'
  BY MarkingEffect DEF Inv, Typed, Placed, Handlers, Ordering, Writing
<1> QED
  BY <1>1, <1>5, <1>6, OthersStayPlaced DEF Typed

LEMMA MarkOrderKeepsTyped ==
  ASSUME Inv, Typed, NEW w \in Workers, MarkOrder(w)
  PROVE  Typed'
<1>1. UNCHANGED <<catalog, items, payments, forms, refused, gen>> /\ Reply(w)
  BY DEF MarkOrder
<1>2. orders' \in Seq(Statuses) /\ DOMAIN orders' = DOMAIN orders
  BY NextKeepsInv DEF Inv, Shaped, Next, CallbackStep, Typed, Filed, MarkOrder
<1>3. Filed' /\ Formed' /\ Shelved'
  BY <1>1, <1>2 DEF Typed, Filed, Formed, Shelved
<1> QED
  BY <1>1, <1>2, <1>3, RepliedIsPlaced, OthersStayPlaced DEF Typed, Inv

\* A product with lines is not deleted.
LEMMA EditKeepsTyped ==
  ASSUME Inv, Typed, NEW w \in Workers, NEW p \in Products,
         UpdateProduct(w, p) \/ DeleteProduct(w, p)
  PROVE  Typed'
<1>1. UNCHANGED <<orders, items, payments, gen, ctx, forms, refused>>
  BY DEF UpdateProduct, DeleteProduct
<1>2. Shelved' /\ \A i \in items : i.product \in DOMAIN catalog'
  <2>1. CASE UpdateProduct(w, p)
    BY <2>1, IntegersAreSet DEF UpdateProduct, Typed, Shelved, Filed
  <2>2. CASE DeleteProduct(w, p)
    BY <2>2 DEF DeleteProduct, Typed, Shelved, Filed
  <2> QED
    BY <2>1, <2>2
<1>3. Filed' /\ Formed'
  BY <1>1, <1>2 DEF Typed, Filed, Formed
<1>4. \A v \in Workers : Placed(v)'
  BY <1>1, StaysPlaced DEF Typed
<1> QED
  BY <1>1, <1>2, <1>3, <1>4 DEF Typed

\* The new seed is above every ref there is: there are finitely many.
LEMMA CrashKeepsTyped ==
  ASSUME Inv, Typed, Crash
  PROVE  Typed'
<1>1. /\ UNCHANGED <<catalog, orders, items, payments, forms, refused>>
      /\ ctx' = [w \in Workers |-> NoHandler]
  BY DEF Crash, tables
<1> DEFINE local == [w \in Workers |-> ctx[w].ref]
           column == [p \in payments |-> p.ref]
           field == [f \in forms |-> f.ref]
           drawn == {gen} \cup {local[w] : w \in Workers}
                      \cup {column[p] : p \in payments} \cup {field[f] : f \in forms}
<1>2. gen' = 1 + Max(drawn)
  BY DEF Crash
<1>3. /\ IsFiniteSet({local[w] : w \in Workers}) /\ IsFiniteSet({gen})
      /\ IsFiniteSet({column[p] : p \in payments}) /\ IsFiniteSet({field[f] : f \in forms})
  <2>1. IsFiniteSet(Workers) /\ IsFiniteSet(payments) /\ IsFiniteSet(forms)
    BY FinitelyManyWorkers DEF Typed, Filed, Formed
  <2> HIDE DEF local, column, field
  <2>2. IsFiniteSet({gen})
    BY FS_Singleton
  <2>3. IsFiniteSet({local[w] : w \in Workers})
    BY <2>1, FiniteImage
  <2>4. IsFiniteSet({column[p] : p \in payments})
    BY <2>1, FiniteImage
  <2>5. IsFiniteSet({field[f] : f \in forms})
    BY <2>1, FiniteImage
  <2> QED
    BY <2>2, <2>3, <2>4, <2>5
<1>4. IsFiniteSet(drawn)
  BY <1>3, FS_Union
<1>5. drawn \subseteq Nat /\ gen \in drawn
  BY DEF Typed, Filed, Formed, Placed
<1> HIDE DEF drawn
<1>6. gen' \in Nat
  <2>1. drawn \subseteq Int /\ drawn # {}
    BY <1>5
  <2>2. Max(drawn) \in drawn
    BY <1>4, <2>1, FiniteSetHasMaximum
  <2>3. Max(drawn) \in Nat
    BY <1>5, <2>2
  <2>4. \A n \in Nat : 1 + n \in Nat
    OBVIOUS
  <2> QED
    BY <1>2, <2>3, <2>4
<1>7. \A w \in Workers : Placed(w)'
  BY <1>1 DEF Placed, NoHandler, Handlers, Ordering, Writing
<1>8. Shelved' /\ Filed' /\ Formed'
  BY <1>1 DEF Typed, Shelved, Filed, Formed
<1> QED
  BY <1>6, <1>7, <1>8 DEF Typed

LEMMA NextKeepsTyped == Inv /\ Typed /\ [Next]_vars => Typed'
<1> SUFFICES ASSUME Inv, Typed, [Next]_vars PROVE Typed'
  OBVIOUS
<1>1. CASE UNCHANGED vars
  <2>1. Shelved' /\ Filed' /\ Formed' /\ gen' \in Nat
    BY <1>1 DEF vars, Typed, Shelved, Filed, Formed
  <2>2. \A w \in Workers : Placed(w)'
    BY <1>1, StaysPlaced DEF vars, Typed
  <2> QED
    BY <2>1, <2>2 DEF Typed
<1> QED
  BY <1>1, EitherPays, CheckoutKeepsTyped, LookUpKeepsTyped, GoingOnKeepsTyped, InsertOrderKeepsTyped,
     InsertItemKeepsTyped, DeductKeepsTyped, InsertPaymentKeepsTyped, MarkPaymentKeepsTyped,
     MarkOrderKeepsTyped, EditKeepsTyped, CrashKeepsTyped
  DEF Next, CheckoutStep, CallbackStep

\* Every table, form and handler always has its type: in particular every line
\* and every payment refers to an order that exists, and every line to a product.
THEOREM TypeCorrectness == Spec => []TypeOK
  BY TypedIsTypeOK, InitTyped, NextKeepsTyped, InitInv, NextKeepsInv, PTL DEF Spec
-----------------------------------------------------------------------------
(***************************************************************************)
(* The amounts.  While create_order is between two statements, the lines   *)
(* written of its order are the first of its cart and add up to the total it *)
(* has so far, which is one line behind before the deduction; nobody else  *)
(* writes that order.  The form and the payment copy the total of the whole *)
(* cart.                                                                   *)
(***************************************************************************)
\* The lines of an order in a table, their sum, and what they say of the cart.
LinesIn(t, row) == {i \in t : i.row = row}
SumOf(t, row) == Total(LinesIn(t, row))
KeysOf(t, row) == {<<i.line, i.product, i.quantity>> : i \in LinesIn(t, row)}
Asked(cart, n) == {<<m, cart[m].product, cart[m].quantity>> : m \in 1..n}

\* What is written of a worker's order: the lines up to the one it is at.
Written(w) ==
  /\ ctx[w].pc \in {"lookup", "insertOrder", "identity"} => ctx[w].total = 0
  /\ ctx[w].pc = "identity" => \A i \in items : i.row # ctx[w].row
  /\ ctx[w].pc = "insertItem" =>
       /\ SumOf(items, ctx[w].row) = ctx[w].total
       /\ KeysOf(items, ctx[w].row) = Asked(ctx[w].cart, ctx[w].line - 1)
  /\ ctx[w].pc = "deduct" =>
       /\ SumOf(items, ctx[w].row) = ctx[w].total + Resolved(w).price * Resolved(w).quantity
       /\ KeysOf(items, ctx[w].row) = Asked(ctx[w].cart, ctx[w].line)
  /\ ctx[w].pc \in {"genRead", "genStep", "insertPayment"} =>
       /\ SumOf(items, ctx[w].row) = ctx[w].total
       /\ KeysOf(items, ctx[w].row) = Asked(ctx[w].cart, Len(ctx[w].cart))

\* Nobody else writes the order, and it is not yet charged for.
OwnRow(w) ==
  ctx[w].pc \in Ordering =>
    /\ \A v \in Workers : v # w /\ ctx[v].pc \in Ordering => ctx[v].row # ctx[w].row
    /\ \A p \in payments : p.row # ctx[w].row
    /\ \A f \in forms : f.row # ctx[w].row

\* What has been charged is the sum of the order's lines, which are the cart's.
Charged ==
  /\ \A p \in payments : p.amount = SumOf(items, p.row)
  /\ \A f \in forms : /\ f.amount = SumOf(items, f.row) /\ f.cart \in Carts
                      /\ KeysOf(items, f.row) = Asked(f.cart, Len(f.cart))

Amounts == Charged /\ \A w \in Workers : OwnRow(w) /\ Written(w)

\* A line more adds its price times its quantity.
LEMMA TotalWith ==
  ASSUME NEW t, IsFiniteSet(t), t \subseteq OrderLines, NEW i \in OrderLines, i \notin t
  PROVE  /\ Total(t \cup {i}) = Total(t) + i.price * i.quantity
         /\ Total(t) \in Int
<1> DEFINE f == [j \in t \cup {i} |-> j.price * j.quantity]
           g == [j \in t |-> j.price * j.quantity]
<1>1. \A j \in OrderLines : j.price * j.quantity \in Int
  BY DEF OrderLines
<1>2. f \in [t \cup {i} -> Int] /\ g \in [t -> Int] /\ \A j \in t : f[j] = g[j]
  BY <1>1
<1>3. f[i] = i.price * i.quantity
  OBVIOUS
<1>4. Total(t \cup {i}) = SumFunction(f) /\ Total(t) = SumFunction(g)
  BY DEF Total
<1> HIDE DEF f, g
<1>5. /\ SumFunction(f) = f[i] + SumFunction(g)
      /\ SumFunction(g) \in Int /\ f[i] \in Int
  BY <1>2, SumOneMore
<1> QED
  BY <1>3, <1>4, <1>5

LEMMA TotalOfNothing == Total({}) = 0
  BY SumFunctionEmpty DEF Total

\* A line more belongs to its own order, and changes no other.
LEMMA OneMoreLine ==
  ASSUME NEW t, IsFiniteSet(t), t \subseteq OrderLines, NEW i \in OrderLines, i \notin t
  PROVE  /\ \A row : row # i.row => /\ SumOf(t \cup {i}, row) = SumOf(t, row)
                                    /\ KeysOf(t \cup {i}, row) = KeysOf(t, row)
         /\ SumOf(t \cup {i}, i.row) = SumOf(t, i.row) + i.price * i.quantity
         /\ KeysOf(t \cup {i}, i.row) = KeysOf(t, i.row) \cup {<<i.line, i.product, i.quantity>>}
<1>1. \A row : row # i.row => LinesIn(t \cup {i}, row) = LinesIn(t, row)
  BY DEF LinesIn
<1>2. LinesIn(t \cup {i}, i.row) = LinesIn(t, i.row) \cup {i}
  BY DEF LinesIn
<1>3. /\ IsFiniteSet(LinesIn(t, i.row)) /\ LinesIn(t, i.row) \subseteq OrderLines
      /\ i \notin LinesIn(t, i.row)
  BY FS_Subset DEF LinesIn
<1>4. Total(LinesIn(t, i.row) \cup {i}) = Total(LinesIn(t, i.row)) + i.price * i.quantity
  BY <1>3, TotalWith
<1>5. \A row : row # i.row => /\ SumOf(t \cup {i}, row) = SumOf(t, row)
                              /\ KeysOf(t \cup {i}, row) = KeysOf(t, row)
  BY <1>1, Zenon DEF SumOf, KeysOf
<1>6. KeysOf(t \cup {i}, i.row) = KeysOf(t, i.row) \cup {<<i.line, i.product, i.quantity>>}
  BY <1>2 DEF KeysOf
<1>7. SumOf(t \cup {i}, i.row) = SumOf(t, i.row) + i.price * i.quantity
  BY <1>2, <1>4 DEF SumOf
<1> QED
  BY <1>5, <1>6, <1>7

LEMMA NoLines ==
  ASSUME NEW t, NEW row, \A i \in t : i.row # row
  PROVE  SumOf(t, row) = 0 /\ KeysOf(t, row) = {}
<1>1. LinesIn(t, row) = {}
  BY DEF LinesIn
<1> QED
  BY <1>1, TotalOfNothing DEF SumOf, KeysOf

LEMMA OneMoreAsked ==
  ASSUME NEW cart, NEW n \in Nat \ {0}
  PROVE  /\ Asked(cart, n) =
              Asked(cart, n - 1) \cup {<<n, cart[n].product, cart[n].quantity>>}
         /\ \A p, q : <<n, p, q>> \notin Asked(cart, n - 1)
<1>1. 1..n = (1..(n - 1)) \cup {n} /\ n \notin 1..(n - 1)
  OBVIOUS
<1> QED
  BY <1>1 DEF Asked

\* This is what the property says in its own words.
LEMMA AmountsMeansIt == Amounts => AmountIsTheOrders
<1> SUFFICES ASSUME Charged PROVE AmountIsTheOrders
  BY DEF Amounts
<1>1. \A row : LinesOf(row) = LinesIn(items, row)
  BY DEF LinesOf, LinesIn
<1>2. \A f \in forms : DOMAIN f.cart = 1..Len(f.cart)
  BY CartsHaveLines DEF Charged
<1>3. \A p \in payments : p.amount = Total(LinesOf(p.row))
  BY <1>1 DEF Charged, SumOf
<1>4. \A f \in forms :
        /\ f.amount = Total(LinesOf(f.row))
        /\ {<<i.line, i.product, i.quantity>> : i \in LinesOf(f.row)} =
           {<<n, f.cart[n].product, f.cart[n].quantity>> : n \in DOMAIN f.cart}
  <2> TAKE f \in forms
  <2>1. f.amount = Total(LinesOf(f.row))
    BY <1>1 DEF Charged, SumOf
  <2>2. KeysOf(items, f.row) = {<<i.line, i.product, i.quantity>> : i \in LinesOf(f.row)}
    BY <1>1 DEF KeysOf
  <2>3. Asked(f.cart, Len(f.cart)) =
          {<<n, f.cart[n].product, f.cart[n].quantity>> : n \in DOMAIN f.cart}
    BY <1>2 DEF Asked
  <2> QED
    BY <2>1, <2>2, <2>3 DEF Charged
<1> QED
  BY <1>3, <1>4 DEF AmountIsTheOrders

LEMMA InitAmounts == Init => Amounts
  BY DEF Init, Amounts, Charged, OwnRow, Written, NoHandler, Ordering, Writing

\* A step that writes no line, payment or form, and stays on the worker's order.
LEMMA MovingKeepsAmounts ==
  ASSUME Amounts, NEW w \in Workers, Others(w), UNCHANGED <<items, payments, forms>>,
         ctx'[w].pc \in Ordering => ctx[w].pc \in Ordering /\ ctx'[w].row = ctx[w].row,
         Written(w)'
  PROVE  Amounts'
<1>1. Charged'
  BY DEF Amounts, Charged
<1>2. ASSUME NEW v \in Workers PROVE OwnRow(v)'
  <2>1. ctx'[v].pc \in Ordering => ctx[v].pc \in Ordering /\ ctx'[v].row = ctx[v].row
    BY DEF Others
  <2>2. \A u \in Workers : ctx'[u].pc \in Ordering =>
          ctx[u].pc \in Ordering /\ ctx'[u].row = ctx[u].row
    BY DEF Others
  <2> QED
    BY <2>1, <2>2 DEF Amounts, OwnRow
<1>3. ASSUME NEW v \in Workers, v # w PROVE Written(v)'
  <2>1. ctx'[v] = ctx[v] /\ items' = items
    BY <1>3 DEF Others
  <2> QED
    BY <2>1 DEF Amounts, Written, Resolved
<1> QED
  BY <1>1, <1>2, <1>3 DEF Amounts

\* A worker whose handler ends, or is not at an order.
LEMMA AwayKeepsAmounts ==
  ASSUME Amounts, NEW w \in Workers, Others(w), UNCHANGED <<items, payments, forms>>,
         ctx'[w].pc \in {"idle", "find", "markPayment", "markOrder"}
  PROVE  Amounts'
  BY MovingKeepsAmounts DEF Written, Ordering, Writing

\* The handler ends.
LEMMA ReplyKeepsAmounts ==
  ASSUME Inv, Amounts, NEW w \in Workers, Reply(w), UNCHANGED <<items, payments, forms>>
  PROVE  Amounts'
  BY ReplyEffect, AwayKeepsAmounts DEF Inv

\* Before the first line there is nothing to add up.
LEMMA LookingKeepsAmounts ==
  ASSUME Inv, Typed, Amounts, NEW w \in Workers,
         (\E cart \in Carts : Checkout(w, cart)) \/ LookUp(w) \/ Identity(w)
  PROVE  Amounts'
<1>1. UNCHANGED <<items, payments, forms>>
  BY DEF Checkout, LookUp, Identity, tables
<1>2. Written(w) /\ OwnRow(w)
  BY DEF Amounts
<1>3. CASE \E cart \in Carts : Checkout(w, cart)
  <2>1. Others(w) /\ ctx'[w].pc = "lookup" /\ ctx'[w].total = 0
    BY <1>3, CheckoutEffect DEF Inv
  <2>2. Written(w)'
    BY <2>1 DEF Written
  <2> QED
    BY <1>1, <2>1, <2>2, MovingKeepsAmounts DEF Ordering, Writing
<1>4. CASE LookUp(w)
  <2>1. Others(w) /\ ctx'[w].pc \in {"lookup", "insertOrder"} /\ ctx'[w].total = ctx[w].total
    BY <1>4, LookUpEffect DEF Inv
  <2>2. ctx[w].pc = "lookup"
    BY <1>4 DEF LookUp
  <2>3. Written(w)'
    BY <1>2, <2>1, <2>2 DEF Written
  <2> QED
    BY <1>1, <2>1, <2>3, MovingKeepsAmounts DEF Ordering, Writing
<1>5. CASE Identity(w)
  <2>1. /\ Others(w) /\ ctx'[w].pc = "insertItem" /\ ctx'[w].line = 1
        /\ ctx'[w].row = ctx[w].row /\ ctx'[w].cart = ctx[w].cart
        /\ ctx'[w].total = ctx[w].total
    BY <1>5, IdentityEffect DEF Inv
  <2>2. ctx[w].pc = "identity"
    BY <1>5 DEF Identity
  <2>3. SumOf(items, ctx[w].row) = 0 /\ KeysOf(items, ctx[w].row) = {} /\ ctx[w].total = 0
    BY <1>2, <2>2, NoLines DEF Written
  <2>4. Asked(ctx[w].cart, 1 - 1) = {}
    BY DEF Asked
  <2>5. /\ SumOf(items', ctx'[w].row) = ctx'[w].total
        /\ KeysOf(items', ctx'[w].row) = Asked(ctx'[w].cart, ctx'[w].line - 1)
    BY <1>1, <2>1, <2>3, <2>4
  <2>6. Written(w)'
    BY <2>1, <2>5 DEF Written
  <2> QED
    BY <1>1, <2>1, <2>2, <2>6, MovingKeepsAmounts DEF Ordering, Writing
<1> QED
  BY <1>3, <1>4, <1>5

\* A new order has no lines yet, and is nobody else's.
LEMMA InsertOrderKeepsAmounts ==
  ASSUME Inv, Typed, Amounts, NEW w \in Workers, InsertOrder(w)
  PROVE  Amounts'
<1>1. UNCHANGED <<items, payments, forms>> /\ ctx[w].pc = "insertOrder"
  BY DEF InsertOrder
<1>2. CASE Reply(w) /\ orders' = orders
  BY <1>1, <1>2, ReplyKeepsAmounts
<1>3. CASE /\ Others(w)
           /\ ctx'[w].pc = "identity" /\ ctx'[w].row = Len(orders) + 1
           /\ ctx'[w].total = ctx[w].total
  <2> DEFINE row == Len(orders) + 1
  <2>1. /\ row \notin DOMAIN orders
    BY DEF Typed, Filed
  <2>2. /\ \A i \in items : i.row # row
        /\ \A p \in payments : p.row # row
        /\ \A f \in forms : f.row # row
        /\ \A v \in Workers : v # w /\ ctx[v].pc \in Ordering => ctx[v].row # row
    BY <2>1 DEF Typed, Filed, Formed, Placed
  <2> HIDE DEF row
  <2>3. ctx'[w].row = row
    BY <1>3 DEF row
  <2>4. Charged'
    BY <1>1 DEF Amounts, Charged
  <2>5. Written(w)' /\ OwnRow(w)'
    BY <1>1, <1>3, <2>2, <2>3 DEF Amounts, Written, OwnRow, Others
  <2>6. ASSUME NEW v \in Workers, v # w PROVE Written(v)' /\ OwnRow(v)'
    <3>1. ctx'[v] = ctx[v] /\ items' = items
      BY <1>1, <1>3, <2>6 DEF Others
    <3>2. Written(v)'
      BY <3>1 DEF Amounts, Written, Resolved
    <3>3. OwnRow(v)'
      BY <1>1, <1>3, <2>2, <2>3, <2>6, <3>1 DEF Amounts, OwnRow, Others
    <3> QED
      BY <3>2, <3>3
  <2> QED
    BY <2>4, <2>5, <2>6 DEF Amounts
<1> QED
  BY <1>2, <1>3, InsertOrderEffect DEF Inv

\* The line is a new one of the worker's own order: the next of the cart.
LEMMA InsertItemIsNew ==
  ASSUME Inv, Typed, Amounts, NEW w \in Workers, InsertItem(w)
  PROVE  \E new \in OrderLines :
           /\ new \notin items /\ items' = items \cup {new}
           /\ new.row = ctx[w].row /\ new.line = ctx[w].line
           /\ new.product = Resolved(w).product /\ new.quantity = Resolved(w).quantity
           /\ new.price = Resolved(w).price
           /\ new.product = ctx[w].cart[ctx[w].line].product
           /\ new.quantity = ctx[w].cart[ctx[w].line].quantity
<1> DEFINE new == [row |-> ctx[w].row, line |-> ctx[w].line, order |-> ctx[w].order,
                   product |-> Resolved(w).product, quantity |-> Resolved(w).quantity,
                   price |-> Resolved(w).price]
<1>1. ctx[w].pc = "insertItem" /\ items' = items \cup {new}
  BY DEF InsertItem
<1>2. /\ Resolves(w) /\ ctx[w].line \in 1..Len(ctx[w].resolved)
      /\ ctx[w].line \in Nat \ {0}
  BY <1>1 DEF Typed, Placed, Resolves, Ordering, Writing
<1>3. /\ new.row = ctx[w].row /\ new.line = ctx[w].line
      /\ new.product = Resolved(w).product /\ new.quantity = Resolved(w).quantity
      /\ new.price = Resolved(w).price
      /\ new.product = ctx[w].cart[ctx[w].line].product
      /\ new.quantity = ctx[w].cart[ctx[w].line].quantity
  BY <1>2 DEF Resolves, Resolved
<1>4. new \in OrderLines
  <2>1. items' \subseteq OrderLines
    BY InsertItemKeepsTyped DEF Typed, Filed
  <2> QED
    BY <1>1, <2>1
<1> HIDE DEF new
<1>5. KeysOf(items, ctx[w].row) = Asked(ctx[w].cart, ctx[w].line - 1)
  BY <1>1 DEF Amounts, Written
<1>6. <<new.line, new.product, new.quantity>> \notin Asked(ctx[w].cart, ctx[w].line - 1)
  BY <1>2, <1>3, OneMoreAsked
<1>7. new \notin items
  <2> SUFFICES ASSUME new \in items PROVE FALSE
    OBVIOUS
  <2>1. <<new.line, new.product, new.quantity>> \in KeysOf(items, ctx[w].row)
    BY <1>3 DEF KeysOf, LinesIn
  <2> QED
    BY <1>5, <1>6, <2>1
<1> QED
  BY <1>1, <1>3, <1>4, <1>7

\* The lines are ahead of the total by the new one.
LEMMA InsertItemKeepsAmounts ==
  ASSUME Inv, Typed, Amounts, NEW w \in Workers, InsertItem(w)
  PROVE  Amounts'
<1>1. UNCHANGED <<payments, forms>> /\ ctx[w].pc = "insertItem"
  BY DEF InsertItem
<1>2. /\ Others(w)
      /\ ctx'[w].pc = "deduct" /\ ctx'[w].line = ctx[w].line /\ ctx'[w].row = ctx[w].row
      /\ ctx'[w].cart = ctx[w].cart /\ ctx'[w].resolved = ctx[w].resolved
      /\ ctx'[w].total = ctx[w].total
  BY InsertItemEffect DEF Inv
<1>3. ctx[w].line \in Nat \ {0}
  BY <1>1 DEF Typed, Placed, Resolves, Ordering, Writing
<1>4. PICK new \in OrderLines :
        /\ new \notin items /\ items' = items \cup {new}
        /\ new.row = ctx[w].row /\ new.line = ctx[w].line
        /\ new.price = Resolved(w).price /\ new.quantity = Resolved(w).quantity
        /\ new.product = ctx[w].cart[ctx[w].line].product
        /\ new.quantity = ctx[w].cart[ctx[w].line].quantity
  BY InsertItemIsNew
<1>5. new.price * new.quantity = Resolved(w).price * Resolved(w).quantity
  BY <1>4
<1>6. /\ OwnRow(w) /\ SumOf(items, ctx[w].row) = ctx[w].total
      /\ KeysOf(items, ctx[w].row) = Asked(ctx[w].cart, ctx[w].line - 1)
  BY <1>1 DEF Amounts, Written
<1>7. Asked(ctx[w].cart, ctx[w].line) =
        Asked(ctx[w].cart, ctx[w].line - 1) \cup {<<new.line, new.product, new.quantity>>}
  BY <1>3, <1>4, OneMoreAsked
<1>9. /\ \A row : row # ctx[w].row => /\ SumOf(items', row) = SumOf(items, row)
                                      /\ KeysOf(items', row) = KeysOf(items, row)
      /\ SumOf(items', ctx[w].row) = SumOf(items, ctx[w].row) + new.price * new.quantity
      /\ KeysOf(items', ctx[w].row) =
           KeysOf(items, ctx[w].row) \cup {<<new.line, new.product, new.quantity>>}
  <2>1. IsFiniteSet(items) /\ items \subseteq OrderLines
    BY DEF Typed, Filed
  <2>2. /\ \A row : row # new.row => /\ SumOf(items \cup {new}, row) = SumOf(items, row)
                                     /\ KeysOf(items \cup {new}, row) = KeysOf(items, row)
        /\ SumOf(items \cup {new}, new.row) = SumOf(items, new.row) + new.price * new.quantity
        /\ KeysOf(items \cup {new}, new.row) =
             KeysOf(items, new.row) \cup {<<new.line, new.product, new.quantity>>}
    BY <1>4, <2>1, OneMoreLine
  <2>3. new.row = ctx[w].row
    BY <1>4
  <2> QED
    BY <1>4, <2>2, <2>3, Zenon
<1>10. Written(w)'
  <2>1. Resolved(w)' = Resolved(w)
    BY <1>2 DEF Resolved
  <2>2. /\ SumOf(items', ctx'[w].row) =
             ctx'[w].total + Resolved(w).price * Resolved(w).quantity
        /\ KeysOf(items', ctx'[w].row) = Asked(ctx'[w].cart, ctx'[w].line)
    BY <1>2, <1>5, <1>6, <1>7, <1>9
  <2> QED
    BY <1>2, <2>1, <2>2 DEF Written
<1>11. ctx[w].pc \in Ordering
  BY <1>1 DEF Ordering, Writing
<1>12. Charged'
  BY <1>1, <1>6, <1>9, <1>11 DEF Amounts, Charged, OwnRow
<1>13. OwnRow(w)'
  BY <1>1, <1>2, <1>6, <1>11 DEF OwnRow, Others
<1>14. ASSUME NEW v \in Workers, v # w PROVE OwnRow(v)' /\ Written(v)'
  <2>1. ctx'[v] = ctx[v] /\ OwnRow(v) /\ Written(v)
    BY <1>2, <1>14 DEF Others, Amounts
  <2>2. OwnRow(v)'
    BY <1>1, <1>2, <1>11, <2>1 DEF OwnRow, Others
  <2>3. CASE ctx[v].pc \in Ordering
    <3>1. ctx[v].row # ctx[w].row
      BY <1>6, <1>11, <1>14, <2>3 DEF OwnRow
    <3>2. /\ SumOf(items', ctx[v].row) = SumOf(items, ctx[v].row)
          /\ KeysOf(items', ctx[v].row) = KeysOf(items, ctx[v].row)
      BY <1>9, <3>1
    <3>3. (\A i \in items : i.row # ctx[v].row) => \A i \in items' : i.row # ctx[v].row
      BY <1>4, <3>1
    <3>4. Resolved(v)' = Resolved(v)
      BY <2>1 DEF Resolved
    <3> QED
      BY <2>1, <2>2, <3>2, <3>3, <3>4 DEF Written
  <2>4. CASE ctx[v].pc \notin Ordering
    BY <2>1, <2>2, <2>4 DEF Written, Ordering, Writing
  <2> QED
    BY <2>3, <2>4
<1> QED
  BY <1>10, <1>12, <1>13, <1>14 DEF Amounts

\* The total catches up, whether or not the deduction succeeded.
LEMMA DeductKeepsAmounts ==
  ASSUME Inv, Typed, Amounts, NEW w \in Workers, Deduct(w)
  PROVE  Amounts'
<1>1. UNCHANGED <<items, payments, forms>> /\ ctx[w].pc = "deduct"
  BY DEF Deduct
<1>2. /\ Others(w)
      /\ ctx'[w].pc = (IF ctx[w].line = Len(ctx[w].resolved) THEN "genRead" ELSE "insertItem")
      /\ ctx'[w].line = ctx[w].line + 1
      /\ ctx'[w].total = ctx[w].total + Resolved(w).price * Resolved(w).quantity
      /\ ctx'[w].row = ctx[w].row /\ ctx'[w].cart = ctx[w].cart
  BY DeductEffect DEF Inv
<1>3. /\ SumOf(items, ctx[w].row) = ctx[w].total + Resolved(w).price * Resolved(w).quantity
      /\ KeysOf(items, ctx[w].row) = Asked(ctx[w].cart, ctx[w].line)
  BY <1>1 DEF Amounts, Written
<1>4. /\ ctx[w].line \in Nat /\ Len(ctx[w].resolved) = Len(ctx[w].cart)
  BY <1>1 DEF Typed, Placed, Ordering, Writing, Resolves
<1>5. (ctx[w].line + 1) - 1 = ctx[w].line
  BY <1>4
<1>6. /\ SumOf(items', ctx'[w].row) = ctx'[w].total
      /\ ctx'[w].pc = "insertItem" =>
           KeysOf(items', ctx'[w].row) = Asked(ctx'[w].cart, ctx'[w].line - 1)
      /\ ctx'[w].pc = "genRead" =>
           KeysOf(items', ctx'[w].row) = Asked(ctx'[w].cart, Len(ctx'[w].cart))
      /\ ctx'[w].pc \in {"insertItem", "genRead"}
  BY <1>1, <1>2, <1>3, <1>4, <1>5
<1>7. Written(w)'
  BY <1>6 DEF Written
<1> QED
  BY <1>1, <1>2, <1>7, MovingKeepsAmounts DEF Ordering, Writing

LEMMA GenKeepsAmounts ==
  ASSUME Inv, Amounts, NEW w \in Workers, GenRead(w) \/ GenStep(w)
  PROVE  Amounts'
<1>1. UNCHANGED <<items, payments, forms>>
  BY DEF GenRead, GenStep, tables
<1>2. /\ Others(w) /\ ctx[w].pc \in {"genRead", "genStep"}
      /\ ctx'[w].pc \in {"genStep", "insertPayment"}
      /\ ctx'[w].row = ctx[w].row /\ ctx'[w].cart = ctx[w].cart
      /\ ctx'[w].total = ctx[w].total
  BY GenEffect DEF Inv
<1>3. Written(w)'
  BY <1>1, <1>2 DEF Amounts, Written
<1> QED
  BY <1>1, <1>2, <1>3, MovingKeepsAmounts DEF Ordering, Writing

\* The payment and the form are of the worker's own, finished order.
LEMMA InsertPaymentKeepsAmounts ==
  ASSUME Inv, Typed, Amounts, NEW w \in Workers, Pays(w)
  PROVE  Amounts'
<1> DEFINE new == NewPayment(w)
           form == NewForm(w)
<1>1. /\ items' = items /\ ctx[w].pc = "insertPayment" /\ Reply(w)
      /\ payments' = payments \cup {new} \/ payments' = payments
      /\ forms' = forms \cup {form} \/ forms' = forms
  BY DEF Pays
<1>2. /\ new.row = ctx[w].row /\ new.amount = ctx[w].total
      /\ form.row = ctx[w].row /\ form.amount = ctx[w].total /\ form.cart = ctx[w].cart
  BY DEF NewPayment, NewForm
<1> HIDE DEF new, form
<1>3. ctx[w].cart \in Carts /\ ctx[w].pc \in Ordering
  BY <1>1 DEF Typed, Placed, Resolves, Ordering, Writing
<1>4. /\ SumOf(items, ctx[w].row) = ctx[w].total
      /\ KeysOf(items, ctx[w].row) = Asked(ctx[w].cart, Len(ctx[w].cart))
  BY <1>1 DEF Amounts, Written
<1>5. Charged'
  BY <1>1, <1>2, <1>3, <1>4 DEF Amounts, Charged
<1>6. Others(w) /\ ctx'[w].pc = "idle"
  BY <1>1, ReplyEffect DEF Inv
<1>7. OwnRow(w)' /\ Written(w)'
  BY <1>6 DEF OwnRow, Written, Ordering, Writing
<1>8. ASSUME NEW v \in Workers, v # w PROVE OwnRow(v)' /\ Written(v)'
  <2>1. ctx'[v] = ctx[v] /\ OwnRow(v) /\ Written(v)
    BY <1>6, <1>8 DEF Others, Amounts
  <2>2. Written(v)'
    BY <1>1, <2>1 DEF Written, Resolved
  <2>3. ctx[v].pc \in Ordering => ctx[v].row # ctx[w].row
    BY <1>3, <1>8, <2>1 DEF OwnRow
  <2>4. \A u \in Workers : ctx'[u].pc \in Ordering => ctx[u].pc \in Ordering /\ ctx'[u] = ctx[u]
    BY <1>3, <1>6 DEF Others, Ordering, Writing
  <2>5. OwnRow(v)'
    BY <1>1, <1>2, <2>1, <2>3, <2>4 DEF OwnRow
  <2> QED
    BY <2>2, <2>5
<1> QED
  BY <1>5, <1>7, <1>8 DEF Amounts

\* A payment that is marked keeps its order and its amount.
LEMMA MarkPaymentKeepsAmounts ==
  ASSUME Inv, Amounts, NEW w \in Workers, MarkPayment(w)
  PROVE  Amounts'
<1> DEFINE Mark(p) == [p EXCEPT !.status = IF ctx[w].good THEN "Paid" ELSE "Failed"]
<1>1. /\ items' = items /\ forms' = forms
      /\ \A q \in payments' : q \in payments \/ \E p \in payments : q = Mark(p)
  BY DEF MarkPayment, RowsOf
<1>2. \A p \in payments : Mark(p).row = p.row /\ Mark(p).amount = p.amount
  BY DEF Inv, Shaped, Columns
<1> HIDE DEF Mark
<1>3. \A q \in payments' : \E p \in payments : q.row = p.row /\ q.amount = p.amount
  BY <1>1, <1>2
<1>4. Charged'
  BY <1>1, <1>3 DEF Amounts, Charged
<1>5. Others(w) /\ ctx'[w].pc \in {"markPayment", "markOrder"}
  BY MarkingEffect DEF Inv
<1>6. \A u \in Workers : /\ ctx'[u] = ctx[u] \/ u = w
                         /\ ctx'[u].pc \in Ordering => ctx'[u] = ctx[u]
  BY <1>5 DEF Others, Ordering, Writing
<1>7. ASSUME NEW v \in Workers PROVE OwnRow(v)' /\ Written(v)'
  <2>1. OwnRow(v)'
    BY <1>1, <1>3, <1>6 DEF Amounts, OwnRow
  <2>2. CASE v = w
    BY <1>5, <2>1, <2>2 DEF Written
  <2>3. CASE ctx'[v] = ctx[v]
    BY <1>1, <2>1, <2>3 DEF Amounts, Written, Resolved
  <2> QED
    BY <1>6, <2>2, <2>3
<1> QED
  BY <1>4, <1>7 DEF Amounts

\* The other steps write no line, payment or form.
LEMMA ElsewhereKeepsAmounts ==
  ASSUME Inv, Amounts,
         \/ \E w \in Workers : LookUpRejects(w) \/ InsertItemFails(w) \/ Callback(w) \/ Find(w)
                                 \/ FindStops(w) \/ MarkOrder(w)
         \/ \E w \in Workers, p \in Products : UpdateProduct(w, p) \/ DeleteProduct(w, p)
         \/ Crash \/ UNCHANGED vars
  PROVE  Amounts'
<1>1. UNCHANGED <<items, payments, forms>>
  BY DEF LookUpRejects, InsertItemFails, Callback, Find, FindStops, MarkOrder, UpdateProduct,
         DeleteProduct, Crash, tables, vars
<1>2. ASSUME NEW w \in Workers, LookUpRejects(w) \/ InsertItemFails(w) \/ FindStops(w) \/ MarkOrder(w)
      PROVE  Amounts'
  BY <1>1, <1>2, ReplyKeepsAmounts DEF LookUpRejects, InsertItemFails, FindStops, MarkOrder
<1>3. ASSUME NEW w \in Workers, Callback(w) \/ Find(w) PROVE Amounts'
  BY <1>1, <1>3, CallbackEffect, MarkingEffect, AwayKeepsAmounts DEF Inv
<1>4. CASE Crash
  <2>1. \A w \in Workers : ctx'[w].pc = "idle"
    BY <1>4 DEF Crash, NoHandler
  <2> QED
    BY <1>1, <2>1 DEF Amounts, Charged, OwnRow, Written, Ordering, Writing
<1>5. CASE ctx' = ctx
  BY <1>1, <1>5 DEF Amounts, Charged, OwnRow, Written, Resolved
<1> QED
  BY <1>2, <1>3, <1>4, <1>5 DEF UpdateProduct, DeleteProduct, vars

LEMMA NextKeepsAmounts == Inv /\ Typed /\ Amounts /\ [Next]_vars => Amounts'
  BY EitherPays, LookingKeepsAmounts, InsertOrderKeepsAmounts, InsertItemKeepsAmounts, DeductKeepsAmounts,
     GenKeepsAmounts, InsertPaymentKeepsAmounts, MarkPaymentKeepsAmounts, ElsewhereKeepsAmounts
  DEF Next, CheckoutStep, CallbackStep

\* Every form and every payment asks for exactly what its order's lines add up
\* to, and the lines are the cart's, with any number of checkouts, edits, faults
\* and crashes between the statements of create_order.
THEOREM AmountsAreTheOrders == Spec => []AmountIsTheOrders
  BY AmountsMeansIt, InitAmounts, NextKeepsAmounts, InitTyped, NextKeepsTyped, InitInv,
     NextKeepsInv, PTL DEF Spec
-----------------------------------------------------------------------------
(***************************************************************************)
(* The stock.  What a product's order lines sold, and what workers are     *)
(* about to deduct, as functions of the table and of the handlers.         *)
(***************************************************************************)
UnitsOf(t, p) == Units({i \in t : i.product = p})
AtDeduct(c, p) ==
  {v \in Workers : c[v].pc = "deduct" /\ c[v].resolved[c[v].line].product = p}
Owed(c, p) ==
  SumFunction([v \in AtDeduct(c, p) |-> c[v].resolved[c[v].line].quantity])

LEMMA SoldAndHeld ==
  /\ \A p : Sold(p) = UnitsOf(items, p) /\ Held(p) = Owed(ctx, p)
  /\ \A p : Sold(p)' = UnitsOf(items', p) /\ Held(p)' = Owed(ctx', p)
  BY DEF Sold, UnitsOf, Held, Owed, Deducting, AtDeduct, Resolved, Units

\* Only the workers at a deduction count.
LEMMA OwedStays ==
  ASSUME NEW c, NEW d, NEW p,
         \A v \in Workers : c[v].pc = "deduct" \/ d[v].pc = "deduct" => c[v] = d[v]
  PROVE  Owed(c, p) = Owed(d, p)
<1>1. AtDeduct(c, p) = AtDeduct(d, p)
  BY DEF AtDeduct
<1>2. \A v \in AtDeduct(d, p) : c[v] = d[v]
  BY DEF AtDeduct
<1>3. [v \in AtDeduct(c, p) |-> c[v].resolved[c[v].line].quantity] =
      [v \in AtDeduct(d, p) |-> d[v].resolved[d[v].line].quantity]
  BY <1>1, <1>2
<1> QED
  BY <1>3, Zenon DEF Owed

\* The quantity of the line a handler is at, when it is at a deduction.
Sane(c) ==
  \A v \in Workers : c[v].pc = "deduct" => c[v].resolved[c[v].line].quantity \in Nat

LEMMA OwedNatural ==
  ASSUME NEW c, NEW p, Sane(c)
  PROVE  Owed(c, p) \in Nat
<1>1. IsFiniteSet(AtDeduct(c, p))
  BY FinitelyManyWorkers, FS_Subset DEF AtDeduct
<1>2. [v \in AtDeduct(c, p) |-> c[v].resolved[c[v].line].quantity] \in [AtDeduct(c, p) -> Nat]
  BY DEF AtDeduct, Sane
<1> QED
  BY <1>1, <1>2, SumFunctionNatural DEF Owed

\* One more worker at a deduction.
LEMMA OwedWith ==
  ASSUME NEW c, NEW d, NEW w \in Workers, Sane(d), c[w].pc # "deduct", d[w].pc = "deduct",
         \A v \in Workers : v # w => d[v] = c[v], NEW p
  PROVE  /\ d[w].resolved[d[w].line].product = p =>
              Owed(d, p) = Owed(c, p) + d[w].resolved[d[w].line].quantity
         /\ d[w].resolved[d[w].line].product # p => Owed(d, p) = Owed(c, p)
<1> DEFINE q == d[w].resolved[d[w].line].quantity
           S == AtDeduct(c, p)
           f == [v \in AtDeduct(d, p) |-> d[v].resolved[d[v].line].quantity]
           g == [v \in S |-> c[v].resolved[c[v].line].quantity]
<1>1. IsFiniteSet(S) /\ w \notin S
  BY FinitelyManyWorkers, FS_Subset DEF AtDeduct
<1>2. CASE d[w].resolved[d[w].line].product = p
  <2>1. AtDeduct(d, p) = S \cup {w}
    BY <1>2 DEF AtDeduct
  <2>2. \A v \in S : d[v] = c[v] /\ c[v].resolved[c[v].line].quantity \in Int
    BY DEF AtDeduct, Sane
  <2>3. q \in Int
    BY DEF Sane
  <2>4. f \in [S \cup {w} -> Int] /\ g \in [S -> Int] /\ \A v \in S : f[v] = g[v]
    BY <2>1, <2>2, <2>3
  <2>5. f[w] = q
    BY <2>1
  <2>6. Owed(d, p) = SumFunction(f) /\ Owed(c, p) = SumFunction(g)
    BY DEF Owed
  <2> HIDE DEF f, g, S, q
  <2>7. SumFunction(f) = f[w] + SumFunction(g) /\ SumFunction(g) \in Int /\ f[w] \in Int
    BY <1>1, <2>4, SumOneMore
  <2>8. Owed(d, p) = Owed(c, p) + q
    BY <2>5, <2>6, <2>7
  <2> QED
    BY <1>2, <2>8 DEF q
<1>3. CASE d[w].resolved[d[w].line].product # p
  <2>1. AtDeduct(d, p) = S
    BY <1>3 DEF AtDeduct
  <2>2. \A v \in S : d[v] = c[v]
    BY DEF AtDeduct
  <2>3. f = g
    BY <2>1, <2>2
  <2>4. Owed(d, p) = Owed(c, p)
    BY <2>3, Zenon DEF Owed
  <2> QED
    BY <1>3, <2>4
<1> QED
  BY <1>2, <1>3

\* A line more adds its units, to its own product only.
LEMMA OneMoreUnit ==
  ASSUME NEW t, IsFiniteSet(t), t \subseteq OrderLines, NEW i \in OrderLines, i \notin t
  PROVE  /\ Units(t \cup {i}) = Units(t) + i.quantity
         /\ Units(t) \in Int
<1> DEFINE f == [j \in t \cup {i} |-> j.quantity]
           g == [j \in t |-> j.quantity]
<1>1. \A j \in OrderLines : j.quantity \in Int
  BY DEF OrderLines
<1>2. f \in [t \cup {i} -> Int] /\ g \in [t -> Int] /\ \A j \in t : f[j] = g[j]
  BY <1>1
<1>3. f[i] = i.quantity
  OBVIOUS
<1>4. Units(t \cup {i}) = SumFunction(f) /\ Units(t) = SumFunction(g)
  BY DEF Units
<1> HIDE DEF f, g
<1>5. /\ SumFunction(f) = f[i] + SumFunction(g)
      /\ SumFunction(g) \in Int /\ f[i] \in Int
  BY <1>2, SumOneMore
<1> QED
  BY <1>3, <1>4, <1>5

LEMMA UnitsWith ==
  ASSUME NEW t, IsFiniteSet(t), t \subseteq OrderLines, NEW i \in OrderLines, i \notin t, NEW p
  PROVE  /\ i.product = p => UnitsOf(t \cup {i}, p) = UnitsOf(t, p) + i.quantity
         /\ i.product # p => UnitsOf(t \cup {i}, p) = UnitsOf(t, p)
<1> DEFINE S == {j \in t : j.product = p}
<1>1. IsFiniteSet(S) /\ i \notin S /\ S \subseteq OrderLines
  BY FS_Subset
<1>2. i.product = p => {j \in t \cup {i} : j.product = p} = S \cup {i}
  OBVIOUS
<1>3. i.product # p => {j \in t \cup {i} : j.product = p} = S
  OBVIOUS
<1> HIDE DEF S
<1>4. Units(S \cup {i}) = Units(S) + i.quantity
  BY <1>1, OneMoreUnit
<1>5. UnitsOf(t, p) = Units(S)
  BY DEF UnitsOf, S
<1> QED
  BY <1>2, <1>3, <1>4, <1>5, Zenon DEF UnitsOf

LEMMA UnitsNatural ==
  ASSUME NEW t, IsFiniteSet(t), t \subseteq OrderLines, NEW p
  PROVE  UnitsOf(t, p) \in Nat
<1> DEFINE S == {j \in t : j.product = p}
<1>1. IsFiniteSet(S) /\ [j \in S |-> j.quantity] \in [S -> Nat]
  BY FS_Subset DEF OrderLines
<1> QED
  BY <1>1, SumFunctionNatural DEF UnitsOf, Units

\* How much of each bound is used up.
Kinds == {"checkouts", "callbacks", "edits", "faults", "crashes"}
Tallied == spent \in [Kinds -> Nat]

LEMMA InitTallied == Init => Tallied
  BY DEF Init, Tallied, Kinds

LEMMA NextKeepsTallied == Tallied /\ [Next]_vars => Tallied'
<1> SUFFICES ASSUME Tallied, [Next]_vars PROVE Tallied'
  OBVIOUS
<1>1. ASSUME NEW what \in Kinds, Spend(what) PROVE Tallied'
  BY <1>1 DEF Tallied, Spend
<1>2. Fault => Tallied'
  BY <1>1 DEF Fault, Kinds
<1>3. spent' = spent => Tallied'
  BY DEF Tallied
<1>4. ASSUME NEW w \in Workers, CheckoutStep(w) \/ CallbackStep(w) PROVE Tallied'
  BY <1>2, <1>3, <1>4
  DEF CheckoutStep, CallbackStep, NoFault, LookUp, LookUpRejects, InsertOrder, Identity,
      InsertItem, InsertItemFails, Deduct, GenRead, GenStep, InsertPayment, FormFails, Find, FindStops,
      MarkPayment, MarkOrder
<1>5. ASSUME NEW w \in Workers, Callback(w) \/ \E cart \in Carts : Checkout(w, cart)
      PROVE  Tallied'
  BY <1>1, <1>5 DEF Kinds, Callback, Checkout
<1>6. ASSUME NEW w \in Workers, NEW p \in Products, UpdateProduct(w, p) \/ DeleteProduct(w, p)
      PROVE  Tallied'
  BY <1>1, <1>6 DEF Kinds, UpdateProduct, DeleteProduct
<1>7. CASE Crash
  BY <1>1, <1>7 DEF Kinds, Crash
<1>8. CASE UNCHANGED vars
  BY <1>3, <1>8 DEF vars
<1> QED
  BY <1>4, <1>5, <1>6, <1>7, <1>8 DEF Next

\* What a step may spend: the tallies never go down.
Dearer ==
  /\ spent'.edits = 0 => spent.edits = 0
  /\ spent'.faults + spent'.crashes = 0 => spent.faults + spent.crashes = 0

\* The tallies of edits, faults and crashes only grow.
LEMMA SpendingIsDearer ==
  ASSUME Tallied
  PROVE  /\ \A what \in Kinds : Spend(what) => Dearer /\ spent'[what] > 0
         /\ Fault => Dearer /\ spent'.faults + spent'.crashes > 0
         /\ NoFault => Dearer
<1>1. \A what \in Kinds : spent[what] \in Nat
  BY DEF Tallied
<1>2. spent.edits \in Nat /\ spent.faults \in Nat /\ spent.crashes \in Nat
  BY <1>1 DEF Kinds
<1>3. ASSUME NEW what \in Kinds, Spend(what)
      PROVE  /\ \A other \in Kinds \ {what} : spent'[other] = spent[other]
             /\ spent'[what] = spent[what] + 1
  BY <1>3 DEF Spend, Tallied
<1>4. ASSUME NEW what \in Kinds, Spend(what) PROVE Dearer /\ spent'[what] > 0
  <2>1. \A other \in Kinds : spent'[other] = spent[other] \/ spent'[other] = spent[other] + 1
    BY <1>3, <1>4
  <2>2. /\ spent'.edits = spent.edits \/ spent'.edits = spent.edits + 1
        /\ spent'.faults = spent.faults \/ spent'.faults = spent.faults + 1
        /\ spent'.crashes = spent.crashes \/ spent'.crashes = spent.crashes + 1
    BY <2>1 DEF Kinds
  <2>3. Dearer
    BY <1>2, <2>2 DEF Dearer
  <2> QED
    BY <1>1, <1>3, <1>4, <2>3
<1>5. Fault => Dearer /\ spent'.faults + spent'.crashes > 0
  <2> SUFFICES ASSUME Spend("faults") PROVE Dearer /\ spent'.faults + spent'.crashes > 0
    BY DEF Fault
  <2>1. spent'.faults = spent.faults + 1 /\ spent'.crashes = spent.crashes
    BY <1>3 DEF Kinds
  <2> QED
    BY <1>2, <1>4, <2>1 DEF Kinds
<1>6. NoFault => Dearer
  BY DEF NoFault, Dearer
<1> QED
  BY <1>4, <1>5, <1>6

LEMMA SaneHandlers ==
  ASSUME \A w \in Workers : Placed(w)
  PROVE  Sane(ctx)
<1> SUFFICES ASSUME NEW w \in Workers, ctx[w].pc = "deduct"
             PROVE  ctx[w].resolved[ctx[w].line].quantity \in Nat
  BY DEF Sane
<1>1. ctx[w].resolved \in Seq(Bought) /\ ctx[w].line \in 1..Len(ctx[w].resolved)
  BY DEF Placed, Resolves, Ordering, Writing
<1>2. ctx[w].resolved[ctx[w].line] \in Bought
  BY <1>1
<1> QED
  BY <1>2 DEF Bought

\* A step that touches neither a line nor the stock, nor a worker's deduction.
LEMMA ElsewhereKeepsStock ==
  ASSUME StockAccounted, Dearer, UNCHANGED <<items, catalog>>,
         \A v \in Workers : ctx[v].pc = "deduct" \/ ctx'[v].pc = "deduct" => ctx'[v] = ctx[v]
  PROVE  StockAccounted'
<1>1. \A p : Owed(ctx', p) = Owed(ctx, p)
  BY OwedStays
<1>2. \A p : Sold(p)' = Sold(p) /\ Held(p)' = Held(p) /\ Lost(p)' = Lost(p)
  BY <1>1, SoldAndHeld DEF Lost
<1> QED
  BY <1>2 DEF StockAccounted, Dearer

LEMMA InitStock == Init => StockAccounted
<1> SUFFICES ASSUME Init, NEW p \in DOMAIN catalog
             PROVE  Lost(p) = 0 /\ Sold(p) = 0 /\ Held(p) = 0
  BY DEF StockAccounted
<1>1. Lost(p) = 0
  BY IntegersAreSet DEF Init, Lost
<1>2. {i \in items : i.product = p} = {} /\ Deducting(p) = {}
  BY DEF Init, Deducting, NoHandler
<1>3. Sold(p) = 0
  BY <1>2, SumFunctionEmpty DEF Sold, Units
<1>4. Held(p) = 0
  BY <1>2, SumFunctionEmpty DEF Held
<1> QED
  BY <1>1, <1>3, <1>4

\* The line is sold, and its deduction is held.
LEMMA InsertItemKeepsStock ==
  ASSUME Inv, Typed, Typed', Amounts, Tallied, StockAccounted, NEW w \in Workers, InsertItem(w)
  PROVE  StockAccounted'
<1>1. ctx[w].pc = "insertItem" /\ UNCHANGED <<catalog, spent>>
  BY DEF InsertItem
<1>2. /\ \A v \in Workers : v # w => ctx'[v] = ctx[v]
      /\ ctx'[w].pc = "deduct" /\ ctx'[w].line = ctx[w].line
      /\ ctx'[w].resolved = ctx[w].resolved
  BY InsertItemEffect DEF Inv, Others
<1>3. PICK new \in OrderLines :
        /\ new \notin items /\ items' = items \cup {new}
        /\ new.product = Resolved(w).product /\ new.quantity = Resolved(w).quantity
  BY InsertItemIsNew
<1>4. ctx'[w].resolved[ctx'[w].line] = Resolved(w)
  BY <1>2 DEF Resolved
<1>5. Sane(ctx) /\ Sane(ctx')
  <2>1. Sane(ctx)
    BY SaneHandlers DEF Typed
  <2>2. ctx'[w].resolved[ctx'[w].line].quantity \in Nat
    BY <1>3, <1>4 DEF OrderLines
  <2> QED
    BY <1>2, <2>1, <2>2 DEF Sane
<1>6. IsFiniteSet(items) /\ items \subseteq OrderLines
  BY DEF Typed, Filed
<1>7. ASSUME NEW p
      PROVE  /\ Sold(p) \in Int /\ Held(p) \in Int
             /\ \E q \in Int : Sold(p)' = Sold(p) + q /\ Held(p)' = Held(p) + q
  <2>1. UnitsOf(items, p) \in Int /\ Owed(ctx, p) \in Int
    BY <1>5, <1>6, UnitsNatural, OwedNatural
  <2>2. new.quantity \in Int
    BY DEF OrderLines
  <2>3. CASE new.product = p
    <3>1. UnitsOf(items', p) = UnitsOf(items, p) + new.quantity
      BY <1>3, <1>6, <2>3, UnitsWith
    <3>2. Owed(ctx', p) = Owed(ctx, p) + new.quantity
      <4>1. /\ ctx'[w].resolved[ctx'[w].line].product = p
            /\ ctx'[w].resolved[ctx'[w].line].quantity = new.quantity
        BY <1>3, <1>4, <2>3
      <4>2. Owed(ctx', p) = Owed(ctx, p) + ctx'[w].resolved[ctx'[w].line].quantity
        BY <1>1, <1>2, <1>5, <4>1, OwedWith
      <4> QED
        BY <4>1, <4>2
    <3> QED
      BY <2>1, <2>2, <3>1, <3>2, SoldAndHeld
  <2>4. CASE new.product # p
    <3>1. UnitsOf(items', p) = UnitsOf(items, p)
      BY <1>3, <1>6, <2>4, UnitsWith
    <3>2. Owed(ctx', p) = Owed(ctx, p)
      BY <1>1, <1>2, <1>3, <1>4, <1>5, <2>4, OwedWith
    <3>3. /\ UnitsOf(items', p) = UnitsOf(items, p) + 0
          /\ Owed(ctx', p) = Owed(ctx, p) + 0
      BY <2>1, <3>1, <3>2
    <3> QED
      BY <2>1, <3>3, SoldAndHeld
  <2> QED
    BY <2>3, <2>4
<1>8. \A p : Sold(p) \in Int /\ Held(p) \in Int /\ Sold(p)' - Held(p)' = Sold(p) - Held(p)
  BY <1>7
<1>9. \A p : Lost(p)' = Lost(p)
  BY <1>1 DEF Lost
<1> QED
  BY <1>1, <1>8, <1>9 DEF StockAccounted

\* The deduction is no longer held; the stock is reduced unless the statement failed.
LEMMA DeductKeepsStock ==
  ASSUME Inv, Typed, Typed', Tallied, StockAccounted, NEW w \in Workers, Deduct(w)
  PROVE  StockAccounted'
<1> DEFINE r == Resolved(w)
<1>1. ctx[w].pc = "deduct" /\ items' = items
  BY DEF Deduct
<1>2. /\ \A v \in Workers : v # w => ctx'[v] = ctx[v]
      /\ ctx'[w].pc # "deduct"
  BY DeductEffect DEF Inv, Others
<1>3. Sane(ctx) /\ r.quantity \in Nat
  BY <1>1, SaneHandlers DEF Typed, Sane, Resolved
<1>4. \A p : /\ r.product = p => Held(p) = Held(p)' + r.quantity
             /\ r.product # p => Held(p) = Held(p)'
  BY <1>1, <1>2, <1>3, OwedWith, SoldAndHeld DEF Resolved
<1>5. \A p : Held(p)' \in Nat
  <2>1. Sane(ctx')
    BY <1>2, <1>3 DEF Sane
  <2> QED
    BY <2>1, OwedNatural, SoldAndHeld
<1>6. \A p : Sold(p) \in Nat /\ Sold(p)' = Sold(p)
  BY <1>1, UnitsNatural, SoldAndHeld DEF Typed, Filed
<1>7. Dearer
  BY SpendingIsDearer DEF Deduct
<1>8. /\ DOMAIN catalog' = DOMAIN catalog
      /\ \A p \in DOMAIN catalog : Lost(p) \in Int
      /\ \/ /\ \A p \in DOMAIN catalog : Lost(p)' = Lost(p)
            /\ spent'.faults + spent'.crashes > 0
         \/ /\ \A p \in DOMAIN catalog : r.product = p => Lost(p)' = Lost(p) + r.quantity
            /\ \A p \in DOMAIN catalog : r.product # p => Lost(p)' = Lost(p)
  <2>1. \A p \in DOMAIN catalog : catalog[p].stock \in Int /\ Lost(p) \in Int
    BY IntegersAreSet DEF Typed, Shelved, Lost
  <2>2. CASE Fault /\ UNCHANGED catalog
    BY <2>1, <2>2, SpendingIsDearer DEF Lost
  <2>3. CASE catalog' = [catalog EXCEPT ![r.product].stock = @ - r.quantity]
    <3>1. DOMAIN catalog' = DOMAIN catalog
      BY <2>3 DEF Typed, Shelved
    <3>2. \A p \in DOMAIN catalog : r.product # p => catalog'[p].stock = catalog[p].stock
      BY <2>3 DEF Typed, Shelved
    <3>3. \A p \in DOMAIN catalog :
            r.product = p => catalog'[p].stock = catalog[p].stock - r.quantity
      BY <2>3 DEF Typed, Shelved
    <3> QED
      BY <1>3, <2>1, <3>1, <3>2, <3>3, IntegersAreSet DEF Lost
  <2> QED
    BY <2>2, <2>3 DEF Deduct
<1> HIDE DEF r
<1>9. ASSUME spent'.edits = 0, NEW p \in DOMAIN catalog'
      PROVE  /\ Lost(p)' <= Sold(p)' - Held(p)'
             /\ spent'.faults + spent'.crashes = 0 => Lost(p)' = Sold(p)' - Held(p)'
  <2>1. /\ p \in DOMAIN catalog /\ Lost(p) <= Sold(p) - Held(p)
        /\ spent'.faults + spent'.crashes = 0 => Lost(p) = Sold(p) - Held(p)
    BY <1>7, <1>8, <1>9 DEF StockAccounted, Dearer
  <2>2. CASE r.product = p
    BY <1>3, <1>4, <1>5, <1>6, <1>8, <2>1, <2>2
  <2>3. CASE r.product # p
    BY <1>3, <1>4, <1>5, <1>6, <1>8, <2>1, <2>3
  <2> QED
    BY <2>2, <2>3
<1> QED
  BY <1>9 DEF StockAccounted

\* Deductions that the crash cuts off are missing from what the product lost.
LEMMA CrashKeepsStock ==
  ASSUME Inv, Typed, Tallied, StockAccounted, Crash
  PROVE  StockAccounted'
<1>1. UNCHANGED <<catalog, items>> /\ \A w \in Workers : ctx'[w].pc = "idle"
  BY DEF Crash, tables, NoHandler
<1>2. Dearer /\ spent'.faults + spent'.crashes # 0
  <2>1. Spend("crashes") /\ "crashes" \in Kinds
    BY DEF Crash, Kinds
  <2>2. Dearer /\ spent'.crashes > 0
    BY <2>1, SpendingIsDearer
  <2>3. spent'.crashes = spent.crashes + 1 /\ spent'.faults = spent.faults
        /\ spent.crashes \in Nat /\ spent.faults \in Nat
    BY <2>1 DEF Spend, Tallied, Kinds
  <2> QED
    BY <2>2, <2>3
<1>3. \A p : Held(p) \in Nat /\ Sold(p) \in Nat
  BY SaneHandlers, OwedNatural, UnitsNatural, SoldAndHeld DEF Typed, Filed
<1>4. \A p : Held(p)' = 0
  <2>1. \A p : AtDeduct(ctx', p) = {}
    BY <1>1 DEF AtDeduct
  <2>2. \A p : Owed(ctx', p) = 0
    BY <2>1, SumFunctionEmpty DEF Owed
  <2> QED
    BY <2>2, SoldAndHeld
<1>5. \A p : Sold(p)' = Sold(p) /\ Lost(p)' = Lost(p)
  BY <1>1, SoldAndHeld DEF Lost
<1>6. \A p \in DOMAIN catalog : Lost(p) \in Int
  BY IntegersAreSet DEF Typed, Shelved, Lost
<1> QED
  BY <1>1, <1>2, <1>3, <1>4, <1>5, <1>6 DEF StockAccounted, Dearer

\* An administrator's edit ends the promise.
LEMMA EditEndsStock ==
  ASSUME Tallied, NEW w \in Workers, NEW p \in Products, UpdateProduct(w, p) \/ DeleteProduct(w, p)
  PROVE  StockAccounted'
<1>1. Spend("edits") /\ "edits" \in Kinds
  BY DEF UpdateProduct, DeleteProduct, Kinds
<1>2. spent'.edits > 0
  BY <1>1, SpendingIsDearer
<1> QED
  BY <1>2 DEF StockAccounted

LEMMA NextKeepsStock ==
  Inv /\ Typed /\ Amounts /\ Tallied /\ StockAccounted /\ [Next]_vars => StockAccounted'
<1> SUFFICES ASSUME Inv, Typed, Amounts, Tallied, StockAccounted, [Next]_vars
             PROVE  StockAccounted'
  OBVIOUS
<1>1. Typed'
  BY NextKeepsTyped
<1>2. ASSUME NEW w \in Workers,
             \/ \E cart \in Carts : Checkout(w, cart)
             \/ LookUp(w) \/ LookUpRejects(w) \/ InsertOrder(w) \/ Identity(w)
             \/ InsertItemFails(w) \/ GenRead(w) \/ GenStep(w) \/ Pays(w)
             \/ Callback(w) \/ CallbackStep(w)
      PROVE  StockAccounted'
  <2>1. UNCHANGED <<items, catalog>>
    BY <1>2 DEF Checkout, LookUp, LookUpRejects, InsertOrder, Identity, InsertItemFails, GenRead,
               GenStep, Pays, Callback, CallbackStep, Find, FindStops, MarkPayment,
               MarkOrder, tables
  <2>2. \/ Fault \/ NoFault \/ \E what \in Kinds : Spend(what)
    BY <1>2 DEF Checkout, LookUp, LookUpRejects, InsertOrder, Identity, InsertItemFails, GenRead,
               GenStep, Pays, Callback, CallbackStep, Find, FindStops, MarkPayment,
               MarkOrder, NoFault, Kinds
  <2>3. Dearer
    BY <2>2, SpendingIsDearer
  <2>4. ctx[w].pc # "deduct"
    BY <1>2 DEF Checkout, LookUp, LookUpRejects, InsertOrder, Identity, InsertItemFails, GenRead,
               GenStep, Pays, Callback, CallbackStep, Find, FindStops, MarkPayment,
               MarkOrder, Idle
  <2>5. Others(w) /\ ctx'[w].pc # "deduct"
    <3>1. CASE Reply(w)
      BY <3>1, ReplyEffect DEF Inv
    <3>2. CASE \/ \E cart \in Carts : Checkout(w, cart)
               \/ LookUp(w) \/ InsertOrder(w) \/ Identity(w)
      BY <3>1, <3>2, CheckoutEffect, LookUpEffect, InsertOrderEffect, IdentityEffect DEF Inv
    <3>3. CASE GenRead(w) \/ GenStep(w) \/ Callback(w) \/ Find(w) \/ MarkPayment(w)
      BY <3>3, GenEffect, CallbackEffect, MarkingEffect DEF Inv
    <3> QED
      BY <1>2, <3>1, <3>2, <3>3
      DEF LookUpRejects, InsertItemFails, Pays, CallbackStep, FindStops, MarkOrder
  <2> QED
    BY <2>1, <2>3, <2>4, <2>5, ElsewhereKeepsStock DEF Others
<1>3. CASE UNCHANGED vars
  BY <1>3, ElsewhereKeepsStock DEF vars, Dearer
<1> QED
  BY <1>1, <1>2, <1>3, EitherPays, InsertItemKeepsStock, DeductKeepsStock, CrashKeepsStock, EditEndsStock
  DEF Next, CheckoutStep

\* While no administrator sets a stock, what a product has lost is what its lines
\* sold less what workers are about to deduct; a fault or a crash only ever
\* leaves a deduction out.
THEOREM StockIsAccounted == Spec => []StockAccounted
  BY InitStock, NextKeepsStock, InitTallied, NextKeepsTallied, InitAmounts, NextKeepsAmounts,
     InitTyped, NextKeepsTyped, InitInv, NextKeepsInv, PTL DEF Spec
-----------------------------------------------------------------------------
(***************************************************************************)
(* Orders and payments in step.  Of a payment that alone has its ref, and  *)
(* whose callbacks neither overlapped nor were cut in two, at most one     *)
(* worker is past the test of the status; that worker holds the payment's  *)
(* order, and before its first update, as when there is no such worker,    *)
(* the two statuses belong together.  No two payments are for one order    *)
(* row, so no callback of another ref writes the order.                    *)
(***************************************************************************)
Follows(p) == p.order # 0 /\ RowsOf(p.ref) = {p} /\ p.ref \notin torn
Tied(p) ==
  /\ \A v, w \in Workers : Marks(v, p.ref) /\ Marks(w, p.ref) => v = w
  /\ (\A w \in Workers : ~Marks(w, p.ref)) => InStep(orders[p.order], p.status)
  /\ \A w \in Workers : Marks(w, p.ref) =>
       /\ ctx[w].order = p.order
       /\ ctx[w].pc = "markPayment" => InStep(orders[p.order], p.status)
       /\ ctx[w].pc = "markOrder" => p.status = IF ctx[w].good THEN "Paid" ELSE "Failed"

OnePerRow == \A p, q \in payments : p.row = q.row => p = q
AllTied == OnePerRow /\ \A p \in payments : Follows(p) => Tied(p)

LEMMA TiedMeansIt == AllTied => StatusesInStep
  BY DEF AllTied, Follows, Tied, StatusesInStep

LEMMA InitTied == Init => AllTied
  BY DEF Init, AllTied, OnePerRow

\* Two payments of one order are one payment.
LEMMA OnePerOrder ==
  ASSUME Typed, OnePerRow, NEW p \in payments, NEW q \in payments,
         p.order # 0, q.order = p.order
  PROVE  p = q
<1>1. p.order \in {p.row, 0} /\ q.order \in {q.row, 0}
  BY DEF Typed, Filed
<1> QED
  BY <1>1 DEF OnePerRow

\* No worker begins or ends its marking, and the marking ones stay as they are.
Unmarked ==
  \A v \in Workers : \/ ctx'[v] = ctx[v]
                     \/ /\ ctx[v].pc \notin {"markPayment", "markOrder"}
                        /\ ctx'[v].pc \notin {"markPayment", "markOrder"}

LEMMA UnmarkedMeansIt ==
  ASSUME Unmarked, NEW v \in Workers, NEW ref
  PROVE  /\ Marks(v, ref)' <=> Marks(v, ref)
         /\ Marks(v, ref) => ctx'[v] = ctx[v]
  BY DEF Unmarked, Marks

\* Such a step that leaves a payment and its order alone.
LEMMA QuietKeepsTied ==
  ASSUME Unmarked, NEW p \in payments, Tied(p), orders'[p.order] = orders[p.order]
  PROVE  Tied(p)'
<1>1. \A v \in Workers : /\ Marks(v, p.ref)' <=> Marks(v, p.ref)
                         /\ Marks(v, p.ref) => ctx'[v] = ctx[v]
  BY UnmarkedMeansIt
<1> QED
  BY <1>1 DEF Tied

\* Of every order there is one more, and the others keep their status.
LEMMA OrdersLast ==
  ASSUME Typed, NEW p \in payments, p.order # 0,
         orders' = orders \/ orders' = Append(orders, "New")
  PROVE  orders'[p.order] = orders[p.order]
<1>1. p.order \in DOMAIN orders /\ orders \in Seq(Statuses)
  BY DEF Typed, Filed
<1> QED
  BY <1>1 DEF Statuses

LEMMA ElsewhereKeepsTied ==
  ASSUME Typed, AllTied, Unmarked, payments' = payments, torn' = torn,
         orders' = orders \/ orders' = Append(orders, "New")
  PROVE  AllTied'
<1>1. \A p \in payments : Follows(p)' => Follows(p)
  BY DEF Follows, RowsOf
<1>2. ASSUME NEW p \in payments, Follows(p)' PROVE Tied(p)'
  <2>1. Follows(p) /\ Tied(p) /\ p.order # 0
    BY <1>1, <1>2 DEF AllTied, Follows
  <2> QED
    BY <2>1, OrdersLast, QuietKeepsTied
<1> QED
  BY <1>2 DEF AllTied, OnePerRow

\* A new payment is of an order that nobody has marked, and if its ref is its
\* own, no callback knows it.
LEMMA InsertPaymentKeepsTied ==
  ASSUME Inv, Typed, Amounts, AllTied, NEW w \in Workers, Pays(w)
  PROVE  AllTied'
<1>0. PICK new : new = NewPayment(w)
  OBVIOUS
<1>1. /\ ctx[w].pc = "insertPayment" /\ Reply(w) /\ orders' = orders /\ torn' = torn
      /\ payments' = payments \cup {new} \/ payments' = payments
  BY <1>0 DEF Pays
<1>2. Unmarked
  <2>1. Others(w) /\ ctx'[w].pc = "idle"
    BY <1>1, ReplyEffect DEF Inv
  <2> QED
    BY <1>1, <2>1 DEF Unmarked, Others
<1>3. /\ new.row = ctx[w].row /\ new.order = ctx[w].order /\ new.ref = ctx[w].ref
      /\ new.status = "Pending"
  BY <1>0 DEF NewPayment
<1>4. CASE payments' = payments
  BY <1>1, <1>2, <1>4, ElsewhereKeepsTied
<1>5. CASE payments' = payments \cup {new}
  <2>1. /\ \A p \in payments : p.row # new.row
        /\ new.order \in {new.row, 0} /\ new.row \in DOMAIN orders
    BY <1>1, <1>3 DEF Amounts, OwnRow, Typed, Placed, Ordering, Writing
  <2>2. OnePerRow'
    BY <1>5, <2>1 DEF AllTied, OnePerRow
  <2>3. \A p \in payments : Follows(p)' => Follows(p)
    BY <1>1, <1>5 DEF Follows, RowsOf
  <2>4. ASSUME NEW p \in payments, Follows(p)' PROVE Tied(p)'
    BY <1>1, <1>2, <2>3, <2>4, QuietKeepsTied DEF AllTied
  <2>5. ASSUME Follows(new)' PROVE Tied(new)'
    <3>1. \A p \in payments : p.ref # new.ref
      BY <1>5, <2>1, <2>5 DEF Follows, RowsOf
    <3>2. \A v \in Workers : ~Marks(v, new.ref)
      BY <3>1 DEF Inv, Knows, PaysFor, Marks
    <3>3. \A v \in Workers : ~Marks(v, new.ref)'
      BY <1>2, <3>2, UnmarkedMeansIt
    <3>4. \A p \in payments : p.order # new.order
      BY <2>1, <2>5 DEF Follows, Typed, Filed
    <3>5. new.order \in DOMAIN orders
      BY <2>1, <2>5 DEF Follows
    <3>6. orders[new.order] = "New"
      BY <3>4, <3>5 DEF Inv, OrderStatusExplained
    <3> QED
      BY <1>1, <1>3, <3>3, <3>6 DEF Tied, InStep
  <2> QED
    BY <1>5, <2>2, <2>4, <2>5 DEF AllTied
<1> QED
  BY <1>1, <1>4, <1>5

\* The worker that passes the test of the status is the first to mark, or the
\* ref is torn.
LEMMA FindKeepsTied ==
  ASSUME Inv, AllTied, NEW w \in Workers, Find(w)
  PROVE  AllTied'
<1>1. PICK q \in payments :
        /\ q.ref = ctx[w].ref
        /\ ctx' = [ctx EXCEPT ![w].pc = "markPayment", ![w].order = q.order]
  BY DEF Find, RowsOf
<1>2. /\ ctx[w].pc = "find" /\ payments' = payments /\ orders' = orders
      /\ torn' = IF \E v \in Workers : Marks(v, ctx[w].ref) THEN torn \cup {ctx[w].ref} ELSE torn
  BY DEF Find, tables
<1>3. /\ ctx'[w].pc = "markPayment" /\ ctx'[w].order = q.order /\ ctx'[w].ref = ctx[w].ref
      /\ \A v \in Workers : v # w => ctx'[v] = ctx[v]
  BY <1>1 DEF Inv, Shaped, Locals
<1>4. \A ref : \A v \in Workers : v # w => (Marks(v, ref)' <=> Marks(v, ref))
  BY <1>3 DEF Marks
<1>5. \A ref : ~Marks(w, ref) /\ (Marks(w, ref)' <=> ref = ctx[w].ref)
  BY <1>2, <1>3 DEF Marks
<1>6. \A p \in payments : Follows(p)' => Follows(p)
  BY <1>2 DEF Follows, RowsOf
<1>7. ASSUME NEW p \in payments, Follows(p)' PROVE Tied(p)'
  <2>1. Follows(p) /\ Tied(p)
    BY <1>6, <1>7 DEF AllTied
  <2>2. CASE p.ref = ctx[w].ref
    <3>1. \A v \in Workers : ~Marks(v, p.ref)
      BY <1>2, <1>7, <2>2 DEF Follows
    <3>2. q = p
      BY <1>1, <2>1, <2>2 DEF Follows, RowsOf
    <3>3. InStep(orders[p.order], p.status)
      BY <2>1, <3>1 DEF Tied
    <3>4. \A v \in Workers : Marks(v, p.ref)' <=> v = w
      BY <1>4, <1>5, <2>2, <3>1
    <3> QED
      BY <1>2, <1>3, <3>2, <3>3, <3>4 DEF Tied
  <2>3. CASE p.ref # ctx[w].ref
    <3>1. \A v \in Workers : Marks(v, p.ref)' <=> Marks(v, p.ref)
      BY <1>4, <1>5, <2>3
    <3>2. \A v \in Workers : Marks(v, p.ref) => ctx'[v] = ctx[v]
      BY <1>3, <1>5
    <3> QED
      BY <1>2, <2>1, <3>1, <3>2 DEF Tied
  <2> QED
    BY <2>2, <2>3
<1> QED
  BY <1>2, <1>7 DEF AllTied, OnePerRow

\* The first update: the payment has the status that was reported.
LEMMA MarkPaymentKeepsTied ==
  ASSUME Inv, AllTied, NEW w \in Workers, MarkPayment(w)
  PROVE  AllTied'
<1> DEFINE status == IF ctx[w].good THEN "Paid" ELSE "Failed"
           Mark(p) == [p EXCEPT !.status = status]
<1>1. /\ ctx[w].pc = "markPayment" /\ orders' = orders
      /\ ctx' = [ctx EXCEPT ![w].pc = "markOrder"]
      /\ \/ payments' = payments /\ torn' = torn \cup {ctx[w].ref}
         \/ /\ payments' = (payments \ RowsOf(ctx[w].ref)) \cup {Mark(p) : p \in RowsOf(ctx[w].ref)}
            /\ torn' = torn
  BY DEF MarkPayment
<1>2. \A p \in payments : /\ Mark(p).row = p.row /\ Mark(p).ref = p.ref
                          /\ Mark(p).order = p.order /\ Mark(p).status = status
  BY DEF Inv, Shaped, Columns
<1> HIDE DEF Mark
<1>3. /\ ctx'[w].pc = "markOrder" /\ ctx'[w].order = ctx[w].order
      /\ ctx'[w].ref = ctx[w].ref /\ ctx'[w].good = ctx[w].good
      /\ \A v \in Workers : v # w => ctx'[v] = ctx[v]
  BY <1>1 DEF Inv, Shaped, Locals
<1>4. \A ref : \A v \in Workers : Marks(v, ref)' <=> Marks(v, ref)
  BY <1>1, <1>3 DEF Marks
<1>5. \A p \in payments : Follows(p) => Tied(p)
  BY DEF AllTied
<1>6. ASSUME NEW p \in payments, Tied(p), p.ref # ctx[w].ref PROVE Tied(p)'
  <2>1. \A v \in Workers : Marks(v, p.ref) => ctx'[v] = ctx[v]
    BY <1>3, <1>6 DEF Marks
  <2> QED
    BY <1>1, <1>4, <1>6, <2>1 DEF Tied
<1>7. CASE payments' = payments /\ torn' = torn \cup {ctx[w].ref}
  <2>1. \A p \in payments : Follows(p)' => Follows(p) /\ p.ref # ctx[w].ref
    BY <1>7 DEF Follows, RowsOf
  <2> QED
    BY <1>5, <1>6, <1>7, <2>1 DEF AllTied, OnePerRow
<1>8. CASE /\ payments' = (payments \ RowsOf(ctx[w].ref)) \cup {Mark(p) : p \in RowsOf(ctx[w].ref)}
           /\ torn' = torn
  <2>1. \A q \in payments' : \/ q \in payments /\ q.ref # ctx[w].ref
                             \/ \E p \in payments : p.ref = ctx[w].ref /\ q = Mark(p)
    BY <1>8 DEF RowsOf
  <2>2. OnePerRow'
    BY <1>2, <2>1 DEF AllTied, OnePerRow
  <2>3. ASSUME NEW q \in payments', Follows(q)' PROVE Tied(q)'
    <3>1. CASE q \in payments /\ q.ref # ctx[w].ref
      <4>1. \A r \in payments : r.ref = q.ref => r \in payments'
        BY <1>8, <3>1 DEF RowsOf
      <4>2. Follows(q)
        BY <1>8, <2>3, <3>1, <4>1 DEF Follows, RowsOf
      <4> QED
        BY <1>5, <1>6, <3>1, <4>2
    <3>2. CASE \E p \in payments : p.ref = ctx[w].ref /\ q = Mark(p)
      <4>1. PICK p \in payments : p.ref = ctx[w].ref /\ q = Mark(p)
        BY <3>2
      <4>2. q.row = p.row /\ q.ref = p.ref /\ q.order = p.order /\ q.status = status
        BY <1>2, <4>1
      <4>3. \A r \in payments : r.ref = p.ref => Mark(r) \in payments' /\ Mark(r).ref = p.ref
        BY <1>2, <1>8, <4>1 DEF RowsOf
      <4>4. \A r \in payments : r.ref = p.ref => r = p
        BY <1>2, <2>3, <4>2, <4>3 DEF Follows, RowsOf, AllTied, OnePerRow
      <4>5. Follows(p) /\ Tied(p)
        BY <1>5, <1>8, <2>3, <4>2, <4>4 DEF Follows, RowsOf
      <4>6. Marks(w, p.ref)
        BY <1>1, <4>1 DEF Marks
      <4>7. ctx[w].order = p.order /\ \A v \in Workers : Marks(v, p.ref) => v = w
        BY <4>5, <4>6 DEF Tied
      <4> QED
        BY <1>3, <1>4, <4>2, <4>6, <4>7 DEF Tied
    <3> QED
      BY <2>1, <3>1, <3>2
  <2> QED
    BY <2>2, <2>3 DEF AllTied
<1> QED
  BY <1>1, <1>7, <1>8

\* The second update: the order catches up, and it is no other payment's.
LEMMA MarkOrderKeepsTied ==
  ASSUME Inv, Typed, AllTied, NEW w \in Workers, MarkOrder(w)
  PROVE  AllTied'
<1> DEFINE status == IF ctx[w].good THEN "Processing" ELSE "Cancelled"
<1>1. /\ ctx[w].pc = "markOrder" /\ Reply(w) /\ payments' = payments
      /\ \/ orders' = orders /\ torn' = torn \cup {ctx[w].ref}
         \/ /\ orders' = [n \in DOMAIN orders |-> IF n = ctx[w].order THEN status ELSE orders[n]]
            /\ torn' = torn
  BY DEF MarkOrder
<1>2. Others(w) /\ ctx'[w].pc = "idle"
  BY <1>1, ReplyEffect DEF Inv
<1>3. \A ref : \A v \in Workers : v # w => (Marks(v, ref)' <=> Marks(v, ref)) /\ ctx'[v] = ctx[v]
  BY <1>2 DEF Marks, Others
<1>4. \A ref : ~Marks(w, ref)' /\ (Marks(w, ref) <=> ref = ctx[w].ref)
  BY <1>1, <1>2 DEF Marks
<1>5. \A p \in payments : Follows(p)' => Follows(p)
  BY <1>1 DEF Follows, RowsOf
<1>6. ASSUME NEW p \in payments, Follows(p)' PROVE Tied(p)'
  <2>1. Follows(p) /\ Tied(p) /\ p.order # 0
    BY <1>5, <1>6 DEF AllTied, Follows
  <2>2. p.order \in DOMAIN orders
    BY <2>1 DEF Typed, Filed
  <2>3. CASE p.ref = ctx[w].ref
    <3>1. /\ ctx[w].order = p.order /\ p.status = IF ctx[w].good THEN "Paid" ELSE "Failed"
          /\ \A v \in Workers : Marks(v, p.ref) => v = w
      BY <1>1, <1>4, <2>1, <2>3 DEF Tied
    <3>2. orders'[p.order] = status
      BY <1>1, <1>6, <2>2, <2>3, <3>1 DEF Follows
    <3>3. InStep(orders'[p.order], p.status)
      BY <3>1, <3>2 DEF InStep
    <3>4. \A v \in Workers : ~Marks(v, p.ref)'
      BY <1>3, <1>4, <3>1
    <3> QED
      BY <3>3, <3>4 DEF Tied
  <2>4. CASE p.ref # ctx[w].ref
    <3>1. PICK q \in payments : q.order = ctx[w].order /\ q.ref = ctx[w].ref
      BY <1>1 DEF Inv, Knows, PaysFor
    <3>2. ctx[w].order # p.order
      BY <2>1, <2>4, <3>1, OnePerOrder DEF AllTied
    <3>3. orders'[p.order] = orders[p.order]
      BY <1>1, <2>2, <3>2
    <3>4. \A v \in Workers : Marks(v, p.ref)' <=> Marks(v, p.ref)
      BY <1>3, <1>4, <2>4
    <3>5. \A v \in Workers : Marks(v, p.ref) => ctx'[v] = ctx[v]
      BY <1>3, <1>4, <2>4
    <3> QED
      BY <2>1, <3>3, <3>4, <3>5 DEF Tied
  <2> QED
    BY <2>3, <2>4
<1> QED
  BY <1>1, <1>6 DEF AllTied, OnePerRow

\* A crash tears the callbacks between their updates; the others have done
\* nothing yet.
LEMMA CrashKeepsTied ==
  ASSUME AllTied, Crash
  PROVE  AllTied'
<1>1. /\ UNCHANGED <<payments, orders>> /\ \A v \in Workers : ctx'[v].pc = "idle"
      /\ torn' = torn \cup {ctx[v].ref : v \in {u \in Workers : ctx[u].pc = "markOrder"}}
  BY DEF Crash, tables, NoHandler
<1>2. \A ref : \A v \in Workers : ~Marks(v, ref)'
  BY <1>1 DEF Marks
<1>3. ASSUME NEW p \in payments, Follows(p)' PROVE Tied(p)'
  <2>1. Follows(p) /\ Tied(p)
    BY <1>1, <1>3 DEF AllTied, Follows, RowsOf
  <2>2. \A v \in Workers : Marks(v, p.ref) => ctx[v].pc = "markPayment"
    BY <1>1, <1>3 DEF Follows, Marks
  <2>3. InStep(orders[p.order], p.status)
    BY <2>1, <2>2 DEF Tied
  <2> QED
    BY <1>1, <1>2, <2>3 DEF Tied
<1> QED
  BY <1>1, <1>3 DEF AllTied, OnePerRow

LEMMA NextKeepsTied == Inv /\ Typed /\ Amounts /\ AllTied /\ [Next]_vars => AllTied'
<1> SUFFICES ASSUME Inv, Typed, Amounts, AllTied, [Next]_vars PROVE AllTied'
  OBVIOUS
<1>1. ASSUME NEW w \in Workers,
             \/ \E cart \in Carts : Checkout(w, cart)
             \/ LookUp(w) \/ LookUpRejects(w) \/ InsertOrder(w) \/ Identity(w)
             \/ InsertItem(w) \/ InsertItemFails(w) \/ Deduct(w)
             \/ GenRead(w) \/ GenStep(w) \/ Callback(w) \/ FindStops(w)
      PROVE  AllTied'
  <2>1. /\ payments' = payments /\ torn' = torn
        /\ orders' = orders \/ orders' = Append(orders, "New")
    BY <1>1 DEF Checkout, LookUp, LookUpRejects, InsertOrder, Identity, InsertItem,
                InsertItemFails, Deduct, GenRead, GenStep, Callback, FindStops, tables
  <2>2. ctx[w].pc \notin {"markPayment", "markOrder"}
    BY <1>1 DEF Checkout, LookUp, LookUpRejects, InsertOrder, Identity, InsertItem,
                InsertItemFails, Deduct, GenRead, GenStep, Callback, FindStops, Idle
  <2>3. Others(w) /\ ctx'[w].pc \notin {"markPayment", "markOrder"}
    <3>1. CASE Reply(w)
      BY <3>1, ReplyEffect DEF Inv
    <3>2. CASE \/ \E cart \in Carts : Checkout(w, cart)
               \/ LookUp(w) \/ InsertOrder(w) \/ Identity(w)
      BY <3>1, <3>2, CheckoutEffect, LookUpEffect, InsertOrderEffect, IdentityEffect DEF Inv
    <3>3. CASE InsertItem(w) \/ Deduct(w) \/ GenRead(w) \/ GenStep(w) \/ Callback(w)
      BY <3>3, InsertItemEffect, DeductEffect, GenEffect, CallbackEffect DEF Inv
    <3> QED
      BY <1>1, <3>1, <3>2, <3>3 DEF LookUpRejects, InsertItemFails, FindStops
  <2>4. Unmarked
    BY <2>2, <2>3 DEF Unmarked, Others
  <2> QED
    BY <2>1, <2>4, ElsewhereKeepsTied
<1>2. CASE \/ UNCHANGED vars
           \/ \E w \in Workers, p \in Products : UpdateProduct(w, p) \/ DeleteProduct(w, p)
  <2>1. UNCHANGED <<ctx, payments, orders, torn>>
    BY <1>2 DEF vars, UpdateProduct, DeleteProduct
  <2> QED
    BY <2>1, ElsewhereKeepsTied DEF Unmarked
<1> QED
  BY <1>1, <1>2, EitherPays, InsertPaymentKeepsTied, FindKeepsTied, MarkPaymentKeepsTied,
     MarkOrderKeepsTied, CrashKeepsTied DEF Next, CheckoutStep, CallbackStep

\* For any shop: the statuses of an order and its payment belong together, but
\* for a ref that two payments drew, or whose callbacks overlapped or were cut in
\* two by a failure or a crash.
THEOREM StatusesStayInStep == Spec => []StatusesInStep
  BY TiedMeansIt, InitTied, NextKeepsTied, InitAmounts, NextKeepsAmounts, InitTyped,
     NextKeepsTyped, InitInv, NextKeepsInv, PTL DEF Spec
-----------------------------------------------------------------------------
(***************************************************************************)
(* OrderFlow implements Shop.  Seen in the tables, the forms and the       *)
(* reports, InsertOrder is Open, InsertItem is AddLine, InsertPayment is   *)
(* Charge, Callback is Report, MarkPayment is Settle, MarkOrder is Follow, *)
(* and every other step is a stutter; so is a crash.  A callback that is   *)
(* about to write has seen a payment that a report agrees with.            *)
(***************************************************************************)
Backed(w) ==
  ctx[w].pc \in {"markPayment", "markOrder"} =>
    \E t \in told, p \in payments :
      /\ t.ref = ctx[w].ref /\ Succeeds(t.status) = ctx[w].good
      /\ p.ref = ctx[w].ref /\ p.order = ctx[w].order /\ Agree(t.amount, p.amount)
AllBacked == \A w \in Workers : Backed(w)

\* Rows keep what a callback has seen of them, and so does the worker.
LEMMA StillBacked ==
  ASSUME Kept, NEW v \in Workers, Backed(v),
         ctx'[v].pc \in {"markPayment", "markOrder"} => ctx[v].pc \in {"markPayment", "markOrder"},
         ctx'[v].ref = ctx[v].ref, ctx'[v].order = ctx[v].order, ctx'[v].good = ctx[v].good
  PROVE  Backed(v)'
<1> SUFFICES ASSUME ctx'[v].pc \in {"markPayment", "markOrder"}
             PROVE  \E t \in told', q \in payments' :
                      /\ t.ref = ctx'[v].ref /\ Succeeds(t.status) = ctx'[v].good
                      /\ q.ref = ctx'[v].ref /\ q.order = ctx'[v].order
                      /\ Agree(t.amount, q.amount)
  BY DEF Backed
<1>1. PICK t \in told, p \in payments :
        /\ t.ref = ctx[v].ref /\ Succeeds(t.status) = ctx[v].good
        /\ p.ref = ctx[v].ref /\ p.order = ctx[v].order /\ Agree(t.amount, p.amount)
  BY DEF Backed
<1>2. PICK q \in payments' : q.ref = p.ref /\ q.order = p.order /\ q.amount = p.amount
  BY DEF Kept
<1> QED
  BY <1>1, <1>2 DEF Kept

LEMMA PlainKeepsBacked ==
  ASSUME AllBacked, Plain
  PROVE  AllBacked'
<1>1. Kept
  BY DEF Plain, Kept
<1> SUFFICES ASSUME NEW v \in Workers PROVE Backed(v)'
  BY DEF AllBacked
<1>2. CASE ctx'[v] = ctx[v]
  BY <1>1, <1>2, StillBacked DEF AllBacked
<1>3. CASE ctx'[v].pc \notin Late
  BY <1>3 DEF Backed, Late
<1> QED
  BY <1>2, <1>3 DEF Plain

LEMMA FindKeepsBacked ==
  ASSUME Inv, AllBacked, NEW w \in Workers, Find(w)
  PROVE  AllBacked'
<1>1. PICK p \in payments :
        /\ p.ref = ctx[w].ref /\ Agree(ctx[w].amount, p.amount)
        /\ ctx' = [ctx EXCEPT ![w].pc = "markPayment", ![w].order = p.order]
  BY DEF Find, RowsOf, Matches, Agree
<1>2. payments' = payments /\ told' = told
  BY DEF Find, tables
<1>3. Kept
  BY <1>2 DEF Kept
<1>4. /\ ctx'[w].pc = "markPayment" /\ ctx'[w].order = p.order
      /\ ctx'[w].ref = ctx[w].ref /\ ctx'[w].good = ctx[w].good
      /\ \A v \in Workers : v # w => ctx'[v] = ctx[v]
  <2>1. Shaped
    BY DEF Inv
  <2> QED
    BY <1>1, <2>1 DEF Shaped, Locals
<1>5. PICK t \in told : /\ t.ref = ctx[w].ref /\ Succeeds(t.status) = ctx[w].good
                        /\ t.amount = ctx[w].amount
  BY DEF Find, Inv, Knows
<1>6. Backed(w)'
  BY <1>1, <1>2, <1>4, <1>5 DEF Backed
<1>7. ASSUME NEW v \in Workers, v # w PROVE Backed(v)'
  BY <1>3, <1>4, <1>7, StillBacked DEF AllBacked
<1> QED
  BY <1>6, <1>7 DEF AllBacked

\* A mark changes the status of rows and nothing else.
LEMMA MarkKeepsRows ==
  ASSUME Inv, NEW w \in Workers, MarkPayment(w)
  PROVE  Kept
<1> DEFINE status == IF ctx[w].good THEN "Paid" ELSE "Failed"
           Mark(p) == [p EXCEPT !.status = status]
<1>1. /\ told' = told
      /\ \/ payments' = payments
         \/ payments' = (payments \ RowsOf(ctx[w].ref)) \cup {Mark(p) : p \in RowsOf(ctx[w].ref)}
  BY DEF MarkPayment
<1>2. \A p \in payments :
        Mark(p).ref = p.ref /\ Mark(p).order = p.order /\ Mark(p).amount = p.amount
  BY DEF Inv, Shaped, Columns
<1> HIDE DEF Mark
<1> QED
  BY <1>1, <1>2 DEF Kept, RowsOf

LEMMA NextKeepsBacked == Inv /\ AllBacked /\ [Next]_vars => AllBacked'
<1> SUFFICES ASSUME Inv, AllBacked, [Next]_vars PROVE AllBacked'
  OBVIOUS
<1>1. CASE UNCHANGED vars
  <2>1. Plain
    BY <1>1 DEF vars, Plain
  <2> QED
    BY <2>1, PlainKeepsBacked
<1>2. ASSUME NEW w \in Workers,
             \/ \E cart \in Carts : Checkout(w, cart)
             \/ CheckoutStep(w) \/ Callback(w) \/ CallbackStep(w)
      PROVE  AllBacked'
  <2>1. ASSUME Kept, Others(w), ctx'[w].pc \notin {"markPayment", "markOrder"}
        PROVE  AllBacked'
    <3> SUFFICES ASSUME NEW v \in Workers PROVE Backed(v)'
      BY DEF AllBacked
    <3>1. CASE v = w
      BY <2>1, <3>1 DEF Backed
    <3>2. CASE v # w
      BY <2>1, <3>2, StillBacked DEF AllBacked, Others
    <3> QED
      BY <3>1, <3>2
  <2>2. CASE InsertPayment(w) \/ FormFails(w)
    <3>0. Pays(w)
      BY <2>2, EitherPays
    <3>1. Kept
      BY <3>0 DEF Pays, Kept
    <3>2. Others(w) /\ ctx'[w].pc = "idle"
      BY <3>0, ReplyEffect DEF Pays, Inv
    <3> QED
      BY <2>1, <3>1, <3>2
  <2>3. CASE Callback(w)
    <3>1. Kept
      BY <2>3 DEF Callback, Kept, tables
    <3> QED
      BY <2>1, <2>3, <3>1, CallbackEffect DEF Inv
  <2>4. CASE Find(w)
    BY <2>4, FindKeepsBacked
  <2>5. CASE MarkPayment(w)
    <3>1. ctx' = [ctx EXCEPT ![w].pc = "markOrder"] /\ ctx[w].pc = "markPayment"
      BY <2>5 DEF MarkPayment
    <3>2. \A v \in Workers :
            /\ ctx'[v].pc \in {"markPayment", "markOrder"} => ctx[v].pc \in {"markPayment", "markOrder"}
            /\ ctx'[v].ref = ctx[v].ref /\ ctx'[v].order = ctx[v].order /\ ctx'[v].good = ctx[v].good
      BY <3>1 DEF Inv, Shaped, Locals
    <3> QED
      BY <2>5, <3>2, MarkKeepsRows, StillBacked DEF AllBacked
  <2>6. CASE MarkOrder(w)
    <3>1. Kept
      BY <2>6 DEF MarkOrder, Kept
    <3>2. Others(w) /\ ctx'[w].pc = "idle"
      BY <2>6, ReplyEffect DEF MarkOrder, Inv
    <3> QED
      BY <2>1, <3>1, <3>2
  <2>7. CASE \/ \E cart \in Carts : Checkout(w, cart)
             \/ LookUp(w) \/ LookUpRejects(w) \/ InsertOrder(w) \/ Identity(w)
             \/ InsertItem(w) \/ InsertItemFails(w) \/ Deduct(w)
             \/ GenRead(w) \/ GenStep(w) \/ FindStops(w)
    BY <2>7, CheckoutStepIsPlain, PlainKeepsBacked
  <2> QED
    BY <1>2, <2>2, <2>3, <2>4, <2>5, <2>6, <2>7 DEF CheckoutStep, CallbackStep
<1>3. CASE \/ \E w \in Workers, p \in Products : UpdateProduct(w, p) \/ DeleteProduct(w, p)
           \/ Crash
  BY <1>3, EditOrCrashIsPlain, PlainKeepsBacked
<1> QED
  BY <1>1, <1>2, <1>3 DEF Next
-----------------------------------------------------------------------------
LEMMA PromiseUnchanged ==
  ASSUME UNCHANGED <<orders, items, payments, forms, told>>
  PROVE  UNCHANGED Promise!vars
  BY DEF Promise!vars

\* The line is one of an order that its worker has not charged for.
LEMMA InsertItemRefines ==
  ASSUME Inv, Typed, Amounts, NEW w \in Workers, InsertItem(w)
  PROVE  Promise!Next
<1>1. PICK new \in OrderLines : items' = items \cup {new} /\ new.row = ctx[w].row
  BY InsertItemIsNew
<1>2. ctx[w].pc = "insertItem" /\ UNCHANGED <<orders, payments, forms, told>>
  BY DEF InsertItem
<1>3. /\ ctx[w].row \in DOMAIN orders
      /\ \A p \in payments : p.row # ctx[w].row
      /\ \A f \in forms : f.row # ctx[w].row
  BY <1>2 DEF Typed, Placed, Amounts, OwnRow, Ordering, Writing
<1>4. ~Promise!Charged(new.row)
  BY <1>1, <1>3 DEF Promise!Charged
<1>5. Promise!AddLine
  BY <1>1, <1>2, <1>3, <1>4 DEF Promise!AddLine
<1> QED
  BY <1>5 DEF Promise!Next

\* What is asked for is the total, which is what the lines of the order cost.
LEMMA InsertPaymentRefines ==
  ASSUME Typed, Amounts, NEW w \in Workers, Pays(w)
  PROVE  Promise!Next \/ UNCHANGED Promise!vars
<1> DEFINE new == NewPayment(w)
           form == NewForm(w)
<1>1. /\ ctx[w].pc = "insertPayment" /\ UNCHANGED <<orders, items, told>>
      /\ payments' = payments \cup {new} \/ payments' = payments
      /\ forms' = forms \cup {form} \/ forms' = forms
  BY DEF Pays
<1>2. /\ ctx[w].row \in DOMAIN orders /\ ctx[w].order \in {ctx[w].row, 0}
      /\ ctx[w].cart \in Carts
      /\ \A p \in payments : p.row # ctx[w].row
      /\ \A f \in forms : f.row # ctx[w].row
  BY <1>1 DEF Typed, Placed, Resolves, Amounts, OwnRow, Ordering, Writing
<1>3. ~Promise!Charged(ctx[w].row)
  BY <1>2 DEF Promise!Charged
<1>4. Promise!LinesOf(ctx[w].row) = LinesIn(items, ctx[w].row)
  BY DEF Promise!LinesOf, LinesIn
<1>5. ctx[w].total = Total(Promise!LinesOf(ctx[w].row))
  <2>1. ctx[w].total = SumOf(items, ctx[w].row)
    BY <1>1 DEF Amounts, Written
  <2> QED
    BY <1>4, <2>1 DEF SumOf
<1> DEFINE cart == ctx[w].cart
<1>6. {<<i.line, i.product, i.quantity>> : i \in Promise!LinesOf(ctx[w].row)} =
      {<<n, cart[n].product, cart[n].quantity>> : n \in DOMAIN cart}
  <2>1. KeysOf(items, ctx[w].row) = Asked(cart, Len(cart))
    BY <1>1 DEF Amounts, Written
  <2>2. DOMAIN cart = 1..Len(cart)
    BY <1>2, CartsHaveLines
  <2> QED
    BY <1>4, <2>1, <2>2 DEF KeysOf, Asked
<1>7. ASSUME NEW c \in forms' \cup payments',
             c.row = ctx[w].row /\ c.order = ctx[w].order /\ c.ref = ctx[w].ref,
             c.amount = ctx[w].total
      PROVE  Promise!Charge
  <2>1. /\ c.row \in DOMAIN orders /\ c.order \in {c.row, 0} /\ ~Promise!Charged(c.row)
        /\ c.amount = Total(Promise!LinesOf(c.row)) /\ cart \in Carts
    BY <1>2, <1>3, <1>5, <1>7
  <2>2. {<<i.line, i.product, i.quantity>> : i \in Promise!LinesOf(c.row)} =
        {<<n, cart[n].product, cart[n].quantity>> : n \in DOMAIN cart}
    BY <1>6, <1>7
  <2>3. /\ form = [row |-> c.row, order |-> c.order, ref |-> c.ref, amount |-> c.amount,
                   cart |-> cart]
        /\ new = [row |-> c.row, order |-> c.order, ref |-> c.ref, amount |-> c.amount,
                  status |-> "Pending"]
    BY <1>7 DEF NewPayment, NewForm
  <2> HIDE DEF form, new, cart
  <2> QED
    BY <1>1, <2>1, <2>2, <2>3 DEF Promise!Charge
<1>8. CASE forms' = forms \cup {form}
  BY <1>7, <1>8 DEF NewForm, Promise!Next
<1>9. CASE payments' = payments \cup {new}
  BY <1>7, <1>9 DEF NewPayment, Promise!Next
<1>10. CASE forms' = forms /\ payments' = payments
  BY <1>1, <1>10, PromiseUnchanged
<1> QED
  BY <1>1, <1>8, <1>9, <1>10 DEF Promise!Next

LEMMA CallbackRefines ==
  ASSUME NEW w \in Workers, Callback(w)
  PROVE  Promise!Next
<1>1. PICK f \in forms, status \in Reports, off \in Misreports :
        told' = told \cup {[ref |-> f.ref, status |-> status, amount |-> f.amount + off]}
  BY DEF Callback
<1>2. UNCHANGED <<orders, items, payments, forms>>
  BY DEF Callback, tables
<1>3. Promise!Report
  BY <1>1, <1>2 DEF Promise!Report
<1> QED
  BY <1>3 DEF Promise!Next

\* What a marking worker acts on, in the words of Shop.
LEMMA MarkingConcerns ==
  ASSUME AllBacked, NEW w \in Workers, ctx[w].pc \in {"markPayment", "markOrder"}
  PROVE  \E t \in told, p \in payments :
           /\ t.ref = ctx[w].ref /\ Succeeds(t.status) = ctx[w].good
           /\ p.order = ctx[w].order /\ Promise!Concerns(t, p)
  BY DEF AllBacked, Backed, Promise!Concerns, Agree

LEMMA MarkPaymentRefines ==
  ASSUME AllBacked, NEW w \in Workers, MarkPayment(w)
  PROVE  Promise!Next \/ UNCHANGED Promise!vars
<1>1. ctx[w].pc = "markPayment" /\ UNCHANGED <<orders, items, forms, told>>
  BY DEF MarkPayment
<1>2. CASE payments' = payments
  BY <1>1, <1>2, PromiseUnchanged
<1>3. CASE payments' = (payments \ RowsOf(ctx[w].ref)) \cup
                         {[p EXCEPT !.status = IF ctx[w].good THEN "Paid" ELSE "Failed"]
                            : p \in RowsOf(ctx[w].ref)}
  <2>1. PICK t \in told, p \in payments :
          t.ref = ctx[w].ref /\ Succeeds(t.status) = ctx[w].good /\ Promise!Concerns(t, p)
    BY <1>1, MarkingConcerns
  <2>2. Promise!RowsOf(t.ref) = RowsOf(ctx[w].ref)
    BY <2>1 DEF Promise!RowsOf, RowsOf
  <2>3. payments' = (payments \ Promise!RowsOf(t.ref)) \cup
                      {[q EXCEPT !.status = IF Succeeds(t.status) THEN "Paid" ELSE "Failed"]
                         : q \in Promise!RowsOf(t.ref)}
    BY <1>3, <2>1, <2>2
  <2>4. Promise!Settle
    BY <1>1, <2>1, <2>3 DEF Promise!Settle
  <2> QED
    BY <2>4 DEF Promise!Next
<1> QED
  BY <1>2, <1>3 DEF MarkPayment

\* update_order_status finds the order, or there is none of that number.
LEMMA MarkOrderRefines ==
  ASSUME Inv, AllBacked, NEW w \in Workers, MarkOrder(w)
  PROVE  Promise!Next \/ UNCHANGED Promise!vars
<1>1. ctx[w].pc = "markOrder" /\ UNCHANGED <<items, payments, forms, told>>
  BY DEF MarkOrder
<1> DEFINE status == IF ctx[w].good THEN "Processing" ELSE "Cancelled"
<1>2. \/ orders' = orders
      \/ orders' = [n \in DOMAIN orders |-> IF n = ctx[w].order THEN status ELSE orders[n]]
  BY DEF MarkOrder
<1>3. CASE orders' = orders
  BY <1>1, <1>3, PromiseUnchanged
<1>4. CASE /\ orders' = [n \in DOMAIN orders |-> IF n = ctx[w].order THEN status ELSE orders[n]]
           /\ ctx[w].order \in DOMAIN orders
  <2>1. PICK t \in told, p \in payments :
          Succeeds(t.status) = ctx[w].good /\ p.order = ctx[w].order /\ Promise!Concerns(t, p)
    BY <1>1, MarkingConcerns
  <2>2. orders' = [orders EXCEPT ![p.order] = IF Succeeds(t.status) THEN "Processing" ELSE "Cancelled"]
    BY <1>4, <2>1
  <2>3. Promise!Follow
    BY <1>1, <1>4, <2>1, <2>2 DEF Promise!Follow
  <2> QED
    BY <2>3 DEF Promise!Next
<1>5. CASE /\ orders' = [n \in DOMAIN orders |-> IF n = ctx[w].order THEN status ELSE orders[n]]
           /\ ctx[w].order \notin DOMAIN orders
  <2>1. orders \in Seq(Statuses)
    BY DEF Inv, Shaped
  <2>2. orders' = orders
    BY <1>5, <2>1
  <2> QED
    BY <1>1, <2>2, PromiseUnchanged
<1> QED
  BY <1>2, <1>3, <1>4, <1>5

LEMMA StepRefines ==
  ASSUME Inv, Typed, Amounts, AllBacked, [Next]_vars
  PROVE  [Promise!Next]_(Promise!vars)
<1>1. ASSUME NEW w \in Workers,
             \/ \E cart \in Carts : Checkout(w, cart)
             \/ LookUp(w) \/ LookUpRejects(w) \/ Identity(w) \/ InsertItemFails(w) \/ Deduct(w)
             \/ GenRead(w) \/ GenStep(w) \/ Find(w) \/ FindStops(w)
             \/ \E p \in Products : UpdateProduct(w, p) \/ DeleteProduct(w, p)
      PROVE  UNCHANGED Promise!vars
  <2>1. UNCHANGED <<orders, items, payments, forms, told>>
    BY <1>1 DEF Checkout, LookUp, LookUpRejects, Identity, InsertItemFails, Deduct, GenRead,
                GenStep, Find, FindStops, UpdateProduct, DeleteProduct, tables
  <2> QED
    BY <2>1, PromiseUnchanged
<1>2. CASE Crash \/ UNCHANGED vars
  <2>1. UNCHANGED <<orders, items, payments, forms, told>>
    BY <1>2 DEF Crash, tables, vars
  <2> QED
    BY <2>1, PromiseUnchanged
<1>3. ASSUME NEW w \in Workers, InsertOrder(w)
      PROVE  Promise!Next \/ UNCHANGED Promise!vars
  <2>1. /\ orders' = Append(orders, "New") \/ orders' = orders
        /\ UNCHANGED <<items, payments, forms, told>>
    BY <1>3 DEF InsertOrder
  <2> QED
    BY <2>1, PromiseUnchanged DEF Promise!Next, Promise!Open
<1> QED
  BY <1>1, <1>2, <1>3, EitherPays, InsertItemRefines, InsertPaymentRefines, CallbackRefines,
     MarkPaymentRefines, MarkOrderRefines DEF Next, CheckoutStep, CallbackStep

\* Refines: OrderFlow implements Shop.  However the statements of create_order,
\* checkout and payment_callback interleave, fail, or are cut off by a crash, the
\* tables change only as Shop allows.
THEOREM OrderFlowRefinesShop == Spec => Refines
<1>1. Init => Promise!Init /\ AllBacked
  BY DEF Init, Promise!Init, AllBacked, Backed, NoHandler
<1>2. Inv /\ Typed /\ Amounts /\ AllBacked /\ [Next]_vars => [Promise!Next]_(Promise!vars)
  BY StepRefines
<1> QED
  BY <1>1, <1>2, NextKeepsBacked, InitAmounts, NextKeepsAmounts, InitTyped, NextKeepsTyped,
     InitInv, NextKeepsInv, PTL DEF Spec, Refines, Promise!Spec
=============================================================================
