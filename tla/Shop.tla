-------------------------------- MODULE Shop --------------------------------
(***************************************************************************)
(* What checkout and the payment callback promise a customer, whatever     *)
(* handlers run at once, statements fail and crashes come between: an      *)
(* order gets lines only until somebody is asked to pay for it; what is    *)
(* asked for is the sum of its lines, which are those of a cart; and only  *)
(* LiqPay's report of a payment, for the amount that was asked, changes    *)
(* the status of the payment or of its order.                              *)
(*                                                                         *)
(* It is not promised that an order gets all its lines, that it is ever    *)
(* charged for, that a payment is recorded, that two payments differ in    *)
(* their ref, or that order and payment change together: OrderFlow may     *)
(* stop anywhere between its statements.                                   *)
(***************************************************************************)
EXTENDS Integers, Sequences

CONSTANTS Carts,       \* the carts customers send
          Total(_),    \* what a set of lines costs
          Succeeds(_), \* whether a status LiqPay reports is a success
          Tolerance    \* how far LiqPay's amount may be from the one asked

VARIABLES orders,      \* the status of each order
          items,       \* the lines of all orders
          payments,
          forms,       \* what customers were asked to pay
          told         \* what LiqPay has reported

vars == <<orders, items, payments, forms, told>>

Charged(row) == \E c \in forms \cup payments : c.row = row
LinesOf(row) == {i \in items : i.row = row}
RowsOf(ref) == {p \in payments : p.ref = ref}

Init == orders = <<>> /\ items = {} /\ payments = {} /\ forms = {} /\ told = {}

Open ==
  /\ orders' = Append(orders, "New")
  /\ UNCHANGED <<items, payments, forms, told>>

AddLine ==
  /\ \E i \in items' : /\ items' = items \cup {i}
                       /\ i.row \in DOMAIN orders /\ ~Charged(i.row)
  /\ UNCHANGED <<orders, payments, forms, told>>

\* An order is charged for, once: a customer gets a form and the payment that
\* LiqPay's report will be compared with is recorded, or one of the two is lost.
Charge ==
  /\ \E c \in forms' \cup payments', cart \in Carts :
       /\ c.row \in DOMAIN orders /\ c.order \in {c.row, 0} /\ ~Charged(c.row)
       /\ c.amount = Total(LinesOf(c.row))
       /\ {<<i.line, i.product, i.quantity>> : i \in LinesOf(c.row)} =
          {<<n, cart[n].product, cart[n].quantity>> : n \in DOMAIN cart}
       /\ forms' \in {forms, forms \cup {[row |-> c.row, order |-> c.order, ref |-> c.ref,
                                          amount |-> c.amount, cart |-> cart]}}
       /\ payments' \in {payments, payments \cup {[row |-> c.row, order |-> c.order,
                                                   ref |-> c.ref, amount |-> c.amount,
                                                   status |-> "Pending"]}}
  /\ UNCHANGED <<orders, items, told>>

\* LiqPay reports something about a payment it was sent.
Report ==
  /\ \E f \in forms, t \in told' : t.ref = f.ref /\ told' = told \cup {t}
  /\ UNCHANGED <<orders, items, payments, forms>>

\* Report t is about payment p and agrees with it.
Concerns(t, p) == t.ref = p.ref /\ t.amount - p.amount \in (-Tolerance)..Tolerance

\* A report decides the payments of its ref.
Settle ==
  /\ \E t \in told :
       /\ \E p \in payments : Concerns(t, p)
       /\ payments' = (payments \ RowsOf(t.ref)) \cup
            {[p EXCEPT !.status = IF Succeeds(t.status) THEN "Paid" ELSE "Failed"] : p \in RowsOf(t.ref)}
  /\ UNCHANGED <<orders, items, forms, told>>

\* A report decides the order of a payment it agrees with.
Follow ==
  /\ \E t \in told, p \in payments :
       /\ Concerns(t, p)
       /\ p.order \in DOMAIN orders
       /\ orders' = [orders EXCEPT ![p.order] = IF Succeeds(t.status) THEN "Processing" ELSE "Cancelled"]
  /\ UNCHANGED <<items, payments, forms, told>>

Next == Open \/ AddLine \/ Charge \/ Report \/ Settle \/ Follow

Spec == Init /\ [][Next]_vars
=============================================================================
