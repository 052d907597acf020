---------------------------- MODULE MCCatalogue -----------------------------
(* Instances of Catalogue for TLC. *)
EXTENDS Catalogue, TLC

User(id, length, plain) == [id |-> id, length |-> length, plain |-> plain]
Pass(id, length) == [id |-> id, length |-> length]
Form(username, password, role) ==
  [username |-> username, password |-> password, role |-> role]

\* Names and passwords at the inner side of each bound; the last form asks for
\* a role there is not.
ann == User("ann", 3, TRUE)
bob == User("bob", 50, TRUE)
eve == User("eve", 3, TRUE)
TheAdmin == Form(ann, Pass("a", 8), "admin")
AnEmployee == Form(bob, Pass("b", 128), "employee")
AllForms == {TheAdmin, AnEmployee, Form(eve, Pass("e", 8), "employee"),
             Form(eve, Pass("f", 8), "admin"), Form(eve, Pass("e", 8), "guest")}
TwoAccounts == {TheAdmin, AnEmployee}

AllMethods == {"GET", "POST", "PUT", "DELETE"}
SomePaths == {<<"", "">>, <<"", "products">>, <<"", "products", "1">>, <<"", "products", "x">>}
OneAndTwo == "1" :> 1 @@ "2" :> 2

Bounds == [requests |-> 3, registers |-> 2, logins |-> 2, edits |-> 2, orders |-> 1,
           mishaps |-> 1]
AnyWorker == Permutations(Workers)
=============================================================================
