------------------------------- MODULE Router -------------------------------
(***************************************************************************)
(* Router: the table of routes that main and the controllers fill in       *)
(* before the server starts, and how a request finds its handler.          *)
(*                                                                         *)
(* A path is the sequence of the texts between its slashes, so "/" is      *)
(* <<"", "">> and "/orders/7" is <<"", "orders", "7">>.  A segment of a    *)
(* route is <<"text", t>> or, for ":name", <<"param", name>>.              *)
(***************************************************************************)
EXTENDS Integers, Sequences, FiniteSets, FiniteSetsExt

\* std::getline up to the next slash: a text that is empty and the last of
\* its path is never read.
Read(path) ==
  IF path # <<>> /\ path[Len(path)] = "" THEN SubSeq(path, 1, Len(path) - 1) ELSE path

Text(t) == <<"text", t>>
Param(name) == <<"param", name>>
IsParam(segment) == segment[1] = "param"

\* The routes in the order in which main registers them: payments, accounts,
\* products, and its own two.
At(method, segments, handler) ==
  [method |-> method, segments |-> segments, handler |-> handler]
Top == Text("")
Routes == <<
  At("POST", <<Top, Text("checkout")>>, "checkout"),
  At("GET", <<Top, Text("orders"), Param("id")>>, "get_order"),
  At("POST", <<Top, Text("payment"), Text("callback")>>, "payment_callback"),
  At("POST", <<Top, Text("login")>>, "login"),
  At("POST", <<Top, Text("register")>>, "register_user"),
  At("GET", <<Top, Text("products")>>, "get_products"),
  At("GET", <<Top, Text("products"), Param("id")>>, "get_product"),
  At("POST", <<Top, Text("products")>>, "add_product"),
  At("DELETE", <<Top, Text("products"), Param("id")>>, "delete_product"),
  At("PUT", <<Top, Text("products"), Param("id")>>, "update_product"),
  At("GET", <<Top>>, "home"),
  At("POST", <<Top, Text("order")>>, "echo_order") >>

\* A faulty variant of Match: a route matches the longer paths it begins.
MatchPrefix(segments, path) ==
  LET read == Read(path)
  IN  /\ Len(segments) <= Len(read)
      /\ \A i \in DOMAIN segments : IsParam(segments[i]) \/ segments[i] = Text(read[i])

\* The loop of match, from the i-th segment of both on.
Match(segments, path) ==
  LET read == Read(path)
      from[i \in 1..(Len(segments) + 1)] ==
        IF i > Len(segments) /\ i > Len(read) THEN TRUE
        ELSE IF i > Len(segments) \/ i > Len(read) THEN FALSE
        ELSE IF IsParam(segments[i]) THEN segments[i][2] # "" /\ from[i + 1]
        ELSE segments[i] = Text(read[i]) /\ from[i + 1]
  IN  from[1]

\* req.params after match: the route's names with the texts in their places.
Params(segments, path) ==
  [name \in {segments[i][2] : i \in {j \in DOMAIN segments : IsParam(segments[j])}} |->
     LET last == Max({i \in DOMAIN segments : segments[i] = Param(name)})
     IN  Read(path)[last]]

\* route: the first route of the request's method that matches, with the
\* parameters of that route alone.
Hits(method, path) ==
  {i \in DOMAIN Routes : Routes[i].method = method /\ Match(Routes[i].segments, path)}
Route(method, path) ==
  LET hits == Hits(method, path)
  IN  IF hits = {} THEN [handler |-> "not_found", params |-> <<>>]
      ELSE [handler |-> Routes[Min(hits)].handler,
            params |-> Params(Routes[Min(hits)].segments, path)]
-----------------------------------------------------------------------------
\* The paths of up to four segments that can be made of texts.
PathsOf(texts) == UNION {[1..n -> texts] : n \in 1..4}

\* A request gets the handler whose route reads like its path, and its id is
\* what the path has in the place of ":id"; a slash at the end makes no
\* difference; and no two routes compete for a request, so that the order in
\* which the controllers register does not matter.
FindsTheRoute(methods, texts) ==
  \A method \in methods, path \in PathsOf(texts) :
    LET found == Route(method, path)
        Fits(r) == /\ r.method = method
                   /\ Len(r.segments) = Len(Read(path))
                   /\ \A i \in DOMAIN r.segments :
                        IsParam(r.segments[i]) \/ r.segments[i][2] = Read(path)[i]
    IN  /\ Cardinality(Hits(method, path)) <= 1
        /\ found.handler = "not_found" <=> ~\E i \in DOMAIN Routes : Fits(Routes[i])
        /\ \A i \in DOMAIN Routes : Fits(Routes[i]) =>
             /\ found.handler = Routes[i].handler
             /\ \A j \in DOMAIN Routes[i].segments : IsParam(Routes[i].segments[j]) =>
                  found.params[Routes[i].segments[j][2]] = path[j]
        /\ path[Len(path)] # "" => Route(method, Append(path, "")) = found
=============================================================================
