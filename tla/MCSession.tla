----------------------------- MODULE MCSession ------------------------------
(* Instances of Session for TLC: every stream of up to MaxRequests requests  *)
(* of a few kinds, well formed and not.                                      *)
EXTENDS Session

CONSTANT MaxRequests

Spelled == {"get", "/", "http", "connection:", "content-length:", "close", "keep-alive",
            "0", "2", "-1", "99", "x"}
WithColon == {"connection:", "content-length:"}
Numbers == [w \in {"0", "2", "-1", "99"} |->
             CASE w = "0" -> 0 [] w = "2" -> 2 [] w = "-1" -> -1 [] w = "99" -> 99]

Get == <<"get", "/", "http">>
Short == <<"x">>
LengthIs(number) == <<"content-length:", number>>
ConnectionIs(what) == <<"connection:", what>>
Sent(lines, body) == [lines |-> lines, body |-> body]

Kinds == {
  Sent(<<Get, <<>>>>, <<>>),
  Sent(<<Get, ConnectionIs("close"), <<>>>>, <<>>),
  Sent(<<Short>>, <<>>),
  Sent(<<Get, LengthIs("2"), <<>>>>, <<"x", "x">>),
  Sent(<<Get, LengthIs("2"), <<>>>>, <<"cr", "lf">>),
  Sent(<<Get, LengthIs("0"), <<>>>>, <<>>),
  Sent(<<Get, ConnectionIs("close"), ConnectionIs("keep-alive"), <<>>>>, <<>>),
  Sent(<<Get, Short, <<>>>>, <<>>),
  Sent(<<Get, LengthIs("x"), <<>>>>, <<"x">>),
  Sent(<<Get, LengthIs("-1"), <<>>>>, <<>>),
  Sent(<<Get, LengthIs("99"), <<>>>>, <<>>)}

AllStreams == SeqOf(Kinds, MaxRequests) \ {<<>>}
=============================================================================
