----------------------------- MODULE MCRelayDesk -----------------------------
EXTENDS RelayDesk

Main(code) == [there |-> TRUE, on |-> TRUE, live |-> TRUE, code |-> code, owner |-> ""]
Under(code) == [Main(code) EXCEPT !.owner = "m"]

Outside(m, a, b) == ("m" :> m) @@ ("a" :> a) @@ ("b" :> b)

M == Row("m", "m", 0)
A == Row("a", "a", 1)

Opening1(outside, rows, filed, allowed) ==
  [up |-> outside, mail |-> filed, book |-> [version |-> 1, rows |-> rows], codes |-> 3, plan |-> allowed]

One(asks) == [a \in asks |-> 1]

MCOpenings == {
  Opening1(Outside(Main(1), Under(2), Nothing), <<M, A>>, "",
    One({<<"me", "reset">>, <<"other", "reset">>, <<"me", "render">>})),
  Opening1(Outside(Main(1), Under(2), Nothing), <<M, A>>, "",
    One({<<"me", "reset">>, <<"other", "reset">>, <<"fault", "lost">>})),
  Opening1(Outside(Main(1), Under(2), Nothing), <<M, A>>, "",
    One({<<"me", "reset">>, <<"me", "again">>, <<"me", "render">>, <<"fault", "failed">>, <<"fault", "restart">>})),
  Opening1(Outside(Main(1), Under(2), Nothing), <<M, A>>, "",
    One({<<"buyer", "public">>, <<"other", "reset">>, <<"other", "edit">>, <<"fault", "expired">>})),
  Opening1(Outside(Main(1), Under(2), Nothing), <<M, A>>, "a",
    One({<<"other", "query">>, <<"other", "reset">>, <<"other", "edit">>})),
  Opening1(Outside(Main(1), Under(2), Under(3)), <<M, A, Row("b", "b", 1)>>, "a",
    One({<<"me", "assign">>, <<"other", "assign">>, <<"me", "mails">>})),
  Opening1(Outside(Main(1), Under(2), Under(3)), <<M, A, Row("b", "b", 1)>>, "",
    One({<<"me", "assign">>, <<"other", "assign">>, <<"fault", "lost">>, <<"fault", "restart">>})),
  Opening1(Outside(Main(1), Nothing, Nothing), <<M>>, "",
    One({<<"me", "register">>, <<"other", "register">>, <<"other", "add">>, <<"me", "again">>, <<"fault", "lost">>})),
  Opening1(Outside(Main(1), Nothing, Nothing), <<M, Row("a", "", 1)>>, "",
    One({<<"me", "register">>, <<"other", "edit">>, <<"other", "register">>, <<"fault", "lost">>})),
  Opening1(Outside(Main(1), Nothing, Nothing), <<Row("m", "", 0)>>, "",
    One({<<"me", "import">>, <<"me", "saveMain">>, <<"other", "edit">>})),
  Opening1(Outside(Nothing, Nothing, Nothing), << >>, "",
    One({<<"me", "import">>, <<"me", "saveMain">>, <<"me", "again">>, <<"fault", "lost">>, <<"fault", "restart">>})),
  Opening1(Outside(Main(1), Under(2), Nothing), <<M, A>>, "",
    One({<<"me", "saveMain">>, <<"me", "read">>, <<"other", "edit">>})),
  Opening1(Outside(Main(1), Under(2), Nothing), <<M, A>>, "",
    One({<<"me", "claim">>, <<"other", "return">>, <<"other", "add">>, <<"fault", "expired">>})),
  Opening1(Outside(Main(1), Under(2), Nothing), <<M, [A EXCEPT !.claim = 1]>>, "",
    One({<<"me", "codes">>, <<"other", "return">>, <<"other", "reset">>, <<"fault", "expired">>}))
}
=============================================================================
