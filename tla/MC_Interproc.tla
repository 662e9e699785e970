------------------------------ MODULE MC_Interproc ------------------------------
(***************************************************************************)
(* Programs of three functions: f and g have a parameter, f a local        *)
(* variable, h only a local variable.  f may call itself, g and h; g may   *)
(* call f and h.                                                           *)
(***************************************************************************)
EXTENDS Interproc

Const(k) == [var |-> None, less |-> k]
Var(v) == [var |-> v, less |-> 0]
Pred(v) == [var |-> v, less |-> 1]

Set(v, e) == [op |-> "assign", var |-> v, expr |-> e]
Ret(e) == [op |-> "return", expr |-> e]
RetIfZero(e) == [op |-> "return_if_zero", expr |-> e]
EscIfZero(e) == [op |-> "escape_if_zero", expr |-> e]
CallTo(f, args, range) == [fun |-> f, args |-> args, range |-> range]
SetCall(v, y, c) == [op |-> "call", var |-> v, plus |-> y, call |-> c]
RetCall(y, c) == [op |-> "return_call", plus |-> y, call |-> c]

\* int n = input; n = n + f(n)
Main == [params |-> << >>, locals |-> {"n"},
         body |-> <<SetCall("n", Var("n"), CallTo("f", <<Var("n")>>, "m1"))>>]

F(body) == [params |-> <<"x">>, locals |-> {"u"}, body |-> body]
G(body) == [params |-> <<"y", "z">>, locals |-> {}, body |-> body]
H(body) == [params |-> << >>, locals |-> {"w"}, body |-> body]

FF(range) == CallTo("f", <<Pred("x")>>, range)

Guards == {<<RetIfZero(Var("x"))>>, <<EscIfZero(Var("x"))>>}
FMiddle == {
    << >>,
    <<Set("u", Pred("x"))>>,
    <<SetCall("u", Var("x"), CallTo("g", <<Var("x"), Pred("x")>>, "f2"))>>,
    <<SetCall("u", Var("x"), FF("f1")), RetIfZero(Var("u"))>>}
FEnd == {
    <<Ret(Pred("x"))>>,
    <<RetCall(Var("x"), FF("f3"))>>,
    <<RetCall(Var("x"), CallTo("g", <<Pred("x"), Var("x")>>, "f4"))>>,
    <<RetCall(Var("x"), CallTo("h", << >>, "f5"))>>}

FBodies == {g \o m \o e : g \in Guards, m \in FMiddle, e \in FEnd}

GBodies == {
    <<Ret(Var("z"))>>,
    <<RetIfZero(Var("y")), RetCall(Var("z"), CallTo("f", <<Pred("y")>>, "g1"))>>,
    <<EscIfZero(Var("z")), RetCall(Var("z"), CallTo("h", << >>, "g2"))>>}

HBody == <<Set("w", Const(1)), Ret(Var("w"))>>

\* Recursion that stops after one nested call on the inputs 0 and 1.
Regular ==
    {"main" :> Main @@ "f" :> F(fb) @@ "g" :> G(gb) @@ "h" :> H(HBody)
        : fb \in FBodies, gb \in GBodies}

Program(main, fb) == {"main" :> main @@ "f" :> F(fb) @@ "g" :> G(<<Ret(Var("z"))>>) @@ "h" :> H(HBody)}

\* f(x) = if x = 0 then 0 else x + f(x - 1)
Sum == Program(Main, <<RetIfZero(Var("x")), RetCall(Var("x"), FF("f1"))>>)

\* Functions that call each other without end and read nothing.  Where two
\* statements have the same range they are two iterations of a loop.
Calls(v, f, ranges) == {SetCall(v, Const(0), CallTo(f, IF f = "h" THEN << >> ELSE <<Const(1)>>, r)) : r \in ranges}
Endless ==
    {"main" :> Main @@ "f" :> F(<<c1, c2, Ret(Const(1))>>) @@ "h" :> H(<<c3, Ret(Const(1))>>)
        : c1 \in Calls("u", "f", {"f1", "f2"}) \union Calls("u", "h", {"f3"}),
          c2 \in Calls("u", "f", {"f2"}) \union Calls("u", "h", {"f3", "f4"}),
          c3 \in Calls("w", "f", {"h1"}) \union Calls("w", "h", {"h2"})}

Looping == Regular \union Endless
===============================================================================
