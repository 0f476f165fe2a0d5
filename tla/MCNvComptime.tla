--------------------------- MODULE MCNvComptime ---------------------------
(***************************************************************************)
(* Programs for NvComptime: comptime defs f, with a body of two statements   *)
(* taken from a pool, and g, which has variables of the same names; and a    *)
(* dozen ways to use them.                                                   *)
(***************************************************************************)
EXTENDS NvComptime

N(x) == [k |-> "name", x |-> x]
V(n) == Lit(Number(n))
Op(o, l, r) == [k |-> "op", o |-> o, l |-> l, r |-> r]
And(l, r) == [k |-> "and", l |-> l, r |-> r]
Call(f, e) == [k |-> "call", f |-> f, args |-> <<e>>]
Ct(e) == [k |-> "ct", e |-> e]

Set(x, e) == [op |-> "set", x |-> x, e |-> e]
Decl(x, e) == [op |-> "decl", x |-> x, e |-> e]
CDecl(x, e) == [op |-> "cdecl", x |-> x, e |-> e]
Return(e) == [op |-> "return", e |-> e]
Show(e) == [op |-> "show", e |-> e]
Emitting(e) == [op |-> "emit", e |-> e]
If(op, c, then, else) == [op |-> op, c |-> c, then |-> then, else |-> else]
Loop(op, c, body) == [op |-> op, c |-> c, body |-> body]
For(op, x, hi, body) == [op |-> op, x |-> x, lo |-> V(0), hi |-> hi, body |-> body]
Def(f, flag, body) == [op |-> "def", f |-> f, flag |-> flag, x |-> "p", body |-> body]
Calling(f, e) == [op |-> "run", f |-> f, e |-> e]

\* Statements of f: a is set first, i counts, t lives inside loops.
Pool == {
  Set("a", Op("+", N("n"), V(1))),
  Set("a", Call("g", N("n"))),
  Set("b", Op("+", Call("g", N("n")), N("a"))),
  If("if", Op("<", V(0), N("n")), <<Set("a", Call("f", Op("+", N("n"), V(-1))))>>, <<Set("a", V(7))>>),
  If("cif", And(Op("<", V(0), N("n")), Op("==", Op("//", V(4), N("n")), V(2))),
     <<Return(N("n"))>>, <<Set("a", V(3))>>),
  For("for", "i", N("n"), <<Set("a", Op("+", N("i"), Call("g", N("i"))))>>),
  For("cfor", "i", V(4), <<If("if", Op("==", N("i"), N("n")), <<Return(N("i"))>>, <<>>)>>),
  Loop("while", Op("<", N("a"), V(4)), <<Decl("t", N("a")), Set("a", Op("+", N("t"), V(1)))>>),
  Loop("cwhile", Op("<", N("a"), N("n")), <<Set("a", Op("+", N("a"), V(1))), Emitting(N("a"))>>),
  [op |-> "cblock", body |-> <<Set("a", N("n")), Decl("t", V(5)), Emitting(Op("+", N("t"), N("a")))>>],
  Emitting(N("n")),
  Set("a", Op("//", V(6), N("n"))),
  Show(N("n")) }

Bodies == {<<Set("a", V(0)), s1, s2, Return(N("a"))>> : s1 \in Pool, s2 \in Pool}
          \cup {<<s, Return(N("a"))>> : s \in Pool} \cup {<<Set("a", V(1)), Emitting(N("n"))>>}
          \cup {<<Return(Op("+", Call("f", N("n")), V(1)))>>}

F(n) == Call("f", n)
G == [params |-> <<"n">>,
      body |-> <<Set("a", Op("+", N("n"), N("n"))), For("for", "i", V(2), <<Set("a", Op("+", N("a"), N("i")))>>),
                 Return(N("a"))>>]

Mains == {
  <<CDecl("k", F(V(2))), Show(N("k")), Show(Ct(F(N("k"))))>>,
  <<CDecl("a", V(1)), CDecl("k", F(V(1))), Show(Op("+", N("a"), N("k"))), Show(Ct(N("a")))>>,
  <<For("cfor", "j", V(3), <<Show(Op("+", N("j"), Ct(F(N("j")))))>>), Show(V(0))>>,
  <<For("cfor", "j", V(5), <<Show(N("j"))>>), Show(Ct(F(V(0))))>>,
  <<CDecl("k", F(V(3))), For("cfor", "j", N("k"), <<Show(N("j")), CDecl("m", F(N("j")))>>)>>,
  <<CDecl("k", V(0)), Loop("cwhile", Op("<", N("k"), V(2)), <<Show(Ct(F(N("k")))), Set("k", Op("+", N("k"), V(1)))>>),
    Show(N("k"))>>,
  <<CDecl("k", F(V(1))), If("cif", Op("<", N("k"), V(2)), <<Show(N("k"))>>, <<Set("r", N("k")), Show(Ct(N("r")))>>)>>,
  <<[op |-> "cblock", body |-> <<Set("v", F(V(2))), Show(N("v")), Set("v", Op("+", N("v"), V(1)))>>], Show(N("v"))>>,
  <<Def("h", FALSE, <<CDecl("k", F(V(1))), Show(Op("+", N("p"), N("k")))>>), Calling("h", V(5)), Calling("h", V(6))>>,
  <<Def("h", TRUE, <<Show(N("p"))>>), CDecl("k", V(2)), Calling("h", F(N("k")))>>,
  <<Def("h", TRUE, <<Show(N("p"))>>), Set("r", V(2)), Calling("h", N("r"))>>,
  <<Def("h", FALSE, <<If("if", Op("<", N("p"), V(0)), <<Show(Ct(F(V(1))))>>, <<Show(Ct(F(N("p"))))>>)>>),
    Calling("h", V(1))>>,
  <<Def("h", FALSE, <<If("if", N("p"), <<For("cfor", "j", V(2), <<Show(Ct(F(N("j"))))>>)>>, <<Show(N("p"))>>)>>),
    Calling("h", V(1))>>,
  <<[op |-> "cexpr", e |-> F(V(2))], Emitting(V(9)), Show(V(1)), [op |-> "cexpr", e |-> F(V(1))]>>,
  <<Set("r", V(1)), Show(Op("+", N("r"), Ct(F(V(3))))), Loop("cwhile", Op("<", N("r"), V(2)), <<Show(V(1))>>)>> }

MCPrograms ==
  {[funcs |-> [f |-> [params |-> <<"n">>, body |-> b], g |-> G], body |-> m] : b \in Bodies, m \in Mains}

=============================================================================
