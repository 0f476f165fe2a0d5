-------------------------- MODULE MCNvInference --------------------------
(***************************************************************************)
(* Programs for NvInference: every program of up to MaxStatements of the       *)
(* statements.  "v" is a vector annotated before; its elements have no type    *)
(* the checker knows.                                                          *)
(***************************************************************************)
EXTENDS NvInference

Lit(t) == [op |-> "lit", t |-> t]
One == Lit(TInt)
Word == Lit(TStr)
Yes == Lit(TBool)
N(x) == [op |-> "name", x |-> x]
Some(e) == [op |-> "some", e |-> e]
Ok(e) == [op |-> "ok", e |-> e]
Err(e) == [op |-> "err", e |-> e]
Pair(e1, e2) == [op |-> "tuple", es |-> <<e1, e2>>]
Array2(e1, e2) == [op |-> "array", es |-> <<e1, e2>>]
KeyValue(e) == [op |-> "map", kvs |-> <<<<Word, e>>>>]
KeyValues(e1, e2) == [op |-> "map", kvs |-> <<<<Word, e1>>, <<Word, e2>>>>]
At(e, i) == [op |-> "index", e |-> e, i |-> i]
Call(f, e) == [op |-> "call", f |-> f, e |-> e]
If(c, l, r) == [op |-> "if", c |-> c, l |-> l, r |-> r]
Element == At(N("v"), TInt)

Let(x, e) == [op |-> "assign", x |-> x, e |-> e]
Declare(x, ann, e) == [op |-> "decl", x |-> x, ann |-> ann, e |-> e]
Eval(e) == [op |-> "eval", e |-> e]
Def(d) == [op |-> "def", d |-> d]

D(f, param, ret, e) == [f |-> f, generic |-> TRUE, x |-> "p", param |-> param, ret |-> ret, e |-> e]
Identity == D("id", Param, Param, N("p"))
Half == [f |-> "half", generic |-> FALSE, x |-> "p", param |-> TInt, ret |-> Option(TInt), e |-> Some(N("p"))]
Boxed == D("boxed", Param, Option(Param), Some(N("p")))

Scalars == {TInt, TStr}
Flat == Scalars \cup {Option(t) : t \in Scalars} \cup {Result(t, u) : t \in Scalars, u \in Scalars}
Nested == {TBool, Tuple(<<TInt, Option(TStr)>>)} \cup Flat \cup {Option(Option(t)) : t \in Scalars}

V == [v |-> Vector]

-----------------------------------------------------------------------------
(* Closed types: literals, composites of them, calls of generic defs, and    *)
(* Results that have an annotation.                                          *)

R == Result(TInt, TStr)
ClosedPool == {
  Let("a", One), Let("a", Word), Let("a", Call("id", Word)), Let("a", Call("boxed", One)),
  Let("b", N("a")), Let("b", Some(N("a"))), Let("b", Call("id", N("a"))),
  Let("b", At(Array2(N("a"), N("a")), TInt)), Let("b", If(Yes, N("a"), One)), Let("b", Pair(N("a"), One)),
  Let("a", At(KeyValues(N("b"), Word), TStr)), Let("b", At(N("a"), TInt)),
  Declare("r", R, Ok(N("a"))), Declare("r", R, Err(N("a"))), Declare("r", Array(2, TStr), Array2(Word, N("a"))),
  Let("b", Call("id", N("r"))), Eval(If(Yes, N("r"), Err(N("b")))), Eval(If(N("b"), One, One)),
  Def(Identity), Def(Boxed) }

-----------------------------------------------------------------------------
(* One unknown: the type of a, an element of a vector, is found out later.   *)

UnknownPool == {
  Let("a", Element), Let("a", One), Let("a", Word), Let("a", Some(One)), Let("a", Some(N("b"))),
  Let("b", N("a")), Let("b", Some(N("a"))), Let("b", One), Let("b", Some(Word)),
  Let("c", N("b")), Let("c", Pair(N("a"), N("b"))), Let("c", Pair(One, Some(Word))),
  Let("c", If(Yes, N("a"), N("b"))), Let("c", If(N("a"), One, One)),
  Let("c", Call("half", N("b"))), Def(Half),
  Declare("r", R, Ok(N("a"))), Declare("r", R, Err(N("a"))) }

\* A map of what a may be, and a given that map.
MapPool == {Let("a", Element), Let("a", One), Let("b", KeyValue(N("a"))), Let("a", N("b")), Eval(N("a"))}

MCMapSources == {[defs |-> {}, statements |-> MapPool]}

MCSources == {[defs |-> {Identity, Boxed}, statements |-> ClosedPool], [defs |-> {Half}, statements |-> UnknownPool]}

=============================================================================
