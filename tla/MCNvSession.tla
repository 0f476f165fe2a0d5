----------------------------- MODULE MCNvSession -----------------------------
(* Inputs of one or two statements over two functions and two variables; f has *)
(* definitions of two arities and one that lowering does not take.             *)
EXTENDS NvSession

Stmt(kind, name, arity, reads, calls) ==
  [kind |-> kind, name |-> name, arity |-> arity, reads |-> reads,
   calls |-> calls, compiles |-> TRUE]

MCDefs ==
  {Stmt("def", "f", 1, reads, {}) : reads \in {{}, {"x"}}} \cup
  {Stmt("def", "f", 2, {}, {})} \cup
  {[Stmt("def", "f", 1, {}, {}) EXCEPT !.compiles = FALSE]} \cup
  {Stmt("def", "g", 1, {}, calls) : calls \in {{}, {<<"f", 1>>}}}
MCSets ==
  {Stmt("set", "x", 0, {}, {}), Stmt("set", "y", 0, {"x"}, {}),
   Stmt("set", "x", 0, {"y"}, {<<"f", 1>>})}
MCExprs ==
  {Stmt("expr", "", 0, {"x"}, {}), Stmt("expr", "", 0, {}, {<<"f", 2>>}),
   Stmt("expr", "", 0, {"y"}, {<<"g", 1>>})}

MCCells ==
  LET stmts == MCDefs \cup MCSets \cup MCExprs
  IN {<<s>> : s \in stmts} \cup
     {<<d, s>> : d \in MCDefs, s \in MCSets \cup MCExprs} \cup
     {<<s, d>> : s \in MCSets, d \in MCDefs}
=============================================================================
