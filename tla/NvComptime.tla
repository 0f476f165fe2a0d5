---------------------------- MODULE NvComptime ----------------------------
(***************************************************************************)
(* Compile-time execution: ComptimeEvaluator (src/frontend/checker/comptime *)
(* /comptime_evaluator.cpp).  Before the types of a program are checked,     *)
(* expand_body walks its statements, evaluates every comptime construct and  *)
(* leaves ordinary statements in their place.                                *)
(*                                                                           *)
(* An expression is a record whose "k" is lit (v), name (x), op (o, l, r),   *)
(* and (l, r), call (f, args), of a comptime def, or ct (e), "comptime e"    *)
(* inside run-time code.  A statement's "op" is one of                       *)
(*   cdecl  comptime x = e          cfor, cif, cwhile, cblock  comptime ...  *)
(*   cexpr  comptime e              emit   @emit of "write(<value of e>);"   *)
(*   show   write(e)                set    x = e          decl   x: int = e  *)
(*   if, while, for, return         def    a function of one parameter,      *)
(*                                         which is comptime when "flag"     *)
(*   run    a call of a def         const  what the expansion makes of x = e *)
(* The evaluator threads one record E through everything it does; "val",     *)
(* "expr" and "stop" carry the result of the last evaluation.                *)
(***************************************************************************)
EXTENDS Integers, SequencesExt

CONSTANTS
  Programs,        \* records [funcs, body]: the comptime defs and the statements
  MaxDepth,        \* MAX_DEPTH: comptime calls one inside another
  MaxIterations,   \* MAX_LOOP_ITERATIONS and the caps on unrolling
  MaxEmitted       \* statements @emit may generate

ASSUME CapsAssumption == MaxDepth \in Nat /\ MaxIterations \in Nat /\ MaxEmitted \in Nat

-----------------------------------------------------------------------------
(* Values.                                                                 *)

Number(n) == [tag |-> "int", n |-> n]
Truth(b) == [tag |-> "bool", n |-> IF b THEN 1 ELSE 0]
None == [tag |-> "none", n |-> 0]
Void == [tag |-> "void", n |-> 0]

Truthy(v) == v.tag \in {"int", "bool"} /\ v.n # 0
IsNumeric(v) == v.tag = "int"

\* A value that has a literal.
Literal(v) == v.tag \in {"int", "bool"}
Lit(v) == [k |-> "lit", v |-> v]
Const(x, v) == [op |-> "const", x |-> x, e |-> Lit(v)]

\* What an operator makes of two values (none negative here); None when it
\* refuses them.
Operate(o, l, r) ==
  CASE o = "==" -> Truth(IF IsNumeric(l) /\ IsNumeric(r) THEN l.n = r.n ELSE Truthy(l) = Truthy(r))
    [] ~IsNumeric(l) \/ ~IsNumeric(r) -> None
    [] o = "<" -> Truth(l.n < r.n)
    [] o = "+" -> Number(l.n + r.n)
    [] o = "//" -> IF r.n = 0 THEN None ELSE Number(l.n \div r.n)

-----------------------------------------------------------------------------
(* The evaluator's state and its scopes.                                   *)

Fresh(p) ==
  [scopes |-> <<<<>>>>, base |-> 1, depth |-> 0, failed |-> FALSE,
   funcs |-> p.funcs, flagged |-> {}, queue |-> <<>>, emitted |-> 0,
   val |-> Void, expr |-> Lit(Void), stop |-> FALSE, out |-> <<>>]

Give(E, v) == [E EXCEPT !.val = v]
Fail(E) == [E EXCEPT !.failed = TRUE, !.val = None]

Push(E) == [E EXCEPT !.scopes = Append(@, <<>>)]
Pop(E) == IF Len(E.scopes) > 1 THEN [E EXCEPT !.scopes = Front(@)] ELSE E

\* The innermost scope from "lowest" on that binds x; 0 when there is none.
Home(E, x, lowest) == Max({k \in lowest .. Len(E.scopes) : x \in DOMAIN E.scopes[k]} \cup {0})

Declare(E, x, v) == [E EXCEPT !.scopes[Len(E.scopes)] = (x :> v) @@ @]

\* Mutant of SetVar: the search goes on into the scopes of the caller.
SetVarAnywhere(E, x, v) ==
  LET home == Home(E, x, 1) IN
  [E EXCEPT !.scopes[IF home = 0 THEN E.base ELSE home] = (x :> v) @@ @]

\* An assignment goes where the name is bound in the function that is running,
\* or declares it in the function's own scope.
SetVar(E, x, v) ==
  LET home == Home(E, x, E.base) IN
  [E EXCEPT !.scopes[IF home = 0 THEN E.base ELSE home] = (x :> v) @@ @]

Lookup(E, x) ==
  LET home == Home(E, x, 1) IN IF home = 0 THEN Fail(E) ELSE Give(E, E.scopes[home][x])

\* call_func up to the body: a scope of its own, with the parameters bound in it.
Enter(E, f, vals) ==
  LET P == FoldLeft(LAMBDA Q, k : Declare(Q, f.params[k], vals[k]), Push(E), [k \in DOMAIN f.params |-> k])
  IN [P EXCEPT !.depth = @ + 1, !.base = Len(P.scopes)]

\* ... and after it.
Leave(E, base) == Pop([E EXCEPT !.depth = @ - 1, !.base = base, !.stop = FALSE])

-----------------------------------------------------------------------------
(* Evaluation: expressions, and the bodies of comptime defs.               *)

\* A block that ran inside another statement ends the body when it failed or
\* returned something.
Settle(E) == [E EXCEPT !.stop = E.failed \/ E.val # Void]

TooDeep(E) == E.depth >= MaxDepth

TooLong(n) == n >= MaxIterations

RECURSIVE Eval(_, _), EvalBlock(_, _), EvalWhile(_, _, _), EvalFor(_, _, _, _)

Eval(E, e) ==
  CASE e.k = "lit" -> Give(E, e.v)
    [] e.k = "name" -> Lookup(E, e.x)
    [] e.k = "and" ->
         LET L == Eval(E, e.l)
             R == Eval(L, e.r)
         IN IF L.failed \/ ~Truthy(L.val) THEN Give(L, IF L.failed THEN None ELSE Truth(FALSE))
            ELSE Give(R, IF R.failed THEN None ELSE Truth(Truthy(R.val)))
    [] e.k = "op" ->
         LET L == Eval(E, e.l)
             R == Eval(L, e.r)
             v == Operate(e.o, L.val, R.val)
         IN IF v = None THEN Fail(R) ELSE Give(R, v)
    [] e.k = "ct" -> Eval(E, e.e)
    [] e.k = "call" ->
         IF e.f \notin DOMAIN E.funcs \/ TooDeep(E) THEN Fail(E)
         ELSE LET A == FoldLeft(LAMBDA Q, a : LET V == Eval(Q[1], a) IN <<V, Append(Q[2], V.val)>>,
                                <<E, <<>>>>, e.args)
                  f == E.funcs[e.f]
              IN Leave(EvalBlock(Enter(A[1], f, A[2]), f.body), A[1].base)

\* The source is queued whether or not it could be computed.
Emit(E, s) ==
  LET V == Eval(E, s.e) IN
  [V EXCEPT !.queue = Append(@, [op |-> "show", e |-> Lit(V.val)]), !.val = Void]

EvalStmt(E, s) ==
  CASE s.op = "return" -> [Eval(E, s.e) EXCEPT !.stop = TRUE]
    [] s.op = "decl" -> LET V == Eval(E, s.e) IN Declare(V, s.x, V.val)
    [] s.op \in {"set", "cdecl"} -> LET V == Eval(E, s.e) IN SetVar(V, s.x, V.val)
    [] s.op = "emit" -> LET V == Emit(E, s) IN [V EXCEPT !.stop = V.failed]
    [] s.op \in {"if", "cif"} ->
         LET C == Eval(E, s.c) IN Settle(EvalBlock(C, IF Truthy(C.val) THEN s.then ELSE s.else))
    [] s.op \in {"while", "cwhile"} -> EvalWhile(E, s, 0)
    [] s.op \in {"for", "cfor"} ->
         LET L == Eval(E, s.lo)
             H == Eval(L, s.hi)
         IN IF IsNumeric(L.val) /\ IsNumeric(H.val) THEN EvalFor(H, s, L.val.n, H.val.n)
            ELSE [Fail(H) EXCEPT !.stop = TRUE]
    [] s.op = "cblock" -> Settle(Pop(EvalBlock(Push(E), s.body)))
    [] OTHER -> [Fail(E) EXCEPT !.stop = TRUE]

\* The value of the return that was executed, Void when there was none.
EvalBlock(E, body) ==
  IF body = <<>> THEN Give(E, Void)
  ELSE LET D == EvalStmt(E, Head(body)) IN
       IF D.stop THEN [D EXCEPT !.stop = FALSE] ELSE EvalBlock(D, Tail(body))

\* n iterations have run.
EvalWhile(E, s, n) ==
  LET C == Eval(E, s.c)
      B == Settle(Pop(EvalBlock(Push(C), s.body)))
  IN IF ~Truthy(C.val) THEN C
     ELSE IF C.failed \/ TooLong(n) THEN [Fail(C) EXCEPT !.stop = TRUE]
     ELSE IF B.stop THEN B ELSE EvalWhile(B, s, n + 1)

EvalFor(E, s, i, hi) ==
  LET B == Settle(Pop(EvalBlock(SetVar(Push(E), s.x, Number(i)), s.body))) IN
  IF i >= hi THEN E ELSE IF B.stop THEN B ELSE EvalFor(B, s, i + 1, hi)

-----------------------------------------------------------------------------
(* Expansion.                                                              *)

\* What @emit queued becomes statements.
Drain(E) ==
  IF E.emitted + Len(E.queue) > MaxEmitted THEN [Fail(E) EXCEPT !.queue = <<>>]
  ELSE [E EXCEPT !.queue = <<>>, !.out = @ \o E.queue, !.emitted = @ + Len(E.queue)]

\* set_var and make_const_decl of the value just computed.
Bind(E, x) ==
  IF E.failed THEN E
  ELSE [SetVar(E, x, E.val) EXCEPT !.out = Append(@, Const(x, E.val)), !.failed = ~Literal(E.val)]

\* rewrite_expr: "comptime e" inside an expression becomes a literal.
Folded(V) == IF V.failed THEN V ELSE [V EXCEPT !.expr = Lit(V.val), !.failed = ~Literal(V.val)]

RECURSIVE Rewrite(_, _)
Rewrite(E, e) ==
  CASE e.k = "ct" -> Folded(Eval(E, e.e))
    [] e.k \in {"op", "and"} ->
         LET L == Rewrite(E, e.l)
             R == Rewrite(L, e.r)
         IN [R EXCEPT !.expr = [e EXCEPT !.l = L.expr, !.r = R.expr]]
    [] OTHER -> [E EXCEPT !.expr = e]

Keep(E, s) == IF E.failed THEN E ELSE [E EXCEPT !.out = Append(@, s)]

\* Mutant of Argument: an argument for a comptime parameter is left to run time.
ArgumentLeft(E, s) == Rewrite(E, s.e)

\* The argument of a call: a comptime parameter needs a value now.
Argument(E, s) == Rewrite(E, IF s.f \in E.flagged THEN [k |-> "ct", e |-> s.e] ELSE s.e)

\* A statement that stays: its expressions are folded.
Plain(E, s) ==
  LET Kept(V) == Keep(V, [s EXCEPT !.e = V.expr])
  IN CASE s.op \in {"set", "show"} -> Kept(Rewrite(E, s.e))
       [] s.op = "run" -> Kept(Argument(E, s))

RECURSIVE ExpandBody(_, _), ExpandNext(_, _), ExpandOne(_, _), ExpandIf(_, _), ExpandDef(_, _), ExpandRange(_, _),
          ExpandChosen(_, _), ExpandFor(_, _, _, _), ExpandWhile(_, _, _), ExpandInline(_, _, _)

\* The statements of an inner body, apart.
Within(E, body) == ExpandBody([E EXCEPT !.out = <<>>], body)

ExpandIf(E, s) ==
  LET Test(C, then, else) == Keep(C, [s EXCEPT !.c = C.expr, !.then = then, !.else = else])
      Else(F, then) == IF F.failed THEN F ELSE Test(Rewrite([F EXCEPT !.out = E.out], s.c), then, F.out)
      Then(T) == IF T.failed THEN T ELSE Else(Within(T, s.else), T.out)
  IN Then(Within(E, s.then))

ExpandDef(E, s) ==
  LET Kept(B) == Keep([B EXCEPT !.out = E.out], [s EXCEPT !.body = B.out])
  IN Kept(Within([E EXCEPT !.flagged = IF s.flag THEN @ \cup {s.f} ELSE @ \ {s.f}], s.body))

\* L has the lower end of the range.
ExpandRange(L, s) ==
  LET From(H) == IF H.failed \/ ~IsNumeric(L.val) \/ ~IsNumeric(H.val) \/ TooLong(H.val.n - L.val.n - 1)
                 THEN Fail(H) ELSE ExpandFor(H, s, L.val.n, H.val.n)
  IN From(Eval(L, s.hi))

\* C has the condition.  ExpandBody leaves a failed evaluator alone.
ExpandChosen(C, s) == ExpandBody(C, IF Truthy(C.val) THEN s.then ELSE s.else)

ExpandOne(E, s) ==
  CASE s.op = "cdecl" -> Bind(Eval(E, s.e), s.x)
    [] s.op = "cfor" -> ExpandRange(Eval(E, s.lo), s)
    [] s.op = "cif" -> ExpandChosen(Eval(E, s.c), s)
    [] s.op = "cwhile" -> ExpandWhile(E, s, 0)
    [] s.op = "cblock" -> Pop(ExpandInline(Push(E), s.body, FALSE))
    [] s.op = "cexpr" -> Eval(E, s.e)
    [] s.op = "emit" -> Emit(E, s)
    [] s.op = "if" -> ExpandIf(E, s)
    [] s.op = "def" -> ExpandDef(E, s)
    [] OTHER -> Plain(E, s)

\* One clone of the body for each element.
ExpandFor(E, s, i, hi) ==
  IF i >= hi \/ E.failed THEN E
  ELSE ExpandFor(Pop(ExpandBody(Bind(Give(Push(E), Number(i)), s.x), s.body)), s, i + 1, hi)

\* The statements of a comptime block, or of an unrolled while: assignments are
\* carried out now - in a while only those to a name that is known - and the
\* others are expanded one by one.
ExpandInline(E, body, known) ==
  IF body = <<>> \/ E.failed THEN E
  ELSE LET s == Head(body)
           now == s.op = "set" /\ (known => Home(E, s.x, 1) # 0)
       IN ExpandInline(IF now THEN Bind(Eval(E, s.e), s.x) ELSE ExpandBody(E, <<s>>), Tail(body), known)

ExpandWhile(E, s, n) ==
  LET Turn(C) == IF C.failed \/ ~Truthy(C.val) THEN C
                 ELSE IF TooLong(n) THEN Fail(C)
                 ELSE ExpandWhile(ExpandInline(C, s.body, TRUE), s, n + 1)
  IN IF E.failed THEN E ELSE Turn(Eval(E, s.c))

\* What was queued belongs before the next statement, or at the end.
ExpandNext(E, s) == LET D == Drain(E) IN IF D.failed THEN D ELSE ExpandOne(D, s)

ExpandBody(E, body) ==
  IF E.failed THEN E
  ELSE IF body = <<>> THEN Drain(E) ELSE ExpandBody(ExpandNext(E, Head(body)), Tail(body))

-----------------------------------------------------------------------------
(* The expansion of a program: a step for each of its statements.          *)

VARIABLES
  prog,   \* the program
  ev,     \* the evaluator; ev.out is what has been made of it
  todo,   \* the statements left
  done

vars == <<prog, ev, todo, done>>

Init ==
  /\ prog \in Programs
  /\ ev = Fresh(prog)
  /\ todo = prog.body
  /\ done = FALSE

Expanding(ops) ==
  /\ ~ev.failed
  /\ todo # <<>>
  /\ Head(todo).op \in ops
  /\ ev' = ExpandNext(ev, Head(todo))
  /\ todo' = Tail(todo)
  /\ UNCHANGED <<prog, done>>

Binding == Expanding({"cdecl", "cblock"})
Unrolling == Expanding({"cfor", "cwhile"})
Choosing == Expanding({"cif"})
Effect == Expanding({"cexpr", "emit"})
Inside == Expanding({"if", "def"})
Folding == Expanding({"set", "show", "run"})

\* The tail is drained; a failure has ended the expansion where it stood.
Finish ==
  /\ ~done
  /\ ev.failed \/ todo = <<>>
  /\ ev' = IF ev.failed THEN ev ELSE Drain(ev)
  /\ done' = TRUE
  /\ UNCHANGED <<prog, todo>>

Next == Binding \/ Unrolling \/ Choosing \/ Effect \/ Inside \/ Folding \/ Finish

Spec == Init /\ [][Next]_vars

-----------------------------------------------------------------------------
(* What a program says: every statement is carried out where it stands, as   *)
(* if comptime were not there.  Each activation has one flat map of names;   *)
(* a value is known when it stems from comptime names and literals only.     *)
(* "bad": a comptime context asked for what it cannot have.                  *)

Start(p) ==
  [glob |-> <<>>, loc |-> <<>>, inF |-> FALSE, depth |-> 0,
   funcs |-> p.funcs, defs |-> <<>>, pend |-> <<>>, total |-> 0, out |-> <<>>,
   val |-> Void, returned |-> FALSE, bad |-> FALSE]

Bad(R) == [R EXCEPT !.bad = TRUE]
Names(R) == IF R.inF THEN R.loc @@ R.glob ELSE R.glob

Store(R, x, known) ==
  LET b == x :> [v |-> R.val, known |-> known] IN
  IF R.bad THEN R ELSE IF R.inF THEN [R EXCEPT !.loc = b @@ @] ELSE [R EXCEPT !.glob = b @@ @]

NeedsLiteral(R) == IF Literal(R.val) THEN R ELSE Bad(R)

RECURSIVE Ask(_, _, _), Run(_, _, _), RunOne(_, _, _), Times(_, _, _, _, _), While(_, _, _, _)

\* ct: in a comptime context.
Ask(R, e, ct) ==
  IF R.bad THEN R
  ELSE CASE e.k = "lit" -> Give(R, e.v)
         [] e.k = "name" ->
              IF e.x \notin DOMAIN Names(R) THEN Bad(R)
              ELSE LET b == Names(R)[e.x] IN IF ct /\ ~b.known THEN Bad(R) ELSE Give(R, b.v)
         [] e.k = "ct" -> LET V == Ask(R, e.e, TRUE) IN IF ct THEN V ELSE NeedsLiteral(V)
         [] e.k \in {"op", "and"} ->
              LET L == Ask(R, e.l, ct)
                  M == Ask(L, e.r, ct)
                  v == IF e.k = "and" THEN Truth(Truthy(M.val)) ELSE Operate(e.o, L.val, M.val)
              IN IF ~L.bad /\ e.k = "and" /\ ~Truthy(L.val) THEN Give(L, Truth(FALSE))
                 ELSE IF M.bad THEN M ELSE IF v = None THEN Bad(M) ELSE Give(M, v)
         [] e.k = "call" ->
              IF ~ct \/ e.f \notin DOMAIN R.funcs \/ R.depth = MaxDepth THEN Bad(R)
              ELSE LET f == R.funcs[e.f]
                       A == FoldLeft(LAMBDA Q, a : LET V == Ask(Q[1], a, TRUE) IN <<V, Append(Q[2], V.val)>>,
                                     <<R, <<>>>>, e.args)
                       mine == [x \in ToSet(f.params) |->
                                 [v |-> A[2][CHOOSE k \in DOMAIN f.params : f.params[k] = x], known |-> TRUE]]
                       B == Run([A[1] EXCEPT !.loc = mine, !.inF = TRUE, !.depth = @ + 1], f.body, "ct")
                   IN IF A[1].bad THEN A[1]
                      ELSE [B EXCEPT !.loc = R.loc, !.inF = R.inF, !.depth = R.depth, !.returned = FALSE,
                                     !.val = IF B.returned THEN B.val ELSE Void]

\* What a statement emitted follows it, outside comptime defs.
Flush(R, mode) == IF mode = "ct" THEN R ELSE [R EXCEPT !.out = @ \o R.pend, !.pend = <<>>]

\* mode: "ct" in a comptime def, "block" and "unroll" directly in a comptime
\* block and while, "run" elsewhere.
Run(R, body, mode) ==
  IF R.bad \/ R.returned \/ body = <<>> THEN R
  ELSE Run(Flush(RunOne(R, Head(body), mode), mode), Tail(body), mode)

RunOne(R, s, mode) ==
  LET ct == mode = "ct"
      inner == IF ct THEN "ct" ELSE "run"
  IN CASE s.op = "return" -> [Ask(R, s.e, ct) EXCEPT !.returned = TRUE]
       [] s.op = "cdecl" -> LET V == Ask(R, s.e, TRUE) IN Store(IF ct THEN V ELSE NeedsLiteral(V), s.x, TRUE)
       [] s.op = "const" -> Store(Ask(R, s.e, FALSE), s.x, FALSE)
       [] s.op = "decl" -> Store(Ask(R, s.e, ct), s.x, ct)
       [] s.op = "set" ->
            LET now == \/ mode = "block"
                       \/ mode = "unroll" /\ s.x \in DOMAIN Names(R) /\ Names(R)[s.x].known
                V == Ask(R, s.e, ct \/ now)
            IN Store(IF now THEN NeedsLiteral(V) ELSE V, s.x, ct \/ now)
       [] s.op = "show" -> LET V == Ask(R, s.e, FALSE) IN
                           IF ct THEN Bad(R) ELSE IF V.bad THEN V ELSE [V EXCEPT !.out = Append(@, V.val)]
       [] s.op = "emit" -> LET V == Ask(R, s.e, TRUE) IN
                           IF V.bad \/ V.total = MaxEmitted THEN Bad(V)
                           ELSE [V EXCEPT !.pend = Append(@, V.val), !.total = @ + 1]
       [] s.op = "cexpr" -> IF ct THEN Bad(R) ELSE Ask(R, s.e, TRUE)
       [] s.op = "if" /\ ~ct -> Run(Run(Ask(R, s.c, FALSE), s.then, "run"), s.else, "run")
       [] s.op \in {"if", "cif"} -> LET C == Ask(R, s.c, TRUE) IN
                                    Run(C, IF Truthy(C.val) THEN s.then ELSE s.else, inner)
       [] s.op \in {"while", "cwhile"} -> While(R, s, IF ct THEN "ct" ELSE "unroll", 0)
       [] s.op \in {"for", "cfor"} ->
            LET L == Ask(R, s.lo, TRUE)
                H == Ask(L, s.hi, TRUE)
            IN IF H.bad \/ ~IsNumeric(L.val) \/ ~IsNumeric(H.val)
                  \/ (~ct /\ H.val.n - L.val.n > MaxIterations)
               THEN Bad(H) ELSE Times(H, s, inner, L.val.n, H.val.n)
       [] s.op = "cblock" -> Run(R, s.body, IF ct THEN "ct" ELSE "block")
       [] s.op = "def" -> [R EXCEPT !.defs = (s.f :> s) @@ @]
       [] s.op = "run" ->
            LET d == R.defs[s.f]
                V == IF d.flag THEN NeedsLiteral(Ask(R, s.e, TRUE)) ELSE Ask(R, s.e, FALSE)
                B == Run([V EXCEPT !.inF = TRUE, !.loc = d.x :> [v |-> V.val, known |-> FALSE]], d.body, "run")
            IN IF V.bad THEN V ELSE [B EXCEPT !.loc = R.loc, !.inF = R.inF]
       [] OTHER -> Bad(R)

Times(R, s, mode, i, hi) ==
  IF R.bad \/ R.returned \/ i >= hi THEN R
  ELSE Times(Run(Store(Give(R, Number(i)), s.x, TRUE), s.body, mode), s, mode, i + 1, hi)

While(R, s, mode, n) ==
  LET C == Ask(R, s.c, TRUE) IN
  IF C.bad \/ C.returned \/ ~Truthy(C.val) THEN C
  ELSE IF n = MaxIterations THEN Bad(C) ELSE While(Run(C, s.body, mode), s, mode, n + 1)

Read(p, body) == Run(Start(p), body, "run")

-----------------------------------------------------------------------------
(* Properties.                                                             *)

\* The expansion keeps what a program says: when every comptime construct has
\* a value, expand_body succeeds, and the statements it leaves read the same as
\* the program read in place - with the callee's variables apart from the
\* caller's, each iteration's values in its own clone, and emitted statements
\* after the statement that emitted them.  A reading lists what is printed; of
\* an if that run time decides it takes both branches one after the other, of
\* the program and of what is left alike, since expansion must keep them both.
ExpandedAsRead ==
  LET SameOutput(said, left) == ~said.bad => ~ev.failed /\ ~left.bad /\ left.out = said.out
  IN done => SameOutput(Read(prog, prog.body), Read([funcs |-> <<>>], ev.out))

\* A program whose comptime contexts ask for a run-time value, a value that does
\* not exist, or more calls, iterations or statements than the caps allow, is
\* refused: what it cannot compute the evaluator never makes up.
RefusedWhenUnknown ==
  done /\ Read(prog, prog.body).bad => ev.failed

=============================================================================
