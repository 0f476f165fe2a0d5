---------------------------- MODULE NvInference ----------------------------
(***************************************************************************)
(* Type inference: nv::Checker with its UnificationContext (include/frontend *)
(* /checker/unification.hpp), the types of type.hpp and the rules of          *)
(* src/frontend/checker for a straight-line program and its one-parameter     *)
(* defs.                                                                      *)
(*                                                                           *)
(* A type is a record [k, n, args]; a variable is a cell of the heap (n is    *)
(* its place) that has an id, which need not be unique, and what it was bound *)
(* to.  An annotation is a type, in which Param stands for the def's own      *)
(* type parameter.  A statement's "op" is                                     *)
(*   assign  x = e        decl  x: ann = e       eval  e;                     *)
(*   def     def f<T>(x: param): ret { return e; }                            *)
(* The checker threads one record S through all it does: heap, next (the id   *)
(* that will be given out next), env (the scope: a scheme for each name),     *)
(* types (the cache of composite annotations), ok (no error yet) and val, the *)
(* type of the last expression.                                               *)
(*                                                                           *)
(* Beside it runs the declarative reading of the program: "typings" is the    *)
(* set of all ways to give every name one closed type.                        *)
(***************************************************************************)
EXTENDS Integers, SequencesExt, FiniteSetsExt

CONSTANTS
  Sources,        \* records [defs, statements]: the defs of a program, which are
                  \* records [f, generic, x, param, ret, e], and the statements it
                  \* is made of
  Ambient,        \* names annotated before the program starts, and their types
  Ground,         \* the closed types the declarative reading tries for an unknown
  MaxStatements   \* the length of a program

ASSUME StatementsAssumption == MaxStatements \in Nat /\ Ground # {}

VARIABLES source, S, assigned, annotated, defined, program, typings

vars == <<source, S, assigned, annotated, defined, program, typings>>

-----------------------------------------------------------------------------
(* Types.                                                                  *)

Type(k, n, args) == [k |-> k, n |-> n, args |-> args]
TInt == Type("int", 0, <<>>)
TStr == Type("str", 0, <<>>)
TBool == Type("bool", 0, <<>>)
Vector == Type("vector", 0, <<>>)
Param == Type("param", 0, <<>>)
Option(t) == Type("option", 0, <<t>>)
Result(t, u) == Type("result", 0, <<t, u>>)
Tuple(ts) == Type("tuple", 0, ts)
Array(n, t) == Type("array", n, <<t>>)
Map(t, u) == Type("map", 0, <<t, u>>)
Function(t, u) == Type("function", 0, <<t, u>>)
Var(c) == Type("var", c, <<>>)

\* What a variable nothing has bound yet is bound to.
Unbound == Type("unbound", 0, <<>>)

IsVar(t) == t.k = "var"

\* The kinds of which the parts are unified, and searched.
Structural == {"option", "result", "array", "tuple", "function"}

RECURSIVE Resolve(_, _), Equals(_, _, _), Occurs(_, _, _), FreeIds(_, _)

Resolve(H, t) == IF IsVar(t) /\ H[t.n].to # Unbound THEN Resolve(H, H[t.n].to) ELSE t

\* equals(const Type&): only the left side looks through what a variable is
\* bound to, and unbound variables are compared by their ids.
Equals(H, a, b) ==
  IF IsVar(a)
    THEN LET to == H[a.n].to IN
         IF IsVar(b)
           THEN IF to # Unbound /\ H[b.n].to # Unbound THEN Equals(H, to, H[b.n].to)
                ELSE H[a.n].id = H[b.n].id
           ELSE to # Unbound /\ Equals(H, to, b)
    ELSE /\ a.k = b.k /\ a.n = b.n /\ Len(a.args) = Len(b.args)
         /\ \A i \in DOMAIN a.args : Equals(H, a.args[i], b.args[i])

\* equals(shared_ptr&), for a resolved left side: most composite types inherit
\* the comparison of kinds.
ShallowEquals(H, a, b) ==
  IF a.k \in {"var", "option", "result", "map"} THEN Equals(H, a, b) ELSE a.k = b.k

Occurs(H, id, t) ==
  LET r == Resolve(H, t) IN
  CASE IsVar(r) -> H[r.n].id = id
    [] r.k \in Structural ->
         \E i \in DOMAIN r.args : Occurs(H, id, r.args[i])
    [] OTHER -> FALSE

FreeIds(H, t) ==
  LET r == Resolve(H, t) IN
  IF IsVar(r) THEN {H[r.n].id} ELSE UNION {FreeIds(H, r.args[i]) : i \in DOMAIN r.args}

-----------------------------------------------------------------------------
(* Unification.                                                            *)

Give(Q, t) == [Q EXCEPT !.val = t]
Refuse(Q) == [Q EXCEPT !.ok = FALSE]
Bind(Q, c, t) == [Q EXCEPT !.heap[c].to = t]

\* A variable with the id that comes next; the id stays free for others ...
Unknown(Q) ==
  [Q EXCEPT !.heap = Append(@, [id |-> Q.next, to |-> Unbound]), !.val = Var(Len(Q.heap) + 1)]

\* ... unless the context itself makes the variable (new_type_var).
NewVar(Q) == [Unknown(Q) EXCEPT !.next = @ + 1]

\* Mutant of UnknownElement: an element of a vector is an integer.
IntElement(Q) == Give(Q, TInt)

UnknownElement(Q) == Unknown(Q)

Circular(H, v, t) == Occurs(H, H[v.n].id, t)

RECURSIVE Unify(_, _, _), UnifyResolved(_, _, _), UnifyAll(_, _, _)

Unify(Q, a, b) == UnifyResolved(Q, Resolve(Q.heap, a), Resolve(Q.heap, b))

UnifyResolved(Q, a, b) ==
  CASE ~Q.ok \/ Equals(Q.heap, a, b) -> Q
    [] IsVar(a) /\ IsVar(b) -> Bind(Q, a.n, b)
    [] IsVar(a) /\ ~IsVar(b) -> IF Circular(Q.heap, a, b) THEN Refuse(Q) ELSE Bind(Q, a.n, b)
    [] ~IsVar(a) /\ IsVar(b) -> IF Circular(Q.heap, b, a) THEN Refuse(Q) ELSE Bind(Q, b.n, a)
    [] a.k = b.k /\ a.k \in Structural /\ a.n = b.n /\ Len(a.args) = Len(b.args) ->
         UnifyAll(Q, a.args, b.args)
    [] OTHER -> Refuse(Q)

UnifyAll(Q, as, bs) ==
  IF as = <<>> THEN Q ELSE UnifyAll(Unify(Q, Head(as), Head(bs)), Tail(as), Tail(bs))

-----------------------------------------------------------------------------
(* Schemes.                                                                *)

Scheme(bound, t) == [bound |-> bound, t |-> t]

\* substitute: a variable that is not replaced is copied, with its id but
\* without a link to the original.  "sub" maps ids to types.
RECURSIVE Substitute(_, _, _), SubstituteAll(_, _, _, _)

Substitute(Q, t, sub) ==
  LET r == Resolve(Q.heap, t) IN
  CASE IsVar(r) /\ Q.heap[r.n].id \in DOMAIN sub -> Give(Q, sub[Q.heap[r.n].id])
    [] IsVar(r) /\ Q.heap[r.n].id \notin DOMAIN sub ->
         [Q EXCEPT !.heap = Append(@, @[r.n]), !.val = Var(Len(Q.heap) + 1)]
    [] ~IsVar(r) -> SubstituteAll(Q, r, sub, <<>>)

SubstituteAll(Q, t, sub, done) ==
  IF Len(done) = Len(t.args) THEN Give(Q, [t EXCEPT !.args = done])
  ELSE LET R == Substitute(Q, t.args[Len(done) + 1], sub)
       IN SubstituteAll(R, t, sub, Append(done, R.val))

\* Mutant of Instantiate: the type of the definition itself.
NoCopy(Q, scheme) == Give(Q, scheme.t)

\* Reading a name with a scheme: fresh variables with the ids from "next" on,
\* which are not reserved (next_id is a copy).
Instantiate(Q, scheme) ==
  IF scheme.bound = {} THEN Give(Q, scheme.t)
  ELSE LET ids == SetToSortSeq(scheme.bound, <)
           cells == [i \in DOMAIN ids |-> [id |-> Q.next + i - 1, to |-> Unbound]]
           sub == [b \in scheme.bound |-> Var(Len(Q.heap) + (CHOOSE i \in DOMAIN ids : ids[i] = b))]
       IN Substitute([Q EXCEPT !.heap = @ \o cells], scheme.t, sub)

\* The id every placeholder of the first pass has: process_codeblock asks for it
\* before anything else is checked.
PlaceholderId == 0

\* The ids that are free in the scope while the first assignment to a name is
\* checked: the name's own placeholder is there.
IdsInScope(Q) == {PlaceholderId} \cup UNION {FreeIds(Q.heap, Q.env[y].t) \ Q.env[y].bound : y \in DOMAIN Q.env}

\* Mutant of Generalize: the scope is not looked at.
GeneralizeAll(Q, t) == Scheme(FreeIds(Q.heap, t), Resolve(Q.heap, t))

\* Which variables of the first value of a name each use of it has for itself.
Generalize(Q, t) == Scheme(FreeIds(Q.heap, t) \ IdsInScope(Q), Resolve(Q.heap, t))

\* put_key for a constant: what is there already stays.
PutConst(Q, x, scheme) == [Q EXCEPT !.env = @ @@ (x :> scheme)]

\* gettyptr: composite annotations are kept under their text, for good; the
\* type parameter's own name only while its def is looked at.
RECURSIVE TypeOf(_, _, _), TypesOf(_, _, _, _)

TypeOf(Q, ann, T) ==
  CASE ann = Param -> Give(Q, T)
    [] ann # Param /\ ann.args = <<>> -> Give(Q, ann)
    [] ann.args # <<>> /\ ann \in DOMAIN Q.types -> Give(Q, Q.types[ann])
    [] OTHER -> TypesOf(Q, ann, T, <<>>)

TypesOf(Q, ann, T, done) ==
  IF Len(done) = Len(ann.args)
    THEN LET t == [ann EXCEPT !.args = done] IN [Q EXCEPT !.types = @ @@ (ann :> t), !.val = t]
    ELSE LET R == TypeOf(Q, ann.args[Len(done) + 1], T) IN TypesOf(R, ann, T, Append(done, R.val))

-----------------------------------------------------------------------------
(* Expressions: infer_expr.                                                *)

\* check_call_arg_type.
Accept(Q, arg, param) ==
  LET a == Resolve(Q.heap, arg)
      p == Resolve(Q.heap, param)
  IN IF IsVar(a) \/ IsVar(p) THEN Unify(Q, a, p)
     ELSE IF Equals(Q.heap, a, p) THEN Q ELSE Refuse(Q)

\* check_access_expr on a base of type t, with an index of type i.
Access(Q, t, i) ==
  LET base == Resolve(Q.heap, t) IN
  CASE base.k \in {"array", "vector", "tuple", "str"} /\ i # TInt -> Refuse(Q)
    [] base.k = "array" /\ i = TInt -> Give(Q, base.args[1])
    [] base.k = "str" /\ i = TInt -> Give(Q, TStr)
    [] base.k = "map" -> Give(Unify(Q, i, base.args[1]), base.args[2])
    [] base.k \in {"vector", "tuple"} /\ i = TInt -> UnknownElement(Q)
    [] IsVar(base) -> UnknownElement(Q)
    [] OTHER -> Refuse(Q)

RECURSIVE Infer(_, _), InferTuple(_, _, _), InferArray(_, _, _), InferMap(_, _, _)

\* The type of the last expression wrapped, or given to a def; and a conditional
\* whose second branch it is the type of.
MakeSome(Q) == Give(Q, Option(Resolve(Q.heap, Q.val)))
MakeOk(Q) == LET V == NewVar(Q) IN Give(V, Result(Resolve(Q.heap, Q.val), V.val))
MakeErr(Q) == LET V == NewVar(Q) IN Give(V, Result(V.val, Resolve(Q.heap, Q.val)))
FinishCall(Q, fn) == Give(Accept(Q, Q.val, fn.args[1]), fn.args[2])

Branches(Q, then) == Give(Unify(Q, then, Q.val), Resolve(Unify(Q, then, Q.val).heap, then))

Infer(Q, e) ==
  CASE ~Q.ok -> Q
    [] Q.ok /\ e.op = "lit" -> Give(Q, e.t)
    [] Q.ok /\ e.op = "name" -> Instantiate(Q, Q.env[e.x])
    [] Q.ok /\ e.op = "some" -> MakeSome(Infer(Q, e.e))
    [] Q.ok /\ e.op = "ok" -> MakeOk(Infer(Q, e.e))
    [] Q.ok /\ e.op = "err" -> MakeErr(Infer(Q, e.e))
    [] Q.ok /\ e.op = "vector" -> Give(Q, Vector)
    [] Q.ok /\ e.op = "tuple" -> InferTuple(Q, e.es, <<>>)
    [] Q.ok /\ e.op = "array" ->
         IF e.es = <<>> THEN Give(Q, Vector)
         ELSE LET F == Infer(Q, Head(e.es)) IN InferArray(F, Resolve(F.heap, F.val), <<Len(e.es), Tail(e.es)>>)
    [] Q.ok /\ e.op = "map" -> InferMap(Q, e.kvs, <<>>)
    [] Q.ok /\ e.op = "index" ->
         LET B == Infer(Q, e.e) IN IF B.ok THEN Access(B, B.val, e.i) ELSE B
    [] Q.ok /\ e.op = "call" ->
         LET F == Instantiate(Q, Q.env[e.f])
             A == Infer(F, e.e)
         IN IF A.ok THEN FinishCall(A, F.val) ELSE A
    [] Q.ok /\ e.op = "if" ->
         LET C == Infer(Q, e.c)
             T == Infer(Unify(C, C.val, TBool), e.l)
             E == Infer(T, e.r)
         IN IF E.ok THEN Branches(E, T.val) ELSE E

InferTuple(Q, es, done) ==
  IF es = <<>> THEN Give(Q, Tuple(done))
  ELSE LET R == Infer(Q, Head(es)) IN InferTuple(R, Tail(es), Append(done, R.val))

\* rest is <<size, elements still to look at>>.
InferArray(Q, first, rest) ==
  LET E == Infer(Q, Head(rest[2])) IN
  CASE rest[2] = <<>> ->
         IF IsVar(Resolve(Q.heap, first)) THEN Give(Q, Vector)
         ELSE Give(Q, Array(rest[1], Resolve(Q.heap, first)))
    [] rest[2] # <<>> ->
         IF E.ok /\ ShallowEquals(E.heap, first, Resolve(E.heap, E.val))
           THEN InferArray(E, first, <<rest[1], Tail(rest[2])>>)
           ELSE Refuse(E)

\* kv is the type of the keys and that of the values, once there are any.
InferMap(Q, kvs, kv) ==
  IF kvs = <<>>
    THEN IF kv = <<>>
           THEN LET K == Unknown(Q)
                    V == Unknown(K)
                IN Give(V, Map(K.val, V.val))
           ELSE Give(Q, Map(Resolve(Q.heap, kv[1]), Resolve(Q.heap, kv[2])))
    ELSE LET K == Infer(Q, Head(kvs)[1])
             V == Infer(K, Head(kvs)[2])
         IN IF kv = <<>>
              THEN InferMap(V, Tail(kvs), <<Resolve(V.heap, K.val), Resolve(V.heap, V.val)>>)
              ELSE InferMap(UnifyAll(V, kv, <<K.val, V.val>>), Tail(kvs), kv)

-----------------------------------------------------------------------------
(* The declarative reading, for closed types only.                         *)

RECURSIVE HasTypes(_, _), With(_, _)

\* The annotation with T for the def's parameter.
With(ann, T) ==
  IF ann = Param THEN T ELSE [ann EXCEPT !.args = [i \in DOMAIN ann.args |-> With(ann.args[i], T)]]

\* What the type parameter of a def may be when its argument has type t.
Candidates(d, t) ==
  {T \in {t} \cup Range(t.args) : With(d.param, T) = t} \cup (IF d.generic THEN {} ELSE
  {T \in {TInt} : d.param = t})

TheFunction(f) == CHOOSE d \in source.defs : d.f = f

\* All the closed types expression e has when the names have the types G.
HasTypes(G, e) ==
  CASE e.op = "lit" -> {e.t}
    [] e.op = "name" -> {G[e.x]}
    [] e.op = "some" -> {Option(t) : t \in HasTypes(G, e.e)}
    [] e.op = "ok" -> {Result(t, u) : t \in HasTypes(G, e.e), u \in Ground}
    [] e.op = "err" -> {Result(u, t) : t \in HasTypes(G, e.e), u \in Ground}
    [] e.op = "vector" -> {Vector}
    [] e.op = "tuple" -> {Tuple(<<t, u>>) : t \in HasTypes(G, e.es[1]), u \in HasTypes(G, e.es[2])}
    [] e.op = "array" ->
         {Array(Len(e.es), t) : t \in {t \in HasTypes(G, e.es[1]) : \A i \in DOMAIN e.es : t \in HasTypes(G, e.es[i])}}
    [] e.op = "map" ->
         {Map(TStr, t) : t \in {t \in HasTypes(G, e.kvs[1][2]) : \A i \in DOMAIN e.kvs : t \in HasTypes(G, e.kvs[i][2])}}
    [] e.op = "index" ->
         UNION {CASE t.k = "vector" /\ e.i = TInt -> Ground
                  [] t.k = "array" /\ e.i = TInt -> {t.args[1]}
                  [] t.k = "map" /\ e.i = t.args[1] -> {t.args[2]}
                  [] t.k = "str" /\ e.i = TInt -> {TStr}
                  [] OTHER -> {} : t \in HasTypes(G, e.e)}
    [] e.op = "call" ->
         LET d == TheFunction(e.f)
         IN UNION {{With(d.ret, T) : T \in Candidates(d, t)} : t \in HasTypes(G, e.e)}
    [] e.op = "if" -> IF TBool \in HasTypes(G, e.c) THEN HasTypes(G, e.l) \cap HasTypes(G, e.r) ELSE {}

\* G after x took the value of e; the empty set when it cannot.
After(G, x, types) ==
  IF x \in DOMAIN G THEN IF G[x] \in types THEN {G} ELSE {}
  ELSE {G @@ (x :> t) : t \in types}

\* What a statement makes of one typing.  A name is annotated once; a def's type
\* parameter may be any type.
Step(G, s) ==
  CASE s.op = "assign" -> After(G, s.x, HasTypes(G, s.e))
    [] s.op = "decl" -> IF s.x \in annotated THEN {} ELSE After(G, s.x, HasTypes(G, s.e) \cap {s.ann})
    [] s.op = "eval" -> IF HasTypes(G, s.e) = {} THEN {} ELSE {G}
    [] s.op = "def" ->
         IF \A T \in Ground : With(s.d.ret, T) \in HasTypes((s.d.x :> With(s.d.param, T)) @@ G, s.d.e)
           THEN {G} ELSE {}

-----------------------------------------------------------------------------
(* The program.                                                            *)

\* register_function_signatures: a new type parameter for each def, and the
\* signature, unless an earlier pass has put it there.
Register(Q, d) ==
  LET T == NewVar(Q)
      P == TypeOf(IF d.generic THEN T ELSE Q, d.param, T.val)
      R == TypeOf(P, d.ret, T.val)
  IN PutConst(R, d.f, Scheme(IF d.generic THEN {Q.next} ELSE {}, Function(P.val, R.val)))

RegisterAll(Q) == FoldLeft(Register, Q, SetToSeq(source.defs))

Blank ==
  [heap |-> <<>>, next |-> 0, ok |-> TRUE, val |-> Vector, types |-> <<>>,
   env |-> [x \in DOMAIN Ambient |-> Scheme({}, Ambient[x])]]

\* The passes that come before the statements; signatures are registered again
\* after the comptime expansion.
Init ==
  /\ source \in Sources
  /\ S = RegisterAll(RegisterAll(Blank))
  /\ assigned = {} /\ annotated = {} /\ defined = {}
  /\ program = <<>>
  /\ typings = {Ambient}

RECURSIVE Names(_)

\* The names an expression reads.
Names(e) ==
  CASE e.op = "name" -> {e.x}
    [] e.op \in {"lit", "vector"} -> {}
    [] e.op \in {"some", "ok", "err", "index", "call"} -> Names(e.e)
    [] e.op \in {"tuple", "array"} -> UNION {Names(e.es[i]) : i \in DOMAIN e.es}
    [] e.op = "map" -> UNION {Names(e.kvs[i][2]) : i \in DOMAIN e.kvs}
    [] e.op = "if" -> Names(e.c) \cup Names(e.l) \cup Names(e.r)

\* The next statement of the program is s, which reads only names that have a
\* value; checking it leaves Q, and the first error ends the check.
Check(s, Q) ==
  /\ S.ok /\ Len(program) < MaxStatements
  /\ Names(s.e) \subseteq DOMAIN S.env
  /\ S' = Q
  /\ program' = Append(program, s)
  /\ typings' = UNION {Step(G, s) : G \in typings}

\* check_decl_stmt on the declaration the first pass makes of the first plain
\* assignment to a name.
ImplicitDeclaration(Q, x, e) ==
  LET E == Infer(Q, e) IN IF E.ok THEN PutConst(E, x, Generalize(E, E.val)) ELSE E

FirstAssignment(s) ==
  /\ s.op = "assign" /\ s.x \notin assigned
  /\ Check(s, ImplicitDeclaration(S, s.x, s.e))
  /\ assigned' = assigned \cup {s.x}
  /\ UNCHANGED <<source, annotated, defined>>

\* check_assignment_expr.
Assignment(Q, x, e) ==
  LET L == Instantiate(Q, Q.env[x])
      R == Infer(L, e)
  IN IF R.ok THEN Unify(R, L.val, R.val) ELSE R

LaterAssignment(s) ==
  /\ s.op = "assign" /\ s.x \in assigned
  /\ Check(s, Assignment(S, s.x, s.e))
  /\ UNCHANGED <<source, assigned, annotated, defined>>

\* check_decl_stmt on a declaration with a type: an array takes a literal of its
\* size and nothing else.
TypedDeclaration(Q, x, ann, e) ==
  LET D == TypeOf(Q, ann, Vector)
      E == Infer(D, e)
      counted == IF e.op = "array" THEN Len(e.es) ELSE 0
      U == Unify(E, E.val, D.val)
  IN IF ~E.ok \/ x \in annotated \/ (ann.k = "array" /\ counted # ann.n) THEN Refuse(E)
     ELSE PutConst(U, x, Scheme({}, Resolve(U.heap, D.val)))

Declaration(s) ==
  /\ s.op = "decl"
  /\ Check(s, TypedDeclaration(S, s.x, s.ann, s.e))
  /\ annotated' = annotated \cup {s.x}
  /\ UNCHANGED <<source, assigned, defined>>

Expression(s) ==
  /\ s.op = "eval"
  /\ Check(s, Infer(S, s.e))
  /\ UNCHANGED <<source, assigned, annotated, defined>>

\* check_function_stmt: the parameter in a scope of its own and a new variable
\* for the type parameter; the signature that is registered stays.
Body(Q, d) ==
  LET T == NewVar(Q)
      P == TypeOf(IF d.generic THEN T ELSE Q, d.param, T.val)
      R == TypeOf(P, d.ret, T.val)
      E == Infer([R EXCEPT !.env = (d.x :> Scheme({}, P.val)) @@ @], d.e)
      U == Unify(E, E.val, R.val)
  IN [U EXCEPT !.env = Q.env]

Definition(s) ==
  /\ s.op = "def" /\ s.d.f \notin defined
  /\ S.ok /\ Len(program) < MaxStatements
  /\ S' = Body(S, s.d)
  /\ program' = Append(program, s)
  /\ typings' = UNION {Step(G, s) : G \in typings}
  /\ defined' = defined \cup {s.d.f}
  /\ UNCHANGED <<source, assigned, annotated>>

Next ==
  \E s \in source.statements :
    FirstAssignment(s) \/ LaterAssignment(s) \/ Declaration(s) \/ Expression(s) \/ Definition(s)

Spec == Init /\ [][Next]_vars

-----------------------------------------------------------------------------
(* Properties.                                                             *)

RECURSIVE Cells(_, _), Reach(_, _), Reading(_, _, _)

\* The cells a type mentions directly.
Cells(H, t) == IF IsVar(t) THEN {t.n} ELSE UNION {Cells(H, t.args[i]) : i \in DOMAIN t.args}

\* The cells one comes to from a set of them.
Reach(H, cs) ==
  LET more == cs \cup UNION {Cells(H, H[c].to) : c \in cs}
  IN IF more = cs THEN cs ELSE Reach(H, more)

\* The variables that are still open in the types of the program's names.
Declared == DOMAIN S.env \ {d.f : d \in source.defs}
OpenCells ==
  {c \in UNION {Reach(S.heap, Cells(S.heap, S.env[x].t)) : x \in Declared} : S.heap[c].to = Unbound}

\* A type of the checker's with closed types for its open variables.
Reading(H, t, rho) ==
  LET r == Resolve(H, t) IN
  IF IsVar(r) THEN rho[r.n] ELSE [r EXCEPT !.args = [i \in DOMAIN r.args |-> Reading(H, r.args[i], rho)]]

Readings == {[x \in Declared |-> Reading(S.heap, S.env[x].t, rho)] : rho \in [OpenCells -> Ground]}

\* Types are finite: every walk over one (equals, resolve, toString) ends.
Finite == \A c \in DOMAIN S.heap : c \notin Reach(S.heap, Cells(S.heap, S.heap[c].to))

\* Parts of composite types are searched before a variable is bound ("Verificar
\* recursivamente em tipos compostos", occurs_in): what is accepted stays finite.
TypesFinite == S.ok => Finite

\* What the checker accepts is well typed: its types are finite and, however the
\* variables it left open are read, those it gave to the names type every
\* statement so far.  (The back end lays values out by these types; nothing
\* checks them again.)
Sound ==
  S.ok => /\ Finite
          /\ typings # {}
          /\ \A r \in Readings : Range(r) \subseteq Ground => r \in typings

\* What is well typed is accepted: after an error there is no way at all to type
\* the program.
Complete == ~S.ok => typings = {}

\* The checker commits to nothing the program does not say: every typing of the
\* program is a reading of the types it gave.
Principal == S.ok => typings \subseteq Readings

=============================================================================
