----------------------------- MODULE NvLowering -----------------------------
(***************************************************************************)
(* What the compiler makes of the body of a function (def): the walk of     *)
(* src/backend/nir/codegen/statements that binds names to values, followed  *)
(* by LowerNarvalControlFlowPass, which turns loops and conditionals into   *)
(* blocks with arguments.  The two are one operator here, since the pass    *)
(* meets a loop before the loops inside it: Emit(b, s) adds statement s to  *)
(* the function under construction b.                                       *)
(*                                                                          *)
(* A statement is a record whose "op" is one of                             *)
(*   new     to = a literal             add    to = from + arg              *)
(*   copy    to = from                  addto  to += arg                    *)
(*   read, user, push   a call with the argument "from": of a bridge that   *)
(*           reads it, of a function of the program, of nv_vector_push      *)
(*   if, while, range, items   with "then"/"else" or "body"                 *)
(*   break, continue, return (from)                                         *)
(* and a condition is "luck" (anything the values modelled do not decide),  *)
(* "true", or the name of a variable that is tested for being odd.          *)
(***************************************************************************)
EXTENDS Integers, SequencesExt

\* A program's names.  "p" is the parameter; "i" is a loop's own variable.
Name == {"p", "a", "b", "i"}

Unbound == 0

\* FoldLeft; TLC evaluates a constant defined with this one only once.
Fold(op(_, _), base, seq) ==
  LET upto[k \in 0 .. Len(seq)] == IF k = 0 THEN base ELSE op(upto[k - 1], seq[k]) IN upto[Len(seq)]

-----------------------------------------------------------------------------
(* Names a body assigns.                                                   *)

AddNew(names, more) == names \o SelectSeq(more, LAMBDA n : n \notin ToSet(names))

\* The names a body writes, in the order first met, nested conditionals and
\* loops included.
RECURSIVE Assigned(_)
Assigned(body) ==
  LET Of(s) == CASE s.op \in {"new", "copy", "add", "addto"} -> <<s.to>>
                 [] s.op = "if" -> AddNew(Assigned(s.then), Assigned(s.else))
                 [] s.op \in {"while", "range", "items"} -> Assigned(s.body)
                 [] OTHER -> <<>>
  IN Fold(LAMBDA names, s : AddNew(names, Of(s)), <<>>, body)

IsCall(s) == s.op \in {"read", "user", "push"}

\* A branch that can become selects: assignments, conditionals of such, and
\* calls that stand directly in the branch.
RECURSIVE Convertible(_, _)
Convertible(body, top) ==
  \A k \in DOMAIN body :
    \/ body[k].op \in {"new", "copy", "add"}
    \/ body[k].op = "if" /\ Convertible(body[k].then, FALSE) /\ Convertible(body[k].else, FALSE)
    \/ top /\ IsCall(body[k])

-----------------------------------------------------------------------------
(* The function under construction.                                        *)

Open == [kind |-> "open", to |-> <<>>, with |-> <<>>]

\* An unconditional branch, a conditional one, the end of a region, a return.
Br(t, vals) == [kind |-> "br", to |-> <<t>>, with |-> <<vals>>]
CondBr(c, t, tvals, e, evals) == [kind |-> "cond", test |-> c, to |-> <<t, e>>, with |-> <<tvals, evals>>]
Yield(vals) == [kind |-> "yield", to |-> <<>>, with |-> <<vals>>]
Ret(v) == [kind |-> "return", to |-> <<>>, with |-> <<<<v>>>>]

NoLoop == [exit |-> 0]

\* ok: the module is well formed; plain: the values that are no objects;
\* outer: the loop that takes the breaks; names: loop_carried_names.
Empty ==
  [blocks |-> <<[args |-> <<1>>, ops |-> <<>>, term |-> Open]>>, cur |-> 1, next |-> 2,
   env |-> [n \in Name |-> IF n = "p" THEN 1 ELSE Unbound],
   names |-> <<>>, outer |-> NoLoop, cache |-> <<>>, plain |-> {}, ok |-> TRUE]

Closed(b) == b.blocks[b.cur].term.kind # "open"
End(b, term) == [b EXCEPT !.blocks[b.cur].term = term]
At(b, blk) == [b EXCEPT !.cur = blk]
Newest(b) == b.next - 1
LastBlock(b) == Len(b.blocks)
Values(b, names) == [k \in DOMAIN names |-> b.env[names[k]]]
Define(b, name, v) == [b EXCEPT !.env[name] = v]
DefineAll(b, names, vals) ==
  [b EXCEPT !.env = [n \in Name |-> IF n \in ToSet(names)
                                      THEN vals[CHOOSE k \in DOMAIN names : names[k] = n] ELSE @[n]]]

\* An operation without a result, and one whose result is the next value.
Effect(b, kind, args) ==
  [b EXCEPT !.blocks[b.cur].ops = Append(@, [kind |-> kind, out |-> <<>>, args |-> args, lit |-> 0, parts |-> <<>>])]
Op(b, kind, args, lit) ==
  [b EXCEPT !.blocks[b.cur].ops = Append(@, [kind |-> kind, out |-> <<b.next>>, args |-> args, lit |-> lit, parts |-> <<>>]),
            !.next = @ + 1]
PlainOp(b, kind, args, lit) == LET c == Op(b, kind, args, lit) IN [c EXCEPT !.plain = @ \union {Newest(c)}]

\* A block with n arguments; the first is a loop's index when "indexed".
NewBlock(b, n, indexed) ==
  [b EXCEPT !.blocks = Append(@, [args |-> [k \in 1 .. n |-> b.next + k - 1], ops |-> <<>>, term |-> Open]),
            !.next = @ + n,
            !.plain = IF indexed THEN @ \union {b.next} ELSE @]

\* The conversion of a condition to a truth value.
Test(b, cond) ==
  IF cond \in Name THEN PlainOp(b, "odd", <<b.env[cond]>>, 0) ELSE PlainOp(b, cond, <<>>, 0)

\* The value of an assignment's right-hand side is the Newest of the result, or the
\* value of the name that is copied.
Rhs(b, s) ==
  CASE s.op = "new"   -> Op(b, "nv_box_int", <<>>, s.lit)
    [] s.op = "add"   -> Op(b, "nv_add", <<b.env[s.from], b.env[s.arg]>>, 0)
    [] s.op = "addto" -> Op(b, "nv_add", <<b.env[s.to], b.env[s.arg]>>, 0)
    [] s.op = "copy"  -> b
RhsValue(b, s) == IF s.op = "copy" THEN b.env[s.from] ELSE Newest(Rhs(b, s))

Bridge(s) == CASE s.op = "read" -> "nv_write" [] s.op = "user" -> "user" [] s.op = "push" -> "nv_vector_push"

-----------------------------------------------------------------------------
(* Leaving a loop.  The pass resolves every break and continue inside a     *)
(* loop it meets, those of the loops inside it included, and it meets the   *)
(* outermost loop first.                                                    *)

\* Mutant of BreakOf: the values the iteration began with.
BreakOfStale(b) == [End(b, Br(b.outer.exit, b.outer.first)) EXCEPT !.ok = @ /\ Len(b.names) = Len(b.outer.first)]

BreakOf(b) ==
  LET vals == Values(b, b.names)
      give == IF vals = <<>> THEN b.outer.first ELSE vals
  IN [End(b, Br(b.outer.exit, give)) EXCEPT !.ok = @ /\ Len(give) = Len(b.outer.first)]

ContinueOf(b) ==
  LET vals == Values(b, b.names)
      give == IF vals = <<>> THEN b.outer.first ELSE vals
      c == IF b.outer.index = <<>> THEN b ELSE PlainOp(b, "next", b.outer.index, 0)
      index == IF b.outer.index = <<>> THEN <<>> ELSE <<Newest(c)>>
  IN [End(c, Br(b.outer.head, index \o give)) EXCEPT !.ok = @ /\ Len(give) = Len(b.outer.first)]

-----------------------------------------------------------------------------
(* Statements.                                                             *)

RECURSIVE Emit(_, _), EmitBody(_, _), EmitIf(_, _), PlainIf(_, _, _, _), ResultIf(_, _, _, _),
          SelectIf(_, _, _, _), ValueAfter(_, _, _, _), EmitLoop(_, _)

\* A block stops emitting after a terminator.
EmitBody(b, body) == Fold(LAMBDA c, s : IF Closed(c) THEN c ELSE Emit(c, s), b, body)

\* A statement-if: no result, both branches end in the continuation.
PlainIf(b, test, then, else) ==
  LET exit == LastBlock(b) + 3
      Split(c) == End(c, CondBr(test, exit - 2, <<>>, exit - 1, <<>>))
      Join(c) == IF Closed(c) THEN c ELSE End(c, Br(exit, <<>>))
      Branch(c, blk, body) == Join(EmitBody([At(c, blk) EXCEPT !.env = b.env], body))
      blocks == NewBlock(NewBlock(NewBlock(b, 0, FALSE), 0, FALSE), 0, FALSE)
  IN [At(Branch(Branch(Split(blocks), exit - 2, then), exit - 1, else), exit) EXCEPT !.env = b.env]

\* An if that yields one value for each name; it stays one operation, with its
\* branches as regions, until after the drops are placed.  What becomes of a region
\* that ends in a branch is up to MLIR's own conversion: such a function is not ok.
ResultIf(b, test, s, names) ==
  LET then == LastBlock(b) + 1
      Give(c, body) == IF Closed(c) THEN [c EXCEPT !.ok = FALSE]
                       ELSE End(c, Yield(Values(IF body = <<>> THEN b ELSE c, names)))
      Fill(c, blk, body) == Give(EmitBody([At(c, blk) EXCEPT !.env = b.env], body), body)
      Results(c) == [k \in DOMAIN names |-> c.next + k - 1]
      Region(c) == [kind |-> "scf.if", out |-> Results(c), args |-> <<test>>, lit |-> 0, parts |-> <<then, then + 1>>]
      Yielded(c) == DefineAll([c EXCEPT !.blocks[b.cur].ops = Append(@, Region(c)), !.next = @ + Len(names)],
                              names, Results(c))
      blocks == NewBlock(NewBlock(b, 0, FALSE), 0, FALSE)
  IN Yielded([At(Fill(Fill(blocks, then, s.then), then + 1, s.else), b.cur) EXCEPT !.env = b.env])

\* The value of a name after a convertible body, as <<function, value>>.  A
\* nested condition is evaluated once, for the first name that needs it.
ValueAfter(b, body, name, current) ==
  LET Step(acc, s) ==
        LET c == acc[1] IN
        IF s.op # "if" THEN IF ~IsCall(s) /\ s.to = name THEN <<Rhs(c, s), RhsValue(c, s)>> ELSE acc
        ELSE LET known == {k \in DOMAIN c.cache : c.cache[k][1] = s}
                 c1 == IF known # {} THEN c ELSE Test(c, s.cond)
                 test == IF known # {} THEN c.cache[CHOOSE k \in known : TRUE][2] ELSE Newest(c1)
                 c2 == IF known # {} THEN c1 ELSE [c1 EXCEPT !.cache = Append(@, <<s, test>>)]
                 tv == ValueAfter(c2, s.then, name, acc[2])
                 ev == ValueAfter(tv[1], s.else, name, acc[2])
                 sel == Op(ev[1], "nv_select", <<test, tv[2], ev[2]>>, 0)
             IN <<sel, Newest(sel)>>
  IN Fold(Step, <<b, current>>, body)

\* Calls first, in the branch that is taken; then one select for each name.
SelectIf(b, test, s, names) ==
  LET calls(body) == SelectSeq(body, IsCall)
      b1 == IF calls(s.then) = <<>> /\ calls(s.else) = <<>> THEN b
            ELSE PlainIf(b, test, calls(s.then), calls(s.else))
      Pick(c, name) ==
        LET tv == ValueAfter(c, s.then, name, b.env[name])
            ev == ValueAfter(tv[1], s.else, name, b.env[name])
            sel == Op(ev[1], "nv_select", <<test, tv[2], ev[2]>>, 0)
        IN Define(sel, name, Newest(sel))
  IN [Fold(Pick, [b1 EXCEPT !.cache = <<>>], names) EXCEPT !.cache = b.cache]

EmitIf(b, s) ==
  LET c == Test(b, s.cond)
      test == Newest(c)
      names == SelectSeq(AddNew(Assigned(s.then), Assigned(s.else)), LAMBDA n : b.env[n] # Unbound)
  IN IF names = <<>> THEN PlainIf(c, test, s.then, s.else)
     ELSE IF Convertible(s.then, TRUE) /\ Convertible(s.else, TRUE) THEN SelectIf(c, test, s, names)
     ELSE ResultIf(c, test, s, names)

\* What a for loop's own variable is: the index in a box of its own, or the
\* element the collection has there.
BoxedIndex(b, index) == LET c == Op(b, "nv_index_to_value", index, 0) IN Define(c, "i", Newest(c))
ElementAt(b, index) == LET c == Op(b, "nv_get_at", index, 0) IN Define(c, "i", Newest(c))

\* A loop: a header with the carried values (and the index), a body and a
\* continuation.  The names assigned in the body that exist outside it are
\* carried.  A for loop boxes its index, or reads the element at it, in the body.
EmitLoop(b, s) ==
  LET for == s.op # "while"
      names == SelectSeq(Assigned(s.body), LAMBDA n : b.env[n] # Unbound)
      n == Len(names)
      exit == LastBlock(b) + 1
      head == exit + 1
      first == exit + 2
      Blocks(width) == NewBlock(NewBlock(NewBlock(b, n, FALSE), width, for), width, for)
      Carried(c, blk) == IF for THEN Tail(c.blocks[blk].args) ELSE c.blocks[blk].args
      Index(c, blk) == IF for THEN <<Head(c.blocks[blk].args)>> ELSE <<>>
      Begin(c, blk) == DefineAll(At(c, blk), names, Carried(c, blk))
      ToHead(c) == End(c, Br(head, (IF for THEN <<Newest(c)>> ELSE <<>>) \o Values(c, names)))
      Enter(c) == Begin(ToHead(IF for THEN PlainOp(c, "zero", <<>>, 0) ELSE c), head)
      Decide(c) == CASE s.op = "items" -> PlainOp(c, "more", Index(c, head), 0)
                     [] s.op = "range" -> Test(c, "luck")
                     [] OTHER          -> Test(c, s.cond)
      Fork(c) == End(c, CondBr(Newest(c), first, c.blocks[head].args, exit, Carried(c, head)))
      Inside(c) == [Begin(c, first) EXCEPT
                      !.names = names,
                      !.outer = IF @ # NoLoop THEN @
                                ELSE [exit |-> exit, head |-> head, first |-> Carried(c, first), index |-> Index(c, first)]]
      Own(c) == CASE s.op = "range" -> BoxedIndex(c, Index(c, first))
                  [] s.op = "items" -> ElementAt(c, Index(c, first))
                  [] OTHER          -> c
      Repeat(c) == IF Closed(c) THEN c ELSE ToHead(IF for THEN PlainOp(c, "next", Index(c, first), 0) ELSE c)
      Leave(c) == [DefineAll([At(c, exit) EXCEPT !.env = b.env], names, c.blocks[exit].args) EXCEPT
                     !.names = b.names, !.outer = b.outer]
  IN Leave(Repeat(EmitBody(Own(Inside(Fork(Decide(Enter(Blocks(IF for THEN n + 1 ELSE n)))))), s.body)))

Emit(b, s) ==
  CASE s.op \in {"new", "copy", "add", "addto"} -> Define(Rhs(b, s), s.to, RhsValue(b, s))
    [] IsCall(s)                                -> Effect(b, Bridge(s), <<b.env[s.from]>>)
    [] s.op = "if"                              -> EmitIf(b, s)
    [] s.op \in {"while", "range", "items"}     -> EmitLoop(b, s)
    [] s.op = "break"                           -> BreakOf(b)
    [] s.op = "continue"                        -> ContinueOf(b)
    [] s.op = "return"                          -> End(b, Ret(b.env[s.from]))

\* The function of a program: a body that does not return gives nothing back.
Lowered(body) ==
  LET Complete(b) == IF Closed(b) THEN b ELSE End(b, [Ret(0) EXCEPT !.with = <<<<>>>>])
  IN Complete(EmitBody(Empty, body))

-----------------------------------------------------------------------------
(* What the program means: its statements run one after the other, "i" is   *)
(* the loop's own, and luck is the sequence of answers to the "luck"        *)
(* conditions.  The state is [env, out, luck, leave], leave being "" or the  *)
(* statement that is ending the body.                                       *)

\* The value of "a + b"; small, and different for most operands.
Sum(x, y) == (x + y) % 32
ItemValue(k) == 21 + k
Items == 2

RECURSIVE Execute(_, _), ExecuteBody(_, _), Loop(_, _, _)

ExecuteBody(r, body) == Fold(LAMBDA q, s : IF q.leave # "" THEN q ELSE Execute(q, s), r, body)

\* <<answer, rest of the state>>
Ask(r, cond) ==
  CASE cond = "luck" -> IF r.luck = <<>> THEN <<FALSE, r>> ELSE <<Head(r.luck), [r EXCEPT !.luck = Tail(@)]>>
    [] cond = "true" -> <<TRUE, r>>
    [] OTHER         -> <<r.env[cond] % 2 = 1, r>>

Loop(r, s, k) ==
  LET ask == CASE s.op = "while" -> Ask(r, s.cond)
               [] s.op = "range" -> Ask(r, "luck")
               [] s.op = "items" -> <<k < Items, r>>
      bound == CASE s.op = "range" -> [ask[2] EXCEPT !.env["i"] = k]
                 [] s.op = "items" -> [ask[2] EXCEPT !.env["i"] = ItemValue(k)]
                 [] OTHER -> ask[2]
      after == [ExecuteBody(bound, s.body) EXCEPT !.env["i"] = r.env["i"]]
  IN IF ~ask[1] THEN ask[2]
     ELSE IF after.leave = "break" THEN [after EXCEPT !.leave = ""]
     ELSE IF after.leave = "return" THEN after
     ELSE IF s.cond # "luck" /\ after.luck = <<>> /\ k > Items THEN after  \* it would go on for ever
     ELSE Loop([after EXCEPT !.leave = ""], s, k + 1)

Execute(r, s) ==
  CASE s.op = "new"   -> [r EXCEPT !.env[s.to] = s.lit]
    [] s.op = "copy"  -> [r EXCEPT !.env[s.to] = r.env[s.from]]
    [] s.op = "add"   -> [r EXCEPT !.env[s.to] = Sum(r.env[s.from], r.env[s.arg])]
    [] s.op = "addto" -> [r EXCEPT !.env[s.to] = Sum(@, r.env[s.arg])]
    [] IsCall(s)      -> [r EXCEPT !.out = Append(@, r.env[s.from])]
    [] s.op = "if"    -> LET ask == Ask(r, s.cond) IN ExecuteBody(ask[2], IF ask[1] THEN s.then ELSE s.else)
    [] s.op \in {"break", "continue"} -> [r EXCEPT !.leave = s.op]
    [] s.op = "return" -> [r EXCEPT !.leave = "return", !.out = Append(@, r.env[s.from])]
    [] OTHER           -> Loop(r, s, 0)

ParamValue == 11

\* Everything a run of the program hands to the calls it makes, and returns.
Meaning(body, answers) ==
  ExecuteBody([env |-> [n \in Name |-> IF n = "p" THEN ParamValue ELSE 0], out |-> <<>>, luck |-> answers, leave |-> ""],
          body).out
=============================================================================
