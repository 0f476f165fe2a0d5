------------------------------ MODULE NvDrops ------------------------------
(***************************************************************************)
(* Who frees the objects of a compiled function.                            *)
(*                                                                          *)
(* InsertRuntimeDropsPass (src/backend/nir/passes) puts a call of nv_drop    *)
(* after the last uses of a value, deciding from the blocks alone; this      *)
(* module places the drops in a function NvLowering made, runs the result    *)
(* one operation a step on objects with reference counts, and says what the  *)
(* drops must never do and what they must achieve.                           *)
(*                                                                          *)
(* The function is a def: a binding of the main program takes references of  *)
(* its own in the runtime's table and is not modelled.                       *)
(***************************************************************************)
EXTENDS NvLowering

CONSTANTS
  Programs,    \* the bodies, a set of sequences of statements
  MaxLuck,     \* how many undecided conditions a run evaluates
  MaxObjects   \* how many objects a run creates, those of the caller included

ASSUME BoundsAssumption == MaxLuck \in Nat /\ MaxObjects \in Nat

-----------------------------------------------------------------------------
(* The pass.                                                               *)

Succ(c, blk) == ToSet(c.blocks[blk].term.to)
Flatten(seqs) == Fold(\o, <<>>, seqs)

RECURSIVE AsSeq(_)
AsSeq(S) == IF S = {} THEN <<>> ELSE LET x == CHOOSE x \in S : TRUE IN <<x>> \o AsSeq(S \ {x})

Operands(term) == ToSet(Flatten(term.with))

\* The places <<block, operation>> of a function, and what stands there.
Ops(c) == UNION {{blk} \X (DOMAIN c.blocks[blk].ops) : blk \in DOMAIN c.blocks}
OpAt(c, l) == c.blocks[l[1]].ops[l[2]]

\* The places <<block, operation, operand>> of a value, an operation that takes
\* it twice being listed twice as Value::getUsers does.
Uses(c, v) ==
  UNION {{<<blk, k, j>> : j \in {j \in DOMAIN OpAt(c, <<blk, k>>).args : OpAt(c, <<blk, k>>).args[j] = v}} :
           <<blk, k>> \in Ops(c)}

Flows(c, v) == \E blk \in DOMAIN c.blocks : v \in Operands(c.blocks[blk].term)

\* Blocks reachable from blk without entering the blocks of "stop".
RECURSIVE Reach(_, _, _)
Reach(c, seen, stop) ==
  LET more == UNION {Succ(c, blk) : blk \in seen} \ (seen \union stop)
  IN IF more = {} THEN seen ELSE Reach(c, seen \union more, stop)

\* What runs after block "from" without going through the definition's block,
\* which makes a new object, or through "from" again.
Onward(c, from, def) == Reach(c, Succ(c, from) \ {def, from}, {def, from})

\* Another use runs after this one; this one runs again.
UseFollows(c, from, uses, def) ==
  \E w \in uses : w[1] \in Onward(c, from[1], def) \/ (w[1] = from[1] /\ w[2] > from[2])
UseRepeats(c, from, def) ==
  from[1] # def /\ \E blk \in Onward(c, from[1], def) \union {from[1]} : from[1] \in Succ(c, blk)

\* Mutant of OtherUseReachable: walks round a loop into the definition.
ReachableThroughDef(c, from, uses, def) == UseFollows(c, from, uses, 0) \/ UseRepeats(c, from, 0)

\* Mutant of OtherUseReachable: a loop back to this very use is not followed.
ReachableNoLoop(c, from, uses, def) == UseFollows(c, from, uses, def)

OtherUseReachable(c, from, uses, def) == UseFollows(c, from, uses, def) \/ UseRepeats(c, from, def)

\* The operation that has to finish first: the farthest one of the block that
\* takes the result of the use, or the result of that one.
RECURSIVE LastConsumer(_, _, _)
LastConsumer(c, blk, k) ==
  LET ops == c.blocks[blk].ops
      users == {j \in DOMAIN ops : j > k /\ ToSet(ops[j].args) \intersect ToSet(ops[k].out) # {}}
  IN IF users = {} THEN k ELSE LastConsumer(c, blk, CHOOSE j \in users : \A i \in users : i <= j)

\* Calls whose result is a new object of the caller's.
OwnedRet == {"nv_box_int", "nv_add", "nv_index_to_value"}

\* Calls that may keep the argument without taking a reference.
Stores == {"user", "nv_vector_push"}
Stored(c, v) == \E u \in Uses(c, v) : c.blocks[u[1]].ops[u[2]].kind \in Stores

\* The arguments of the function, and every block argument of a block that is
\* entered with one of these, at whatever position.
RECURSIVE BorrowedFrom(_, _)
BorrowedFrom(c, vs) ==
  LET more == UNION {ToSet(c.blocks[blk].args) :
                blk \in UNION {Succ(c, pred) : pred \in {q \in DOMAIN c.blocks : Operands(c.blocks[q].term) \intersect vs # {}}}}
  IN IF more \subseteq vs THEN vs ELSE BorrowedFrom(c, vs \union more)

\* Mutant of Borrowed: the arguments of the function only.
BorrowedEntry(c) == {1}

Borrowed(c) == BorrowedFrom(c, {1})

\* The drops of v after its last uses: <<block, operation it comes after, use>>.
AfterLastUses(c, v, def) ==
  {<<u[1], LastConsumer(c, u[1], u[2]), u>> :
     u \in {u \in Uses(c, v) : ~OtherUseReachable(c, u, Uses(c, v), def)}}

\* Where the value v, defined in block "def" by operation k (0: an argument),
\* is dropped.  What a branch or a return passes on, or a call may keep, is not.
TryDrop(c, v, def, k) ==
  IF Flows(c, v) \/ Stored(c, v) THEN {}
  ELSE IF Uses(c, v) = {} THEN IF k = 0 /\ Succ(c, def) # {} THEN {} ELSE {<<def, k, <<>>>>}
  ELSE AfterLastUses(c, v, def)

\* All drops, as <<block, operation, use, value>>.
Drops(c) ==
  LET borrowed == Borrowed(c)
      entering(blk) == IF blk = 1 THEN {} ELSE ToSet(c.blocks[blk].args) \ (borrowed \union c.plain)
      made(blk) == {k \in DOMAIN c.blocks[blk].ops : c.blocks[blk].ops[k].kind \in OwnedRet}
      Of(blk) == UNION {{<<d, v>> : d \in TryDrop(c, v, blk, 0)} : v \in entering(blk)}
                 \union UNION {{<<d, Head(c.blocks[blk].ops[k].out)>> : d \in TryDrop(c, Head(c.blocks[blk].ops[k].out), blk, k)}
                                 : k \in made(blk)}
  IN UNION {Of(blk) : blk \in DOMAIN c.blocks}

\* The function with its drops, each after the operation it waits for.
Place(c, drops) ==
  LET Call(v) == [kind |-> "nv_drop", out |-> <<>>, args |-> <<v>>, lit |-> 0, parts |-> <<>>]
      After(blk, k) == LET here == AsSeq({d \in drops : d[1][1] = blk /\ d[1][2] = k})
                       IN [j \in DOMAIN here |-> Call(here[j][2])]
      Body(blk) == After(blk, 0) \o Flatten([k \in DOMAIN c.blocks[blk].ops |-> <<c.blocks[blk].ops[k]>> \o After(blk, k)])
  IN [c EXCEPT !.blocks = [blk \in DOMAIN c.blocks |-> [c.blocks[blk] EXCEPT !.ops = Body(blk)]]]
WithDrops(c) == CHOOSE done \in {Place(c, drops) : drops \in {Drops(c)}} : TRUE

-----------------------------------------------------------------------------
(* Kinds of programs.  The pass counts on things it does not check; each     *)
(* operator here names programs in which one of them does not hold.          *)

Regions(c) == UNION {ToSet(OpAt(c, l).parts) : l \in Ops(c)}
DefBlock(c, v) ==
  CHOOSE b \in DOMAIN c.blocks :
    v \in ToSet(c.blocks[b].args) \/ \E k \in DOMAIN c.blocks[b].ops : v \in ToSet(c.blocks[b].ops[k].out)

\* The value can be needed after place l, a region's end going on behind its if.
RECURSIVE NeededAfter(_, _, _)
NeededAfter(c, v, l) ==
  LET later == Reach(c, Succ(c, l[1]) \ {DefBlock(c, v)}, {DefBlock(c, v)})
      Takes(b) == \/ v \in Operands(c.blocks[b].term)
                  \/ \E k \in DOMAIN c.blocks[b].ops : v \in ToSet(c.blocks[b].ops[k].args)
      TakenIn(op) == v \in ToSet(op.args) \/ \E b \in ToSet(op.parts) : Takes(b)
  IN \/ \E b \in later : Takes(b) \/ \E k \in DOMAIN c.blocks[b].ops : TakenIn(c.blocks[b].ops[k])
     \/ \E k \in DOMAIN c.blocks[l[1]].ops : k > l[2] /\ TakenIn(c.blocks[l[1]].ops[k])
     \/ l[2] <= Len(c.blocks[l[1]].ops) /\ v \in Operands(c.blocks[l[1]].term)
     \/ \E m \in Ops(c) : l[1] \in ToSet(OpAt(c, m).parts) /\ NeededAfter(c, v, m)

ObjectValues(c) == (1 .. c.next - 1) \ c.plain

\* One operation takes the same value twice: x + x.
TakesTwice(c) ==
  \E l \in Ops(c) : \E j, k \in DOMAIN OpAt(c, l).args : j < k /\ OpAt(c, l).args[j] = OpAt(c, l).args[k]

\* A value goes to a block argument, or out of a region, and is needed besides:
\* two names for one object, one of them changed by a loop.
CarriedAndNeeded(c) ==
  \E b \in DOMAIN c.blocks, v \in ObjectValues(c) :
    /\ v \in Operands(c.blocks[b].term) /\ c.blocks[b].term.kind # "return"
    /\ \/ NeededAfter(c, v, <<b, Len(c.blocks[b].ops) + 1>>)
       \/ \E w \in DOMAIN c.blocks[b].term.with : \E j, k \in DOMAIN c.blocks[b].term.with[w] :
            j < k /\ c.blocks[b].term.with[w][j] = v /\ c.blocks[b].term.with[w][k] = v

\* A value is used in a branch that is still a region, and after it.
SplitByRegion(c) ==
  \E r \in Regions(c), v \in ObjectValues(c) :
    \E k \in DOMAIN c.blocks[r].ops :
      /\ v \in ToSet(c.blocks[r].ops[k].args) /\ DefBlock(c, v) # r
      /\ NeededAfter(c, v, <<r, k>>)

\* Something the function does not own comes out of a region, or the element
\* of a container is carried.
NotOwnedButCarried(c) ==
  \/ \E r \in Regions(c) : Operands(c.blocks[r].term) \intersect Borrowed(c) # {}
  \/ \E l \in Ops(c) : OpAt(c, l).kind = "nv_get_at" /\ Flows(c, Head(OpAt(c, l).out))

\* A vector is given something it cannot own alone.
PushesShared(c) ==
  \E l \in Ops(c) :
    /\ OpAt(c, l).kind = "nv_vector_push"
    /\ LET v == OpAt(c, l).args[1] IN
       \/ ~ \E m \in Ops(c) : v \in ToSet(OpAt(c, m).out) /\ OpAt(c, m).kind \in OwnedRet
       \/ Flows(c, v) \/ NeededAfter(c, v, l)

Sound(c) == ~ (TakesTwice(c) \/ CarriedAndNeeded(c) \/ SplitByRegion(c) \/ NotOwnedButCarried(c) \/ PushesShared(c))

Owning(c) == ~ (NotOwnedButCarried(c) \/ PushesShared(c))

\* Names a statement reads.
Reads(s) ==
  CASE s.op = "add" -> {s.from, s.arg}
    [] s.op = "addto" -> {s.to, s.arg}
    [] s.op = "if" -> {s.cond}
    [] s.op \in {"copy", "read", "user", "push", "return"} -> {s.from}
    [] OTHER -> {}

\* Statements that stand in a conditional turned into selects, or directly in
\* the loop inside another loop.
RECURSIVE Branches(_), Inner(_, _)
Branches(body) ==
  UNION {CASE body[k].op = "if" -> {body[k].then, body[k].else} \union Branches(body[k].then) \union Branches(body[k].else)
           [] body[k].op \in {"while", "range", "items"} -> Branches(body[k].body)
           [] OTHER -> {} : k \in DOMAIN body}
Inner(body, depth) ==
  \E k \in DOMAIN body :
    CASE body[k].op \in {"break", "continue"} -> depth > 1
      [] body[k].op = "if" -> Inner(body[k].then, depth) \/ Inner(body[k].else, depth)
      [] body[k].op \in {"while", "range", "items"} -> Inner(body[k].body, depth + 1)
      [] OTHER -> FALSE

\* A branch that may become selects reads what it assigned: the selects take
\* every operand from before the branch, and the calls come first.
ReadsItsOwn(p) ==
  \E br \in Branches(p) : Convertible(br, TRUE) /\
    \E j, k \in DOMAIN br : j < k /\ Reads(br[k]) \intersect ToSet(Assigned(<<br[j]>>)) # {}

LeavesInnerLoop(p) == Inner(p, 0)

\* A program's function: its blocks as lowered and with the drops, and what kind
\* of program it is.
Compiled(body) ==
  LET Described(c) == [body |-> body, source |-> c, code |-> WithDrops(c), sound |-> Sound(c), owning |-> Owning(c),
                       ordered |-> ~ReadsItsOwn(body), innermost |-> ~LeavesInnerLoop(body)]
  IN CHOOSE f \in {Described(c) : c \in {Lowered(body)}} : TRUE

-----------------------------------------------------------------------------
(* Running the function.                                                   *)

VARIABLES
  fn,       \* the function: its body, its blocks as lowered, those with drops
  at,       \* <<block, operation>> to run next
  resume,   \* where to go on after a region; <<>> outside one (there are none in regions)
  val,      \* value -> object, or the integer of a plain value
  obj,      \* object -> [num, rc]; an object with rc = 0 has been freed
  kept,     \* the objects containers were given, one reference each
  luck,     \* the answers to undecided conditions so far
  out       \* the numbers handed to calls, and the one returned

dropsVars == <<fn, at, resume, val, obj, kept, luck, out>>

Param == 1
Item(k) == 2 + k
Callers == 1 .. 1 + Items

Here == fn.code
Block == Here.blocks[at[1]]
Running == at # <<>>
AtOp == Running /\ at[2] <= Len(Block.ops)
AtEnd == Running /\ at[2] > Len(Block.ops)
Instr == Block.ops[at[2]]
Term == Block.term

\* The integer of an operand: a plain value's own, or the object's.
Num(v) == IF v \in Here.plain THEN val[v] ELSE obj[val[v]].num
Objects(args) == {val[v] : v \in ToSet(args) \ Here.plain}

DropsInit ==
  /\ \E body \in Programs : fn = Compiled(body)
  /\ fn.source.ok
  /\ at = <<1, 1>> /\ resume = <<>>
  /\ val = [v \in 1 .. Here.next - 1 |-> IF v = 1 THEN Param ELSE 0]
  /\ obj = <<[num |-> ParamValue, rc |-> 1]>> \o [k \in 1 .. Items |-> [num |-> ItemValue(k - 1), rc |-> 1]]
  /\ kept = <<>> /\ luck = <<>> /\ out = <<>>

Next1 == at' = [at EXCEPT ![2] = @ + 1]
Result(x) == val' = [val EXCEPT ![Instr.out[1]] = x]

\* A new object with one reference, the caller's.
Alloc ==
  /\ AtOp /\ Instr.kind \in OwnedRet /\ Len(obj) < MaxObjects
  /\ LET n == CASE Instr.kind = "nv_box_int" -> Instr.lit
                [] Instr.kind = "nv_index_to_value" -> Num(Instr.args[1])
                [] Instr.kind = "nv_add" -> Sum(Num(Instr.args[1]), Num(Instr.args[2]))
     IN obj' = Append(obj, [num |-> n, rc |-> 1])
  /\ Result(Len(obj) + 1) /\ Next1
  /\ UNCHANGED <<fn, resume, kept, luck, out>>

\* nv_get_at on a vector: the element itself, no reference taken.
GetAt ==
  /\ AtOp /\ Instr.kind = "nv_get_at"
  /\ Result(Item(Num(Instr.args[1]))) /\ Next1
  /\ UNCHANGED <<fn, resume, obj, kept, luck, out>>

\* nv_select gives a reference of its own to what it chose.
Select ==
  /\ AtOp /\ Instr.kind = "nv_select"
  /\ LET chosen == val[Instr.args[IF Num(Instr.args[1]) = 1 THEN 2 ELSE 3]]
     IN Result(chosen) /\ obj' = [obj EXCEPT ![chosen].rc = @ + 1]
  /\ Next1 /\ UNCHANGED <<fn, resume, kept, luck, out>>

\* The machine operations: the index of a loop and the conditions.
Compute ==
  /\ AtOp /\ Instr.kind \in {"zero", "next", "more", "odd", "true"}
  /\ Result(CASE Instr.kind = "zero" -> 0
              [] Instr.kind = "next" -> Num(Instr.args[1]) + 1
              [] Instr.kind = "more" -> IF Num(Instr.args[1]) < Items THEN 1 ELSE 0
              [] Instr.kind = "odd"  -> Num(Instr.args[1]) % 2
              [] Instr.kind = "true" -> 1)
  /\ Next1 /\ UNCHANGED <<fn, resume, obj, kept, luck, out>>

Undecided ==
  /\ AtOp /\ Instr.kind = "luck" /\ Len(luck) < MaxLuck
  /\ \E answer \in BOOLEAN : Result(IF answer THEN 1 ELSE 0) /\ luck' = Append(luck, answer)
  /\ Next1 /\ UNCHANGED <<fn, resume, obj, kept, out>>

CallReads ==
  /\ AtOp /\ Instr.kind \in {"nv_write", "user"}
  /\ out' = Append(out, Num(Instr.args[1]))
  /\ Next1 /\ UNCHANGED <<fn, resume, val, obj, kept, luck>>

\* The vector takes the pointer, and with it the reference.
Push ==
  /\ AtOp /\ Instr.kind = "nv_vector_push"
  /\ out' = Append(out, Num(Instr.args[1]))
  /\ kept' = Append(kept, val[Instr.args[1]])
  /\ Next1 /\ UNCHANGED <<fn, resume, val, obj, luck>>

Drop ==
  /\ AtOp /\ Instr.kind = "nv_drop"
  /\ obj' = [obj EXCEPT ![val[Instr.args[1]]].rc = @ - 1]
  /\ Next1 /\ UNCHANGED <<fn, resume, val, kept, luck, out>>

EnterRegion ==
  /\ AtOp /\ Instr.kind = "scf.if"
  /\ at' = <<Instr.parts[IF Num(Instr.args[1]) = 1 THEN 1 ELSE 2], 1>>
  /\ resume' = at
  /\ UNCHANGED <<fn, val, obj, kept, luck, out>>

LeaveRegion ==
  /\ AtEnd /\ Term.kind = "yield"
  /\ LET op == Here.blocks[resume[1]].ops[resume[2]]
     IN val' = [v \in DOMAIN val |-> IF v \in ToSet(op.out)
                                       THEN val[Term.with[1][CHOOSE k \in DOMAIN op.out : op.out[k] = v]] ELSE val[v]]
  /\ at' = <<resume[1], resume[2] + 1>> /\ resume' = <<>>
  /\ UNCHANGED <<fn, obj, kept, luck, out>>

\* Going to a block gives its arguments their values, all at once.
Branch ==
  /\ AtEnd /\ Term.kind \in {"br", "cond"}
  /\ LET way == IF Term.kind = "cond" /\ Num(Term.test) = 0 THEN 2 ELSE 1
         args == Here.blocks[Term.to[way]].args
     IN /\ at' = <<Term.to[way], 1>>
        /\ val' = [v \in DOMAIN val |-> IF v \in ToSet(args)
                                          THEN val[Term.with[way][CHOOSE k \in DOMAIN args : args[k] = v]] ELSE val[v]]
  /\ UNCHANGED <<fn, resume, obj, kept, luck, out>>

ReturnValue ==
  /\ AtEnd /\ Term.kind = "return"
  /\ out' = IF Term.with[1] = <<>> THEN out ELSE Append(out, Num(Term.with[1][1]))
  /\ at' = <<>>
  /\ UNCHANGED <<fn, resume, val, obj, kept, luck>>

DropsNext == \/ Alloc \/ GetAt \/ Select \/ Compute \/ Undecided \/ CallReads \/ Push \/ Drop
        \/ EnterRegion \/ LeaveRegion \/ Branch \/ ReturnValue

DropsSpec == DropsInit /\ [][DropsNext]_dropsVars

-----------------------------------------------------------------------------
(* Properties.                                                             *)

Returned == at = <<>>

\* "a use is last when no other use is reachable from it, so the drop can never
\* free the object while a later use still needs it": nothing takes an object
\* that has been freed, a drop least of all, and what a container was given
\* stays, in programs in which the pass's assumptions hold.
NoUseAfterFree ==
  fn.sound =>
    /\ AtOp => \A o \in Objects(Instr.args) : obj[o].rc > 0
    /\ AtEnd /\ Term.kind = "return" => \A v \in Operands(Term) : obj[val[v]].rc > 0
    /\ \A k \in DOMAIN kept : obj[kept[k]].rc > 0

\* "the caller owns the objects it passes": nothing the function does frees its
\* argument or the elements of the caller's container, in functions that own
\* what they drop (owning: nothing borrowed comes out of a region, no element of
\* a container is carried by a loop, a vector is given only what it can own).
CallerKeepsItsObjects == fn.owning => \A o \in Callers : obj[o].rc >= 1

\* A temporary that only its own block needs is gone when the block is left:
\* one iteration's objects do not outlive it.
TemporariesFreed ==
  LET c == fn.source IN
  AtEnd /\ at[1] \in 1 .. Len(c.blocks) =>
    \A k \in DOMAIN c.blocks[at[1]].ops :
      LET op == c.blocks[at[1]].ops[k]
          v == Head(op.out)
          local == \A u \in Uses(c, v) : u[1] = at[1] /\ OpAt(c, u).kind # "nv_select"
      IN op.kind \in OwnedRet /\ ~Flows(c, v) /\ ~Stored(c, v) /\ local => obj[val[v]].rc <= 0

\* The calls see, and the function returns, what the program says.
OutputAsWritten ==
  Returned /\ fn.ordered /\ fn.innermost
    => out = Meaning(fn.body, luck)

\* A break is "a branch out of the innermost loop" (nir_break_stmt.cpp): the output
\* again, for functions with exits from inner loops.
ExitsLeaveInnermost == Returned /\ fn.ordered => out = Meaning(fn.body, luck)

\* The drops again, for every program.
NeverReadsFreed == AtOp /\ Instr.kind # "nv_drop" => \A o \in Objects(Instr.args) : obj[o].rc > 0

=============================================================================
