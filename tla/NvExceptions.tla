---------------------------- MODULE NvExceptions ----------------------------
(***************************************************************************)
(* throw, propagate and try/catch/finally of a compiled Narval program:    *)
(* the code TryStatementNode::nir_codegen emits (nir_try_stmt.cpp) running *)
(* on the exception state of the runtime (nir_bridge.c, exceptions.c).     *)
(*                                                                         *)
(* Nothing is unwound: throw stores the error in a global and the program  *)
(* runs on until the next check.  The state of the runtime is four globals *)
(* (the try depth, the pending error, the error the handler took over and  *)
(* a stack of such errors); the model runs every program of bounded        *)
(* nesting against them, its control stack being the only other state.     *)
(* One thread; features says which constructs the program may use.         *)
(***************************************************************************)
EXTENDS Integers, Sequences, FiniteSets

CONSTANTS
  Type,          \* the exception types but for the catch-all "Error"
  MaxErrors,     \* bound: the errors one run of the program creates
  MaxFrames,     \* bound: the nesting of tries, calls and inner blocks
  MaxArms,       \* bound: the catch arms of one try
  MaxDepth,      \* bound: the try depth, which early returns may let grow
  MaxHandlers,   \* NV_HANDLER_ERROR_MAX
  FeatureSets    \* the sets of constructs, subsets of AllFeatures, of the programs

AllFeatures ==
  {"try_in_handler",               \* a try while a catch body runs
   "try_while_pending",            \* a try begun after a throw that the code
                                   \* around it ran past: a call, a finally
   "raise_in_outermost_handler",   \* throw or propagate in a catch body
                                   \* outside every try body
   "return_in_try"}                \* return from inside a try

ASSUME ExceptionsAssumption ==
  /\ Type # {}
  /\ MaxErrors \in Nat /\ MaxFrames \in Nat /\ MaxArms \in Nat
  /\ MaxDepth \in Nat /\ MaxHandlers \in Nat
  /\ FeatureSets \subseteq SUBSET AllFeatures

Err == 1 .. MaxErrors
NoErr == 0
CatchAll == "Error"

VARIABLES
  features,   \* the constructs this program may use; never changes
  depth,      \* nv_nir_try_depth
  pending,    \* nv_current_exception, NoErr when nv_has_exception is 0
  handled,    \* nv_handled_error
  outer,      \* nv_outer_error_stack, nv_handler_error_depth entries of it
  exited,     \* the process has reported an error and called exit(1)
  stack,      \* the constructs the program is inside of, innermost last
  typeOf,     \* the type of each error
  thrown,     \* the errors created so far
  raisedIn,   \* history: the try body (its place in stack) that a pending
              \* error was raised in, 0 if none
  left,       \* history: the try bodies left by a return
  returned    \* history: a return has left a try

runtimeVars == <<depth, pending, handled, outer>>
programVars == <<features, typeOf, thrown>>
history == <<raisedIn, left, returned>>
vars == <<runtimeVars, exited, stack, programVars, history>>

\* A frame of stack has a kind: "call" or "block" (an if, a loop), whose
\* statements run unchecked, or the phase of a try: "body", "arms", "catch" or
\* "finally".  Its arms are the try's, arm is the next one to test, err the error
\* its handler took over and origin the raisedIn of that error; fresh says that
\* no statement of its current block has run.

TryKind == {"body", "arms", "catch", "finally"}

Init ==
  /\ features \in FeatureSets
  /\ depth = 0 /\ pending = NoErr /\ handled = NoErr /\ outer = <<>>
  /\ exited = FALSE
  /\ stack = <<>>
  /\ typeOf = [e \in Err |-> CHOOSE type \in Type : TRUE]
  /\ thrown = 0
  /\ raisedIn = 0
  /\ left = 0
  /\ returned = FALSE

-----------------------------------------------------------------------------
(* The control stack.                                                      *)

Levels(kinds, st) == {l \in DOMAIN st : st[l].kind \in kinds}
Innermost(levels) == IF levels = {} THEN 0 ELSE CHOOSE l \in levels : \A k \in levels : k <= l
InBody(st) == Innermost(Levels({"body"}, st))

Top == stack[Len(stack)]
At(kind) == ~exited /\ stack # <<>> /\ Top.kind = kind
Pop == SubSeq(stack, 1, Len(stack) - 1)
Retop(frame) == [stack EXCEPT ![Len(stack)] = frame]

\* A statement of the innermost block starts.  The bodies of try and catch are
\* checked: after every statement the rest is skipped if an error is pending.
Checked == stack # <<>> /\ Top.kind \in {"body", "catch"}
MayRun ==
  /\ ~exited
  /\ stack # <<>> => Top.kind # "arms"
  /\ Checked => Top.fresh \/ pending = NoErr

Ran == IF stack = <<>> THEN stack ELSE Retop([Top EXCEPT !.fresh = FALSE])

Enter(kind, arms) ==
  /\ MayRun
  /\ Len(stack) < MaxFrames
  /\ stack' = Append(Ran, [kind |-> kind, arms |-> arms, arm |-> 1,
                           err |-> NoErr, origin |-> 0, fresh |-> TRUE])

\* The restrictions a program without some feature keeps to.
MayTry ==
  /\ "try_in_handler" \in features \/ Levels({"catch"}, stack) = {}
  /\ "try_while_pending" \in features \/ pending = NoErr
MayRaise ==
  \/ "raise_in_outermost_handler" \in features
  \/ Levels({"catch"}, stack) = {}
  \/ Levels({"body"}, stack) # {}

-----------------------------------------------------------------------------
(* Statements.                                                             *)

\* nv_save_exception inside a try, nv_throw_exception outside: no setjmp
\* handler is ever pushed by compiled code, so the latter reports and exits.
Raise(e) ==
  /\ MayRaise
  /\ pending' = e
  /\ IF depth > 0
     THEN stack' = Ran /\ raisedIn' = InBody(stack) /\ UNCHANGED exited
     ELSE exited' = TRUE /\ UNCHANGED <<stack, raisedIn>>
  /\ UNCHANGED <<depth, handled, outer, left, returned>>

Throw(type) ==
  /\ MayRun
  /\ thrown < MaxErrors
  /\ thrown' = thrown + 1
  /\ typeOf' = [typeOf EXCEPT ![thrown + 1] = type]
  /\ Raise(thrown + 1)
  /\ UNCHANGED features

\* propagate: the error of the handler, or the pending one, or nothing at all.
Propagate ==
  LET e == IF handled # NoErr THEN handled ELSE pending IN
  /\ MayRun
  /\ \/ e = NoErr /\ stack' = Ran /\ UNCHANGED <<runtimeVars, exited, history>>
     \/ e # NoErr /\ Raise(e)
  /\ UNCHANGED programVars

OtherStatement ==
  /\ MayRun
  /\ stack' = Ran
  /\ UNCHANGED <<runtimeVars, exited, programVars, history>>

\* A call of a Narval function, or a statement with blocks of its own.
BeginBlock(kind) ==
  /\ Enter(kind, <<>>)
  /\ UNCHANGED <<runtimeVars, exited, programVars, history>>

EndBlock ==
  /\ At("call") \/ At("block")
  /\ stack' = Pop
  /\ UNCHANGED <<runtimeVars, exited, programVars, history>>

\* return from inside a try: what the try still had to do is not done.
ReturnFromTry ==
  LET call == Innermost(Levels({"call"}, stack)) IN
  /\ "return_in_try" \in features
  /\ MayRun
  /\ call # 0
  /\ \E l \in Levels(TryKind, stack) : l > call
  /\ stack' = SubSeq(stack, 1, call - 1)
  /\ left' = left + Cardinality({l \in Levels({"body"}, stack) : l > call})
  /\ returned' = TRUE
  /\ UNCHANGED <<runtimeVars, exited, programVars, raisedIn>>

-----------------------------------------------------------------------------
(* try                                                                     *)

\* Mutant of BeginTry: a flag instead of a depth.
BeginTryFlag(arms) ==
  /\ MayTry
  /\ Enter("body", arms)
  /\ depth' = 1
  /\ UNCHANGED <<pending, handled, outer, exited, programVars, history>>

\* nv_try_push
BeginTry(arms) ==
  /\ MayTry
  /\ depth < MaxDepth
  /\ Enter("body", arms)
  /\ depth' = depth + 1
  /\ UNCHANGED <<pending, handled, outer, exited, programVars, history>>

\* Mutant of EndBody: a body that ends with an error pending is not popped.
EndBodyPopIfClean ==
  /\ At("body")
  /\ depth' = IF depth > 0 /\ pending = NoErr THEN depth - 1 ELSE depth
  /\ stack' = Retop([Top EXCEPT !.kind = "arms"])
  /\ UNCHANGED <<pending, handled, outer, exited, programVars, history>>

\* The end of the body, reached or skipped to: nv_try_pop
EndBody ==
  /\ At("body")
  /\ depth' = IF depth > 0 THEN depth - 1 ELSE 0
  /\ stack' = Retop([Top EXCEPT !.kind = "arms"])
  /\ UNCHANGED <<pending, handled, outer, exited, programVars, history>>

Matches(type) == pending # NoErr /\ type \in {CatchAll, typeOf[pending]}

SkipArm ==
  /\ At("arms") /\ Top.arm <= Len(Top.arms)
  /\ ~Matches(Top.arms[Top.arm])
  /\ stack' = Retop([Top EXCEPT !.arm = @ + 1])
  /\ UNCHANGED <<runtimeVars, exited, programVars, history>>

\* nv_catch_check, nv_get_current_error, nv_push_handler_error: the handler
\* takes the error over and clears the flag.
EnterArm ==
  /\ At("arms") /\ Top.arm <= Len(Top.arms)
  /\ Matches(Top.arms[Top.arm])
  /\ outer' = IF Len(outer) < MaxHandlers THEN Append(outer, pending) ELSE outer
  /\ handled' = pending
  /\ pending' = NoErr
  /\ raisedIn' = 0
  /\ stack' = Retop([Top EXCEPT !.kind = "catch", !.arm = @ + 1, !.err = pending,
                                !.origin = raisedIn, !.fresh = TRUE])
  /\ UNCHANGED <<depth, exited, programVars, left, returned>>

\* Mutant of EndCatch: the arms are tested from the first again.
EndCatchRetest ==
  /\ At("catch")
  /\ handled' = IF outer = <<>> THEN NoErr ELSE outer[Len(outer)]
  /\ outer' = IF outer = <<>> THEN outer ELSE SubSeq(outer, 1, Len(outer) - 1)
  /\ stack' = Retop([Top EXCEPT !.kind = "arms", !.arm = 1, !.err = NoErr, !.origin = 0])
  /\ UNCHANGED <<depth, pending, exited, programVars, history>>

\* nv_pop_handler_error; the arms that follow are tested like the first.
EndCatch ==
  /\ At("catch")
  /\ handled' = IF outer = <<>> THEN NoErr ELSE outer[Len(outer)]
  /\ outer' = IF outer = <<>> THEN outer ELSE SubSeq(outer, 1, Len(outer) - 1)
  /\ stack' = Retop([Top EXCEPT !.kind = "arms", !.err = NoErr, !.origin = 0])
  /\ UNCHANGED <<depth, pending, exited, programVars, history>>

\* Mutant of BeginFinally: an error that nobody caught is reported first.
BeginFinallyReports ==
  /\ At("arms") /\ Top.arm > Len(Top.arms)
  /\ IF pending = NoErr \/ depth > 0
     THEN stack' = Retop([Top EXCEPT !.kind = "finally", !.fresh = TRUE]) /\ UNCHANGED exited
     ELSE exited' = TRUE /\ UNCHANGED stack
  /\ UNCHANGED <<runtimeVars, programVars, history>>

BeginFinally ==
  /\ At("arms") /\ Top.arm > Len(Top.arms)
  /\ stack' = Retop([Top EXCEPT !.kind = "finally", !.fresh = TRUE])
  /\ UNCHANGED <<runtimeVars, exited, programVars, history>>

\* Mutant of FinishTry: an error with no try outside is not reported.
FinishTrySilent ==
  /\ At("finally")
  /\ stack' = Pop
  /\ raisedIn' = IF pending = NoErr THEN raisedIn ELSE InBody(Pop)
  /\ UNCHANGED <<exited, runtimeVars, programVars, left, returned>>

\* nv_finish_try: an error that is left belongs to the try outside, if any.
FinishTry ==
  /\ At("finally")
  /\ IF pending = NoErr \/ depth > 0
     THEN /\ stack' = Pop
          /\ raisedIn' = IF pending = NoErr THEN raisedIn ELSE InBody(Pop)
          /\ UNCHANGED exited
     ELSE exited' = TRUE /\ UNCHANGED <<stack, raisedIn>>
  /\ UNCHANGED <<runtimeVars, programVars, left, returned>>

-----------------------------------------------------------------------------

Arms == UNION {[1 .. n -> Type \cup {CatchAll}] : n \in 0 .. MaxArms}

Next ==
  \/ \E type \in Type : Throw(type)
  \/ Propagate \/ OtherStatement
  \/ \E kind \in {"call", "block"} : BeginBlock(kind)
  \/ EndBlock \/ ReturnFromTry
  \/ \E arms \in Arms : BeginTry(arms)
  \/ EndBody \/ SkipArm \/ EnterArm \/ EndCatch \/ BeginFinally \/ FinishTry

Spec == Init /\ [][Next]_vars

-----------------------------------------------------------------------------
(* Properties.                                                             *)

\* "the flag inside a `try`, an abort with a traceback outside it"
\* (nir_bridge.c): the depth that decides between the two counts the try bodies
\* the program is inside of and, as the code has it, those it left by a return;
\* nothing else, an error in a handler or in a finally, moves it.
DepthAccounted ==
  ~exited => depth = Cardinality(Levels({"body"}, stack)) + left

\* Whatever the program does, returns from inside a try included, an error that
\* is raised inside a try body does not end the process there and then.
NoAbortInsideTry == exited => Levels({"body"}, stack) = {}

\* A pending error is never left where nobody looks: in a program that has not
\* returned from inside a try, while an error is pending there is a try around
\* the program that will still look at the flag, to catch the error, to pass it
\* on or to report it.  (Another error may take its place before that.)
PendingIsWatched ==
  pending # NoErr /\ ~exited /\ ~returned => Levels(TryKind, stack) # {}

Handlers == Levels({"catch"}, stack)

\* "`propagate` re-throws the current handler's error" (nir_bridge.c): while a
\* catch body runs, the error the runtime holds is the one that body took over.
HandlerOwnsItsError ==
  Handlers # {} /\ ~exited => handled = stack[Innermost(Handlers)].err

\* A catch body only runs for an error raised in the body of its own try, by
\* its statements or the functions they call: not for one raised by another
\* arm, nor for one that was pending before the try began.
CatchesOwnBody == \A l \in Handlers : stack[l].origin = l

\* "a `finally` still runs when the error goes unhandled" (nir_try_stmt.cpp):
\* when the process gives up, no try around the error has skipped its finally.
FinallyRan == exited => Levels({"body", "arms", "catch"}, stack) = {}

\* The two for the programs the runtime serves well: those with one arm for
\* each try that use none of the constructs.
Plain == features = {}
PlainCatchesOwnBody == Plain => CatchesOwnBody
PlainFinallyRan == Plain => FinallyRan
=============================================================================
