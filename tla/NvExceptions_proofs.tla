------------------------ MODULE NvExceptions_proofs ------------------------
(***************************************************************************)
(* Proofs about NvExceptions, for any bounds, exception types and          *)
(* constructs.  IInv is the inductive invariant: what ties the four        *)
(* globals of the runtime to the tries the program is inside of.  The two  *)
(* properties of plain programs suppose one catch arm for each try, as     *)
(* they say; no other theorem bounds the arms.                             *)
(***************************************************************************)
EXTENDS NvExceptions, FiniteSetTheorems, WellFoundedInduction, TLAPS

Frame == [kind : TryKind \cup {"call", "block"}, arms : Seq(Type \cup {CatchAll}),
          arm : Nat \ {0}, err : Err \cup {NoErr}, origin : Nat, fresh : BOOLEAN]

TypeOK ==
  /\ features \in FeatureSets
  /\ depth \in Nat
  /\ pending \in Err \cup {NoErr}
  /\ handled \in Err \cup {NoErr}
  /\ outer \in Seq(Err)
  /\ exited \in BOOLEAN
  /\ stack \in Seq(Frame)
  /\ typeOf \in [Err -> Type]
  /\ thrown \in 0 .. MaxErrors
  /\ raisedIn \in Nat
  /\ left \in Nat
  /\ returned \in BOOLEAN

\* A try whose arms are being tested is the innermost construct; bodies are left
\* behind by a return and by nothing else.
StackInv ==
  /\ \A l \in Levels({"arms"}, stack) : l = Len(stack)
  /\ left = 0 \/ returned
  /\ returned => "return_in_try" \in features

\* What is true of plain programs: nothing but calls and blocks is inside of a
\* catch body, and a pending error belongs to the innermost try body unless a
\* try further in has not finished with it.
PlainInv ==
  /\ \A l \in Handlers : \A m \in Levels(TryKind, stack) : m <= l
  /\ FinallyRan
  /\ \/ pending = NoErr
     \/ exited
     \/ raisedIn = InBody(stack)
     \/ \E l \in Levels({"arms", "finally"}, stack) : \A m \in Levels({"body"}, stack) : m < l

\* What is true besides when each try has one arm: an arm is tested once, for an
\* error of the body just ended, and once it has been taken no other is.
OneArmInv ==
  /\ \A l \in DOMAIN stack : Len(stack[l].arms) <= 1
  /\ \A l \in Handlers : stack[l].arm > 1
  /\ \A l \in Levels({"arms"}, stack) :
       pending = NoErr \/ stack[l].arm > 1 \/ raisedIn = l
  /\ CatchesOwnBody

IInv ==
  /\ TypeOK
  /\ StackInv
  /\ DepthAccounted
  /\ NoAbortInsideTry
  /\ PendingIsWatched
  /\ Plain => PlainInv
  /\ Plain /\ MaxArms <= 1 => OneArmInv

-----------------------------------------------------------------------------
(* The control stack.                                                      *)

LEMMA Stack ==
  ASSUME TypeOK
  PROVE  /\ Len(stack) \in Nat /\ DOMAIN stack = 1 .. Len(stack)
         /\ \A l \in DOMAIN stack : stack[l] \in Frame
         /\ stack # <<>> => Len(stack) \in DOMAIN stack /\ Top \in Frame
BY DEF TypeOK, Top

LEMMA LevelsFinite ==
  ASSUME NEW kinds, NEW st, st \in Seq(Frame)
  PROVE  /\ IsFiniteSet(Levels(kinds, st)) /\ Cardinality(Levels(kinds, st)) \in Nat
         /\ Levels(kinds, st) \subseteq 1 .. Len(st)
<1>1. Levels(kinds, st) \subseteq 1 .. Len(st) /\ Len(st) \in Nat
  BY DEF Levels
<1>2. IsFiniteSet(1 .. Len(st))
  BY <1>1, FS_Interval
<1>3. QED
  BY <1>1, <1>2, FS_Subset, FS_CardinalityType

\* Two frames that differ in nothing but whether a statement has run.
SameFrame(f, g) ==
  f.kind = g.kind /\ f.arms = g.arms /\ f.arm = g.arm /\ f.err = g.err /\ f.origin = g.origin

\* The stack st is stack up to level n, but for statements that have run.
Agrees(st, n) == \A l \in 1 .. n : SameFrame(st[l], stack[l])

LEMMA RanAgrees ==
  ASSUME TypeOK
  PROVE  Ran \in Seq(Frame) /\ Len(Ran) = Len(stack) /\ Agrees(Ran, Len(stack))
<1>1. CASE stack = <<>>
  BY <1>1 DEF TypeOK, Ran, Agrees, SameFrame
<1>2. CASE stack # <<>>
  <2>1. [Top EXCEPT !.fresh = FALSE] \in Frame /\ SameFrame([Top EXCEPT !.fresh = FALSE], Top)
    BY <1>2, Stack DEF Frame, SameFrame
  <2>2. QED
    BY <1>2, <2>1, Stack DEF TypeOK, Ran, Retop, Agrees, SameFrame, Top
<1>3. QED
  BY <1>1, <1>2

\* A stack that agrees with stack but for its innermost frames.
LEMMA AgreeingLevels ==
  ASSUME TypeOK, NEW kinds, NEW n \in 0 .. Len(stack), NEW st, st \in Seq(Frame),
         n <= Len(st), Agrees(st, n)
  PROVE  \A l \in 1 .. n : l \in Levels(kinds, st) <=> l \in Levels(kinds, stack)
BY Stack DEF Levels, Agrees, SameFrame

LEMMA SameLevels ==
  ASSUME TypeOK, NEW kinds, NEW st, st \in Seq(Frame),
         Len(st) = Len(stack), Agrees(st, Len(stack))
  PROVE  Levels(kinds, st) = Levels(kinds, stack)
<1>1. \A l \in 1 .. Len(stack) : l \in Levels(kinds, st) <=> l \in Levels(kinds, stack)
  BY AgreeingLevels, Stack
<1>2. Levels(kinds, st) \subseteq 1 .. Len(stack) /\ Levels(kinds, stack) \subseteq 1 .. Len(stack)
  BY LevelsFinite, Stack DEF TypeOK
<1>3. QED
  BY <1>1, <1>2

LEMMA PushedLevels ==
  ASSUME TypeOK, NEW kinds, NEW st, st \in Seq(Frame),
         Len(st) = Len(stack) + 1, Agrees(st, Len(stack))
  PROVE  Levels(kinds, st) = Levels(kinds, stack)
           \cup (IF st[Len(st)].kind \in kinds THEN {Len(st)} ELSE {})
<1>1. \A l \in 1 .. Len(stack) : l \in Levels(kinds, st) <=> l \in Levels(kinds, stack)
  BY AgreeingLevels, Stack
<1>2. Len(st) \in Levels(kinds, st) <=> st[Len(st)].kind \in kinds
  BY Stack DEF Levels
<1>3. Levels(kinds, st) \subseteq 1 .. Len(stack) + 1 /\ Levels(kinds, stack) \subseteq 1 .. Len(stack)
  BY LevelsFinite, Stack DEF TypeOK
<1>4. QED
  BY <1>1, <1>2, <1>3, Stack

LEMMA RetoppedLevels ==
  ASSUME TypeOK, stack # <<>>, NEW kinds, NEW st, st \in Seq(Frame),
         Len(st) = Len(stack), Agrees(st, Len(stack) - 1)
  PROVE  Levels(kinds, st) = (Levels(kinds, stack) \ {Len(stack)})
           \cup (IF st[Len(stack)].kind \in kinds THEN {Len(stack)} ELSE {})
<1>1. \A l \in 1 .. Len(stack) - 1 : l \in Levels(kinds, st) <=> l \in Levels(kinds, stack)
  BY AgreeingLevels, Stack
<1>2. Len(stack) \in Levels(kinds, st) <=> st[Len(stack)].kind \in kinds
  BY Stack DEF Levels
<1>3. Levels(kinds, st) \subseteq 1 .. Len(stack) /\ Levels(kinds, stack) \subseteq 1 .. Len(stack)
  BY LevelsFinite, Stack DEF TypeOK
<1>4. QED
  BY <1>1, <1>2, <1>3, Stack

LEMMA CutLevels ==
  ASSUME TypeOK, NEW kinds, NEW n \in 0 .. Len(stack)
  PROVE  /\ SubSeq(stack, 1, n) \in Seq(Frame) /\ Len(SubSeq(stack, 1, n)) = n
         /\ \A l \in 1 .. n : SubSeq(stack, 1, n)[l] = stack[l]
         /\ Levels(kinds, SubSeq(stack, 1, n)) = {l \in Levels(kinds, stack) : l <= n}
<1>1. /\ SubSeq(stack, 1, n) \in Seq(Frame) /\ Len(SubSeq(stack, 1, n)) = n
      /\ \A l \in 1 .. n : SubSeq(stack, 1, n)[l] = stack[l]
  BY Stack DEF TypeOK
<1>2. DOMAIN SubSeq(stack, 1, n) = 1 .. n
  BY <1>1
<1>3. QED
  BY <1>1, <1>2, Stack DEF Levels

\* The innermost of some levels, and 0 of none, is a number; a level that is
\* beyond none of them is the innermost one.
LEMMA InnermostLevel ==
  ASSUME NEW n \in Nat, NEW levels, levels \subseteq 1 .. n
  PROVE  /\ Innermost(levels) \in Nat
         /\ levels # {} => Innermost(levels) \in levels
                           /\ \A k \in levels : k <= Innermost(levels)
<1>1. CASE levels = {}
  BY <1>1 DEF Innermost
<1>2. CASE levels # {}
  <2> DEFINE T == {n - l : l \in levels}
  <2>1. T \subseteq Nat /\ T # {}
    <3>1. \A l \in levels : n - l \in Nat
      OBVIOUS
    <3>2. PICK l \in levels : TRUE
      BY <1>2
    <3>3. n - l \in T
      BY <3>2
    <3>4. QED
      BY <3>1, <3>3
  <2>2. PICK x \in T : \A y \in T : ~(<<y, x>> \in OpToRel(<, Nat))
    BY <2>1, NatLessThanWellFounded, WFMin, ZenonT(60)
  <2>3. PICK l \in levels : x = n - l
    BY <2>2, ZenonT(60)
  <2>4. ASSUME NEW k \in levels PROVE k <= l
    <3>1. n - k \in T /\ n - k \in Nat /\ x \in Nat
      BY <2>1, <2>2, ZenonT(60)
    <3>2. ~(n - k < x)
      BY <2>2, <3>1 DEF OpToRel
    <3>3. QED
      BY <2>3, <3>1, <3>2
  <2>5. Innermost(levels) \in levels /\ \A k \in levels : k <= Innermost(levels)
    BY <1>2, <2>4 DEF Innermost
  <2>6. 1 .. n \subseteq Nat
    OBVIOUS
  <2>7. QED
    BY <2>5, <2>6
<1>3. QED
  BY <1>1, <1>2

LEMMA InBodyType ==
  ASSUME NEW st, st \in Seq(Frame)
  PROVE  InBody(st) \in Nat
BY LevelsFinite, InnermostLevel DEF InBody

-----------------------------------------------------------------------------
(* Types.                                                                  *)

LEMMA RanType ==
  ASSUME TypeOK
  PROVE  Ran \in Seq(Frame)
BY RanAgrees

\* The frame of a try's arms, or of a block, on top of a stack.
LEMMA EnterType ==
  ASSUME TypeOK, NEW kind \in TryKind \cup {"call", "block"},
         NEW arms \in Seq(Type \cup {CatchAll}), Enter(kind, arms)
  PROVE  /\ stack' \in Seq(Frame) /\ Len(stack') = Len(stack) + 1
         /\ Agrees(stack', Len(stack))
         /\ stack'[Len(stack) + 1].kind = kind /\ stack'[Len(stack) + 1].arms = arms
<1> DEFINE frame == [kind |-> kind, arms |-> arms, arm |-> 1,
                     err |-> NoErr, origin |-> 0, fresh |-> TRUE]
<1>1. frame \in Frame
  BY DEF Frame
<1>2. stack' = Append(Ran, frame)
  BY DEF Enter
<1> HIDE DEF frame
<1>3. /\ Append(Ran, frame) \in Seq(Frame) /\ Len(Append(Ran, frame)) = Len(stack) + 1
      /\ \A l \in 1 .. Len(stack) : Append(Ran, frame)[l] = Ran[l]
      /\ Append(Ran, frame)[Len(stack) + 1] = frame
  BY <1>1, RanAgrees, Stack
<1>4. QED
  BY <1>2, <1>3, RanAgrees DEF Agrees, frame

LEMMA ArmsType ==
  ASSUME NEW arms \in Arms
  PROVE  arms \in Seq(Type \cup {CatchAll}) /\ Len(arms) <= MaxArms
<1>1. PICK n \in 0 .. MaxArms : arms \in [1 .. n -> Type \cup {CatchAll}]
  BY DEF Arms
<1>2. n \in Nat /\ n <= MaxArms
  BY <1>1, ExceptionsAssumption
<1>3. QED
  BY <1>1, <1>2

\* The innermost frame changed.
LEMMA RetopType ==
  ASSUME TypeOK, stack # <<>>, NEW frame \in Frame, stack' = Retop(frame)
  PROVE  /\ stack' \in Seq(Frame) /\ Len(stack') = Len(stack)
         /\ Agrees(stack', Len(stack) - 1) /\ stack'[Len(stack)] = frame
BY Stack DEF TypeOK, Retop, Agrees, SameFrame

LEMMA PopType ==
  ASSUME TypeOK, stack # <<>>
  PROVE  Pop \in Seq(Frame) /\ Len(stack) - 1 \in 0 .. Len(stack)
BY Stack, CutLevels DEF Pop, TypeOK

LEMMA CatchFrame ==
  ASSUME NEW f \in Frame, NEW k \in TryKind, NEW a \in Nat \ {0},
         NEW e \in Err \cup {NoErr}, NEW o \in Nat
  PROVE  [f EXCEPT !.kind = k, !.arm = a, !.err = e, !.origin = o, !.fresh = TRUE] \in Frame
BY Zenon DEF Frame

\* The frame each step of a try leaves on top.
LEMMA TopFrames ==
  ASSUME TypeOK, stack # <<>>
  PROVE  /\ [Top EXCEPT !.kind = "arms"] \in Frame
         /\ [Top EXCEPT !.arm = @ + 1] \in Frame
         /\ [Top EXCEPT !.kind = "catch", !.arm = @ + 1, !.err = pending,
                        !.origin = raisedIn, !.fresh = TRUE] \in Frame
         /\ [Top EXCEPT !.kind = "arms", !.err = NoErr, !.origin = 0] \in Frame
         /\ [Top EXCEPT !.kind = "finally", !.fresh = TRUE] \in Frame
<1>1. Top \in Frame
  BY Stack
<1>2. pending \in Err \cup {NoErr} /\ raisedIn \in Nat
  BY DEF TypeOK
<1>3. /\ [Top EXCEPT !.kind = "arms"] \in Frame
      /\ [Top EXCEPT !.kind = "arms", !.err = NoErr, !.origin = 0] \in Frame
      /\ [Top EXCEPT !.kind = "finally", !.fresh = TRUE] \in Frame
  BY <1>1 DEF Frame, TryKind
<1>4. [Top EXCEPT !.arm = @ + 1] \in Frame
  BY <1>1 DEF Frame
<1>5. [Top EXCEPT !.kind = "catch", !.arm = @ + 1, !.err = pending,
                  !.origin = raisedIn, !.fresh = TRUE] \in Frame
  <2>1. Top.arm + 1 \in Nat \ {0} /\ "catch" \in TryKind
    BY <1>1 DEF Frame, TryKind
  <2>2. QED
    BY <1>1, <1>2, <2>1, CatchFrame, ZenonT(60)
<1>6. QED
  BY <1>3, <1>4, <1>5

LEMMA RaiseType ==
  ASSUME TypeOK, NEW e \in Err, Raise(e)
  PROVE  /\ depth' \in Nat /\ pending' \in Err \cup {NoErr}
         /\ handled' \in Err \cup {NoErr} /\ outer' \in Seq(Err)
         /\ exited' \in BOOLEAN /\ stack' \in Seq(Frame) /\ raisedIn' \in Nat
         /\ left' \in Nat /\ returned' \in BOOLEAN
<1>1. CASE depth > 0
  BY <1>1, RanType, InBodyType DEF Raise, TypeOK
<1>2. CASE ~(depth > 0)
  BY <1>2 DEF Raise, TypeOK
<1>3. QED
  BY <1>1, <1>2

LEMMA OuterType ==
  ASSUME TypeOK
  PROVE  /\ \A e \in Err : Append(outer, e) \in Seq(Err)
         /\ outer # <<>> => /\ outer[Len(outer)] \in Err
                            /\ SubSeq(outer, 1, Len(outer) - 1) \in Seq(Err)
<1>1. outer \in Seq(Err)
  BY DEF TypeOK
<1> HIDE DEF Err
<1>2. QED
  BY <1>1

LEMMA ThrowType ==
  ASSUME TypeOK, NEW type \in Type, Throw(type)
  PROVE  TypeOK'
<1>1. thrown + 1 \in Err /\ thrown + 1 \in 0 .. MaxErrors
  BY ExceptionsAssumption DEF TypeOK, Throw, Err
<1>2. Raise(thrown + 1)
  BY DEF Throw
<1>3. /\ depth' \in Nat /\ pending' \in Err \cup {NoErr}
      /\ handled' \in Err \cup {NoErr} /\ outer' \in Seq(Err)
      /\ exited' \in BOOLEAN /\ stack' \in Seq(Frame) /\ raisedIn' \in Nat
      /\ left' \in Nat /\ returned' \in BOOLEAN
  BY <1>1, <1>2, RaiseType
<1>4. typeOf' \in [Err -> Type] /\ thrown' \in 0 .. MaxErrors /\ features' \in FeatureSets
  BY <1>1 DEF Throw, TypeOK
<1>5. QED
  BY <1>3, <1>4 DEF TypeOK

LEMMA PropagateType ==
  ASSUME TypeOK, Propagate
  PROVE  TypeOK'
<1> DEFINE e == IF handled # NoErr THEN handled ELSE pending
<1>1. CASE e = NoErr /\ stack' = Ran /\ UNCHANGED <<runtimeVars, exited, history>>
  BY <1>1, RanType DEF TypeOK, Propagate, runtimeVars, programVars, history
<1>2. CASE e # NoErr /\ Raise(e)
  <2>1. e \in Err
    BY <1>2 DEF TypeOK
  <2> HIDE DEF e
  <2>2. /\ depth' \in Nat /\ pending' \in Err \cup {NoErr}
        /\ handled' \in Err \cup {NoErr} /\ outer' \in Seq(Err)
        /\ exited' \in BOOLEAN /\ stack' \in Seq(Frame) /\ raisedIn' \in Nat
        /\ left' \in Nat /\ returned' \in BOOLEAN
    BY <1>2, <2>1, RaiseType
  <2>3. QED
    BY <2>2 DEF TypeOK, Propagate, programVars
<1>3. QED
  BY <1>1, <1>2 DEF Propagate

LEMMA ReturnType ==
  ASSUME TypeOK, ReturnFromTry
  PROVE  TypeOK'
<1> DEFINE call == Innermost(Levels({"call"}, stack))
           cut == {l \in Levels({"body"}, stack) : l > call}
<1>1. call \in 1 .. Len(stack)
  BY LevelsFinite, InnermostLevel, Stack DEF ReturnFromTry, TypeOK, Innermost
<1>2. SubSeq(stack, 1, call - 1) \in Seq(Frame)
  BY <1>1, CutLevels, Stack
<1>3. Cardinality(cut) \in Nat
  BY LevelsFinite, FS_Subset, FS_CardinalityType DEF TypeOK
<1>4. /\ stack' = SubSeq(stack, 1, call - 1) /\ left' = left + Cardinality(cut)
      /\ returned' = TRUE /\ UNCHANGED <<runtimeVars, exited, programVars, raisedIn>>
  BY DEF ReturnFromTry
<1> HIDE DEF call, cut
<1>5. QED
  BY <1>2, <1>3, <1>4 DEF TypeOK, runtimeVars, programVars

LEMMA TypeStep ==
  ASSUME TypeOK, Next
  PROVE  TypeOK'
<1>1. CASE \E type \in Type : Throw(type)
  BY <1>1, ThrowType
<1>2. CASE Propagate
  BY <1>2, PropagateType
<1>3. CASE OtherStatement
  BY <1>3, RanType DEF OtherStatement, TypeOK, runtimeVars, programVars, history
<1>4. CASE \E kind \in {"call", "block"} : BeginBlock(kind)
  <2>1. PICK kind \in {"call", "block"} : BeginBlock(kind)
    BY <1>4
  <2>2. <<>> \in Seq(Type \cup {CatchAll}) /\ Enter(kind, <<>>)
    BY <2>1 DEF BeginBlock
  <2>3. stack' \in Seq(Frame)
    BY <2>2, EnterType
  <2>4. QED
    BY <2>1, <2>3 DEF BeginBlock, TypeOK, runtimeVars, programVars, history
<1>5. CASE EndBlock
  BY <1>5, PopType DEF EndBlock, At, TypeOK, runtimeVars, programVars, history
<1>6. CASE ReturnFromTry
  BY <1>6, ReturnType
<1>7. CASE \E arms \in Arms : BeginTry(arms)
  <2>1. PICK arms \in Arms : BeginTry(arms)
    BY <1>7
  <2>2. stack' \in Seq(Frame)
    BY <2>1, ArmsType, EnterType DEF BeginTry, TryKind
  <2>3. QED
    BY <2>1, <2>2 DEF BeginTry, TypeOK, programVars, history
<1>8. CASE EndBody
  <2>1. stack # <<>> /\ stack' = Retop([Top EXCEPT !.kind = "arms"])
    BY <1>8 DEF EndBody, At
  <2>2. stack' \in Seq(Frame)
    BY <2>1, TopFrames, RetopType
  <2>3. QED
    BY <1>8, <2>2 DEF EndBody, TypeOK, programVars, history
<1>9. CASE SkipArm
  <2>1. stack # <<>> /\ stack' = Retop([Top EXCEPT !.arm = @ + 1])
    BY <1>9 DEF SkipArm, At
  <2>2. stack' \in Seq(Frame)
    BY <2>1, TopFrames, RetopType
  <2>3. QED
    BY <1>9, <2>2 DEF SkipArm, TypeOK, runtimeVars, programVars, history
<1>10. CASE EnterArm
  <2>1. stack # <<>> /\ pending \in Err
        /\ stack' = Retop([Top EXCEPT !.kind = "catch", !.arm = @ + 1, !.err = pending,
                                      !.origin = raisedIn, !.fresh = TRUE])
    BY <1>10 DEF EnterArm, At, Matches, TypeOK
  <2>2. stack' \in Seq(Frame)
    BY <2>1, TopFrames, RetopType
  <2>3. outer' \in Seq(Err) /\ handled' \in Err /\ pending' = NoErr /\ raisedIn' = 0
    BY <1>10, <2>1, OuterType DEF EnterArm, TypeOK
  <2>4. QED
    BY <1>10, <2>2, <2>3 DEF EnterArm, TypeOK, programVars
<1>11. CASE EndCatch
  <2>1. stack # <<>> /\ stack' = Retop([Top EXCEPT !.kind = "arms", !.err = NoErr, !.origin = 0])
    BY <1>11 DEF EndCatch, At
  <2>2. stack' \in Seq(Frame)
    BY <2>1, TopFrames, RetopType
  <2>3. outer' \in Seq(Err) /\ handled' \in Err \cup {NoErr}
    BY <1>11, OuterType DEF EndCatch, TypeOK
  <2>4. QED
    BY <1>11, <2>2, <2>3 DEF EndCatch, TypeOK, programVars, history
<1>12. CASE BeginFinally
  <2>1. stack # <<>> /\ stack' = Retop([Top EXCEPT !.kind = "finally", !.fresh = TRUE])
    BY <1>12 DEF BeginFinally, At
  <2>2. stack' \in Seq(Frame)
    BY <2>1, TopFrames, RetopType
  <2>3. QED
    BY <1>12, <2>2 DEF BeginFinally, TypeOK, runtimeVars, programVars, history
<1>13. CASE FinishTry
  <2>1. Pop \in Seq(Frame) /\ InBody(Pop) \in Nat
    BY <1>13, PopType, InBodyType DEF FinishTry, At
  <2>2. stack' \in Seq(Frame) /\ raisedIn' \in Nat /\ exited' \in BOOLEAN
    BY <1>13, <2>1 DEF FinishTry, TypeOK
  <2>3. QED
    BY <1>13, <2>2 DEF FinishTry, TypeOK, runtimeVars, programVars
<1>14. QED
  BY <1>1, <1>2, <1>3, <1>4, <1>5, <1>6, <1>7, <1>8, <1>9, <1>10, <1>11, <1>12, <1>13 DEF Next

-----------------------------------------------------------------------------
(* The shapes of a step: statements, a construct entered, the phase of a   *)
(* try, a construct left, the end of the process.                          *)

\* A try whose arms are being tested is the top of the stack.
LEMMA NoArmsBelow ==
  ASSUME TypeOK, StackInv, stack # <<>> => Top.kind # "arms"
  PROVE  Levels({"arms"}, stack) = {}
<1>1. ASSUME NEW l \in Levels({"arms"}, stack) PROVE FALSE
  <2>1. l = Len(stack) /\ l \in DOMAIN stack /\ stack[l].kind = "arms"
    BY <1>1 DEF StackInv, Levels
  <2>2. stack # <<>>
    BY <2>1, Stack
  <2>3. QED
    BY <2>1, <2>2 DEF Top
<1>2. QED
  BY <1>1

LEMMA PlainNoReturn ==
  ASSUME TypeOK, StackInv, Plain
  PROVE  ~returned /\ left = 0
BY DEF TypeOK, StackInv, Plain

\* With a positive depth the program is inside of a try body, or was when it
\* returned; with depth 0 it is in none.
LEMMA DepthTells ==
  ASSUME TypeOK, StackInv, DepthAccounted, ~exited
  PROVE  /\ depth > 0 /\ ~returned => Levels({"body"}, stack) # {}
         /\ depth = 0 => Levels({"body"}, stack) = {}
<1>1. IsFiniteSet(Levels({"body"}, stack)) /\ Cardinality(Levels({"body"}, stack)) \in Nat
  BY LevelsFinite DEF TypeOK
<1>2. Cardinality({}) = 0 /\ (Cardinality(Levels({"body"}, stack)) = 0 => Levels({"body"}, stack) = {})
  BY <1>1, FS_EmptySet
<1>3. depth = Cardinality(Levels({"body"}, stack)) + left /\ left \in Nat /\ (~returned => left = 0)
  BY DEF TypeOK, StackInv, DepthAccounted
<1> DEFINE bodies == Levels({"body"}, stack)
<1> HIDE DEF bodies
<1>4. Cardinality(bodies) \in Nat /\ (Cardinality(bodies) = 0 <=> bodies = {})
  BY <1>1, <1>2 DEF bodies
<1>5. depth = Cardinality(bodies) + left
  BY <1>3 DEF bodies
<1>6. (depth > 0 /\ ~returned => bodies # {}) /\ (depth = 0 => bodies = {})
  BY <1>3, <1>4, <1>5
<1>7. QED
  BY <1>6 DEF bodies

LEMMA SomeTry ==
  ASSUME NEW st, NEW kinds \in SUBSET TryKind
  PROVE  Levels(kinds, st) \subseteq Levels(TryKind, st)
BY DEF Levels

\* A statement runs: the stack keeps its levels; an error is raised, cleared or
\* left as it was.
LEMMA RunStep ==
  ASSUME IInv, TypeOK', ~exited,
         Len(stack') = Len(stack), Agrees(stack', Len(stack)),
         stack # <<>> => Top.kind # "arms",
         UNCHANGED <<features, depth, left, returned, exited>>,
         \/ pending' = NoErr
         \/ pending' = pending /\ raisedIn' = raisedIn
         \/ raisedIn' = InBody(stack) /\ depth > 0
  PROVE  IInv'
<1>1. \A kinds : Levels(kinds, stack') = Levels(kinds, stack)
  BY SameLevels DEF IInv, TypeOK
<1>2. Levels({"arms"}, stack) = {}
  BY NoArmsBelow DEF IInv
<1>3. StackInv'
  BY <1>1, <1>2 DEF IInv, StackInv
<1>4. DepthAccounted' /\ NoAbortInsideTry'
  BY <1>1 DEF IInv, DepthAccounted, NoAbortInsideTry
<1>5. PendingIsWatched'
  <2>1. depth > 0 /\ ~returned => Levels(TryKind, stack) # {}
    BY DepthTells, SomeTry DEF IInv, TryKind
  <2>2. QED
    BY <1>1, <2>1 DEF IInv, PendingIsWatched
<1>6. Plain' => PlainInv'
  <2>1. InBody(stack') = InBody(stack)
    BY <1>1 DEF InBody
  <2>2. QED
    BY <1>1, <2>1 DEF IInv, Plain, PlainInv, FinallyRan, Handlers
<1>7. ASSUME Plain', MaxArms <= 1 PROVE OneArmInv'
  <2>1. OneArmInv
    BY <1>7 DEF IInv, Plain
  <2>2. \A l \in DOMAIN stack : SameFrame(stack'[l], stack[l])
    BY Stack DEF IInv, Agrees
  <2>3. DOMAIN stack' = DOMAIN stack
    BY Stack DEF IInv, TypeOK
  <2>4. \A l \in Handlers : l \in DOMAIN stack
    BY DEF Handlers, Levels
  <2>5. Handlers' = Handlers
    BY <1>1 DEF Handlers
  <2>6. CatchesOwnBody'
    BY <2>1, <2>2, <2>4, <2>5 DEF OneArmInv, CatchesOwnBody, SameFrame
  <2>7. QED
    BY <1>1, <1>2, <2>1, <2>2, <2>3, <2>4, <2>5, <2>6 DEF OneArmInv, SameFrame
<1>8. QED
  BY <1>3, <1>4, <1>5, <1>6, <1>7 DEF IInv

\* A try, a call or a block begins.
LEMMA EnterStep ==
  ASSUME IInv, TypeOK', ~exited,
         Len(stack') = Len(stack) + 1, Agrees(stack', Len(stack)),
         stack # <<>> => Top.kind # "arms",
         UNCHANGED <<features, pending, raisedIn, left, returned, exited>>,
         stack'[Len(stack) + 1].kind \in {"body", "call", "block"},
         Len(stack'[Len(stack) + 1].arms) <= MaxArms,
         stack'[Len(stack) + 1].kind = "body" =>
           /\ depth' = depth + 1
           /\ Plain => pending = NoErr /\ Levels({"catch"}, stack) = {},
         stack'[Len(stack) + 1].kind # "body" => depth' = depth
  PROVE  IInv'
<1> DEFINE n == Len(stack) + 1
           kind == stack'[n].kind
<1>0. n \in Nat /\ Len(stack') = n /\ stack' \in Seq(Frame)
  BY Stack DEF IInv, TypeOK
<1>1. \A kinds : Levels(kinds, stack') = Levels(kinds, stack) \cup (IF kind \in kinds THEN {n} ELSE {})
  BY <1>0, PushedLevels DEF IInv
<1>2. /\ Levels({"arms"}, stack') = Levels({"arms"}, stack)
      /\ Levels({"catch"}, stack') = Levels({"catch"}, stack)
      /\ Levels({"arms", "finally"}, stack') = Levels({"arms", "finally"}, stack)
      /\ kind # "body" => /\ Levels({"body"}, stack') = Levels({"body"}, stack)
                          /\ Levels(TryKind, stack') = Levels(TryKind, stack)
      /\ kind = "body" => Levels({"body"}, stack') = Levels({"body"}, stack) \cup {n}
      /\ Levels(TryKind, stack) \subseteq Levels(TryKind, stack')
  BY <1>1, ZenonT(60) DEF TryKind
<1> HIDE DEF kind, n
<1>3. Levels({"arms"}, stack) = {}
  BY NoArmsBelow DEF IInv
<1>4. StackInv'
  BY <1>2, <1>3 DEF IInv, StackInv
<1>5. DepthAccounted'
  <2>1. CASE kind = "body"
    <3>1. /\ IsFiniteSet(Levels({"body"}, stack)) /\ n \notin Levels({"body"}, stack)
          /\ Cardinality(Levels({"body"}, stack)) \in Nat
      BY LevelsFinite, Stack DEF IInv, TypeOK, n
    <3>2. Cardinality(Levels({"body"}, stack')) = Cardinality(Levels({"body"}, stack)) + 1
      BY <1>2, <2>1, <3>1, FS_AddElement
    <3>3. QED
      BY <2>1, <3>1, <3>2, SMTT(60) DEF IInv, TypeOK, DepthAccounted, kind, n
  <2>2. CASE kind # "body"
    BY <1>2, <2>2 DEF IInv, DepthAccounted, kind, n
  <2>3. QED
    BY <2>1, <2>2
<1>6. NoAbortInsideTry'
  BY DEF NoAbortInsideTry
<1>7. PendingIsWatched'
  BY <1>2 DEF IInv, PendingIsWatched
<1>8. ASSUME Plain' PROVE PlainInv'
  <2>1. PlainInv /\ Plain
    BY <1>8 DEF IInv, Plain
  <2>2. CASE kind = "body"
    BY <1>2, <2>1, <2>2 DEF PlainInv, FinallyRan, Handlers, kind, n
  <2>3. CASE kind # "body"
    BY <1>2, <2>1, <2>3 DEF PlainInv, FinallyRan, Handlers, InBody
  <2>4. QED
    BY <2>2, <2>3
<1>9. ASSUME Plain', MaxArms <= 1 PROVE OneArmInv'
  <2>1. OneArmInv
    BY <1>9 DEF IInv, Plain
  <2>2. \A l \in DOMAIN stack : SameFrame(stack'[l], stack[l])
    BY Stack DEF IInv, Agrees
  <2>3. DOMAIN stack' = DOMAIN stack \cup {n}
    BY <1>0, Stack DEF IInv, n
  <2>4. \A l \in Handlers : l \in DOMAIN stack
    BY DEF Handlers, Levels
  <2>5. Handlers' = Handlers
    BY <1>2 DEF Handlers
  <2>6. CatchesOwnBody'
    BY <2>1, <2>2, <2>4, <2>5 DEF OneArmInv, CatchesOwnBody, SameFrame
  <2>7. Len(stack'[n].arms) <= 1
    <3>1. Len(stack'[n].arms) \in Nat
      BY <1>0 DEF Frame, n
    <3>2. QED
      BY <1>9, <3>1, ExceptionsAssumption DEF n
  <2>8. \A l \in DOMAIN stack' : Len(stack'[l].arms) <= 1
    BY <2>1, <2>2, <2>3, <2>7 DEF OneArmInv, SameFrame
  <2>9. \A l \in Handlers' : stack'[l].arm > 1
    BY <2>1, <2>2, <2>4, <2>5 DEF OneArmInv, SameFrame
  <2>10. QED
    BY <1>2, <1>3, <2>6, <2>8, <2>9 DEF OneArmInv
<1>10. QED
  BY <1>4, <1>5, <1>6, <1>7, <1>8, <1>9 DEF IInv

\* A try goes from one phase to another, or to its next arm.
LEMMA PhaseStep ==
  ASSUME IInv, TypeOK', ~exited, stack # <<>>,
         Len(stack') = Len(stack), Agrees(stack', Len(stack) - 1),
         UNCHANGED <<features, left, returned, exited>>,
         Top.kind \in TryKind,
         stack'[Len(stack)].kind \in {"arms", "catch", "finally"},
         stack'[Len(stack)].arms = Top.arms,
         Top.kind = "body" => depth' = depth - 1,
         Top.kind # "body" => depth' = depth,
         pending' \in {pending, NoErr},
         stack'[Len(stack)].kind = "catch" => pending' = NoErr,
         Plain /\ MaxArms <= 1 =>
           /\ stack'[Len(stack)].kind = "arms" =>
                pending' = NoErr \/ stack'[Len(stack)].arm > 1 \/ raisedIn' = Len(stack)
           /\ stack'[Len(stack)].kind = "catch" =>
                stack'[Len(stack)].arm > 1 /\ stack'[Len(stack)].origin = Len(stack)
  PROVE  IInv'
<1> DEFINE n == Len(stack)
           kind == stack'[n].kind
<1>0. /\ n \in Nat \ {0} /\ Len(stack') = n /\ stack' \in Seq(Frame)
      /\ n \in DOMAIN stack /\ DOMAIN stack = 1 .. n /\ DOMAIN stack' = 1 .. n /\ Top = stack[n]
  BY Stack DEF IInv, TypeOK, Top
<1>1. \A kinds : Levels(kinds, stack') = (Levels(kinds, stack) \ {n}) \cup (IF kind \in kinds THEN {n} ELSE {})
  BY <1>0, RetoppedLevels DEF IInv
<1>2. n \in Levels(TryKind, stack)
  BY <1>0 DEF Levels
<1>3. kind \in {"arms", "catch", "finally"}
  OBVIOUS
<1>4. /\ Levels(TryKind, stack') = Levels(TryKind, stack)
      /\ Levels({"body"}, stack') = Levels({"body"}, stack) \ {n}
      /\ Levels({"arms"}, stack') \subseteq {n}
      /\ Levels({"arms"}, stack') # {} => kind = "arms"
      /\ kind # "catch" => n \in Levels({"arms", "finally"}, stack')
      /\ Levels({"catch"}, stack') \subseteq Levels({"catch"}, stack) \cup {n}
      /\ n \in Levels({"catch"}, stack') => kind = "catch"
  <2>1. Levels({"arms"}, stack) \subseteq {n}
    BY DEF IInv, StackInv
  <2>2. Levels(TryKind, stack') = Levels(TryKind, stack)
    <3>1. kind \in TryKind
      BY <1>3 DEF TryKind
    <3>2. Levels(TryKind, stack') = (Levels(TryKind, stack) \ {n}) \cup {n}
      BY <1>1, <3>1
    <3>3. QED
      BY <1>2, <3>2
  <2>3. Levels({"body"}, stack') = Levels({"body"}, stack) \ {n}
    BY <1>1, <1>3
  <2>4. Levels({"arms"}, stack') \subseteq {n} /\ (Levels({"arms"}, stack') # {} => kind = "arms")
    BY <1>1, <2>1
  <2>5. /\ kind # "catch" => n \in Levels({"arms", "finally"}, stack')
        /\ Levels({"catch"}, stack') \subseteq Levels({"catch"}, stack) \cup {n}
        /\ n \in Levels({"catch"}, stack') => kind = "catch"
    BY <1>1, <1>3
  <2>6. QED
    BY <2>2, <2>3, <2>4, <2>5
<1>5. \A l \in 1 .. n - 1 : SameFrame(stack'[l], stack[l])
  BY DEF Agrees
<1>6. /\ Levels({"body"}, stack') \subseteq 1 .. n - 1 /\ Levels(TryKind, stack) \subseteq 1 .. n
      /\ Levels({"catch"}, stack') \subseteq 1 .. n
  <2>1. /\ Levels({"body"}, stack) \subseteq 1 .. n /\ Levels(TryKind, stack) \subseteq 1 .. n
        /\ Levels({"catch"}, stack') \subseteq 1 .. n
    BY <1>0, LevelsFinite DEF IInv, TypeOK
  <2>2. QED
    BY <1>0, <1>4, <2>1
<1>7. /\ IsFiniteSet(Levels({"body"}, stack)) /\ Cardinality(Levels({"body"}, stack)) \in Nat
      /\ n \in Levels({"body"}, stack) <=> Top.kind = "body"
  BY <1>0, LevelsFinite DEF IInv, TypeOK, Levels
<1> HIDE DEF n, kind
<1>8. StackInv'
  BY <1>0, <1>4 DEF IInv, StackInv
<1>9. DepthAccounted'
  <2>1. CASE Top.kind = "body"
    <3>1. Cardinality(Levels({"body"}, stack')) = Cardinality(Levels({"body"}, stack)) - 1
      BY <1>4, <1>7, <2>1, FS_RemoveElement
    <3>2. QED
      BY <1>7, <2>1, <3>1, SMTT(60) DEF IInv, TypeOK, DepthAccounted
  <2>2. CASE Top.kind # "body"
    <3>1. Levels({"body"}, stack') = Levels({"body"}, stack)
      BY <1>4, <1>7, <2>2
    <3>2. QED
      BY <2>2, <3>1 DEF IInv, DepthAccounted
  <2>3. QED
    BY <2>1, <2>2
<1>10. NoAbortInsideTry' /\ PendingIsWatched'
  BY <1>2, <1>4 DEF NoAbortInsideTry, PendingIsWatched
<1>11. ASSUME Plain' PROVE PlainInv'
  <2>1. PlainInv
    BY <1>11 DEF IInv, Plain
  <2>2. \A l \in Handlers' : \A m \in Levels(TryKind, stack') : m <= l
    <3>1. ASSUME NEW l \in Levels({"catch"}, stack'), NEW m \in Levels(TryKind, stack) PROVE m <= l
      <4>1. CASE l = n
        BY <1>6, <4>1
      <4>2. CASE l # n
        BY <1>4, <2>1, <4>2 DEF PlainInv, Handlers
      <4>3. QED
        BY <4>1, <4>2
    <3>2. QED
      BY <1>4, <3>1 DEF Handlers
  <2>3. FinallyRan'
    BY DEF FinallyRan
  <2>4. \/ pending' = NoErr
        \/ \E l \in Levels({"arms", "finally"}, stack') : \A m \in Levels({"body"}, stack') : m < l
    <3>1. \A m \in Levels({"body"}, stack') : m < n
      BY <1>0, <1>6
    <3>2. QED
      BY <1>4, <3>1 DEF kind, n
  <2>5. QED
    BY <2>2, <2>3, <2>4 DEF PlainInv
<1>12. ASSUME Plain', MaxArms <= 1 PROVE OneArmInv'
  <2>1. OneArmInv /\ Plain
    BY <1>12 DEF IInv, Plain
  <2>2. \A l \in DOMAIN stack' : Len(stack'[l].arms) <= 1
    <3>1. ASSUME NEW l \in 1 .. n PROVE Len(stack'[l].arms) <= 1
      <4>1. stack'[l].arms = stack[l].arms
        BY <1>0, <1>5 DEF SameFrame, n
      <4>2. QED
        BY <1>0, <2>1, <4>1 DEF OneArmInv
    <3>2. QED
      BY <1>0, <3>1
  <2>3. \A l \in Levels({"catch"}, stack') : stack'[l].arm > 1 /\ stack'[l].origin = l
    <3>1. ASSUME NEW l \in Levels({"catch"}, stack') PROVE stack'[l].arm > 1 /\ stack'[l].origin = l
      <4>1. CASE l = n
        BY <1>4, <1>12, <2>1, <4>1 DEF n, kind
      <4>2. CASE l # n
        <5>1. l \in 1 .. n - 1 /\ l \in Levels({"catch"}, stack)
          BY <1>0, <1>4, <1>6, <4>2
        <5>2. QED
          BY <1>5, <2>1, <5>1 DEF OneArmInv, CatchesOwnBody, Handlers, SameFrame
      <4>3. QED
        BY <4>1, <4>2
    <3>2. QED
      BY <3>1
  <2>4. \A l \in Levels({"arms"}, stack') : pending' = NoErr \/ stack'[l].arm > 1 \/ raisedIn' = l
    BY <1>4, <1>12, <2>1 DEF n, kind
  <2>5. QED
    BY <2>2, <2>3, <2>4 DEF OneArmInv, CatchesOwnBody, Handlers
<1>13. QED
  BY <1>8, <1>9, <1>10, <1>11, <1>12 DEF IInv

\* A call, a block or a try that is over is left.
LEMMA PopStep ==
  ASSUME IInv, TypeOK', ~exited, stack # <<>>, stack' = Pop,
         UNCHANGED <<features, depth, pending, left, returned, exited>>,
         \/ Top.kind \in {"call", "block"} /\ raisedIn' = raisedIn
         \/ /\ Top.kind = "finally"
            /\ pending = NoErr \/ (depth > 0 /\ raisedIn' = InBody(Pop))
  PROVE  IInv'
<1> DEFINE n == Len(stack)
<1>0. n - 1 \in 0 .. n /\ n \in Nat \ {0} /\ n \in DOMAIN stack /\ Top = stack[n] /\ n - 1 < n
  BY Stack DEF IInv, Top
<1>1. /\ Len(stack') = n - 1
      /\ \A l \in 1 .. n - 1 : stack'[l] = stack[l]
      /\ \A kinds : Levels(kinds, stack') = {l \in Levels(kinds, stack) : l <= n - 1}
  BY <1>0, CutLevels DEF IInv, Pop
<1>2. \A kinds : Levels(kinds, stack) \subseteq 1 .. n
  BY LevelsFinite DEF IInv, TypeOK
<1>3. \A kinds : Levels(kinds, stack') = Levels(kinds, stack) \ {n}
  BY <1>0, <1>1, <1>2
<1>4. \A kinds : Top.kind \notin kinds => Levels(kinds, stack') = Levels(kinds, stack)
  BY <1>0, <1>3 DEF Levels
<1>5. /\ Levels({"body"}, stack') = Levels({"body"}, stack)
      /\ Levels({"catch"}, stack') = Levels({"catch"}, stack)
      /\ Levels({"arms"}, stack') = Levels({"arms"}, stack)
      /\ Top.kind # "finally" => /\ Levels(TryKind, stack') = Levels(TryKind, stack)
                                 /\ Levels({"arms", "finally"}, stack') = Levels({"arms", "finally"}, stack)
      /\ Levels(TryKind, stack') \subseteq Levels(TryKind, stack)
  BY <1>3, <1>4 DEF TryKind
<1>6. Levels({"arms"}, stack) = {}
  BY NoArmsBelow DEF IInv
<1> HIDE DEF n
<1>7. StackInv'
  BY <1>5, <1>6 DEF IInv, StackInv
<1>8. DepthAccounted' /\ NoAbortInsideTry'
  BY <1>5 DEF IInv, DepthAccounted, NoAbortInsideTry
<1>9. PendingIsWatched'
  <2>1. depth > 0 /\ ~returned => Levels(TryKind, stack') # {}
    <3>1. Levels({"body"}, stack') \subseteq Levels(TryKind, stack')
      BY SomeTry DEF TryKind
    <3>2. QED
      BY <1>5, <3>1, DepthTells DEF IInv
  <2>2. QED
    BY <1>5, <2>1 DEF IInv, PendingIsWatched
<1>10. ASSUME Plain' PROVE PlainInv'
  <2>1. PlainInv
    BY <1>10 DEF IInv, Plain
  <2>2. (\A l \in Handlers' : \A m \in Levels(TryKind, stack') : m <= l) /\ FinallyRan'
    BY <1>5, <2>1 DEF PlainInv, Handlers, FinallyRan
  <2>3. CASE Top.kind \in {"call", "block"}
    BY <1>5, <2>1, <2>2, <2>3 DEF PlainInv, InBody
  <2>4. CASE Top.kind = "finally"
    BY <2>2, <2>4 DEF PlainInv
  <2>5. QED
    BY <2>3, <2>4
<1>11. ASSUME Plain', MaxArms <= 1 PROVE OneArmInv'
  <2>1. OneArmInv
    BY <1>11 DEF IInv, Plain
  <2>2. DOMAIN stack' = 1 .. n - 1 /\ DOMAIN stack' \subseteq DOMAIN stack
    BY <1>0, <1>1, Stack DEF IInv, TypeOK, n
  <2>3. \A l \in Levels({"catch"}, stack') : l \in DOMAIN stack'
    BY DEF Levels
  <2>4. QED
    BY <1>1, <1>5, <1>6, <2>1, <2>2, <2>3 DEF OneArmInv, CatchesOwnBody, Handlers
<1>12. QED
  BY <1>7, <1>8, <1>9, <1>10, <1>11 DEF IInv

\* The error is reported and the process ends.
LEMMA ExitStep ==
  ASSUME IInv, TypeOK', ~exited, exited', depth = 0,
         UNCHANGED <<features, depth, stack, left, returned>>,
         Levels({"arms"}, stack) = {},
         Plain => Levels({"catch"}, stack) = {}
  PROVE  IInv'
<1>1. Levels({"body"}, stack) = {}
  BY DepthTells DEF IInv
<1>2. StackInv' /\ DepthAccounted' /\ NoAbortInsideTry' /\ PendingIsWatched'
  BY <1>1 DEF IInv, StackInv, DepthAccounted, NoAbortInsideTry, PendingIsWatched
<1>3. ASSUME Plain' PROVE PlainInv'
  <2>1. PlainInv /\ Levels({"catch"}, stack) = {}
    BY <1>3 DEF IInv, Plain
  <2>2. Levels({"body", "arms", "catch"}, stack) = {}
    BY <1>1, <2>1 DEF Levels
  <2>3. QED
    BY <2>1, <2>2 DEF PlainInv, FinallyRan, Handlers
<1>4. ASSUME Plain', MaxArms <= 1 PROVE OneArmInv'
  BY <1>4 DEF IInv, Plain, OneArmInv, CatchesOwnBody, Handlers
<1>5. QED
  BY <1>2, <1>3, <1>4 DEF IInv

-----------------------------------------------------------------------------
(* The actions.                                                            *)

LEMMA RaiseStep ==
  ASSUME IInv, TypeOK', MayRun, NEW e \in Err, Raise(e), UNCHANGED features
  PROVE  IInv'
<1>1. ~exited /\ (stack # <<>> => Top.kind # "arms")
  BY DEF MayRun
<1>2. CASE depth > 0
  BY <1>1, <1>2, RanAgrees, RunStep DEF IInv, Raise
<1>3. CASE ~(depth > 0)
  <2>1. depth = 0
    BY <1>3 DEF IInv, TypeOK
  <2>2. Levels({"body"}, stack) = {}
    BY <1>1, <2>1, DepthTells DEF IInv
  <2>3. Levels({"arms"}, stack) = {}
    BY <1>1, NoArmsBelow DEF IInv
  <2>4. Plain => Levels({"catch"}, stack) = {}
    BY <2>2 DEF Raise, MayRaise, Plain
  <2>5. exited' /\ UNCHANGED <<features, depth, stack, left, returned>>
    BY <1>3 DEF Raise
  <2>6. QED
    BY <1>1, <2>1, <2>3, <2>4, <2>5, ExitStep
<1>4. QED
  BY <1>2, <1>3

LEMMA ThrowStep ==
  ASSUME IInv, TypeOK', NEW type \in Type, Throw(type)
  PROVE  IInv'
<1>1. thrown + 1 \in Err
  BY ExceptionsAssumption DEF IInv, TypeOK, Throw, Err
<1>2. Raise(thrown + 1) /\ MayRun /\ UNCHANGED features
  BY DEF Throw
<1>3. QED
  BY <1>1, <1>2, RaiseStep

LEMMA PropagateStep ==
  ASSUME IInv, TypeOK', Propagate
  PROVE  IInv'
<1> DEFINE e == IF handled # NoErr THEN handled ELSE pending
<1>1. MayRun /\ UNCHANGED features
  BY DEF Propagate, programVars
<1>2. CASE e = NoErr /\ stack' = Ran /\ UNCHANGED <<runtimeVars, exited, history>>
  BY <1>1, <1>2, RanAgrees, RunStep DEF IInv, MayRun, runtimeVars, history
<1>3. CASE e # NoErr /\ Raise(e)
  <2>1. e \in Err
    BY <1>3 DEF IInv, TypeOK
  <2> HIDE DEF e
  <2>2. QED
    BY <1>1, <1>3, <2>1, RaiseStep
<1>4. QED
  BY <1>2, <1>3 DEF Propagate

LEMMA OtherStep ==
  ASSUME IInv, TypeOK', OtherStatement
  PROVE  IInv'
BY RanAgrees, RunStep DEF IInv, OtherStatement, MayRun, runtimeVars, programVars, history

LEMMA BeginBlockStep ==
  ASSUME IInv, TypeOK', NEW kind \in {"call", "block"}, BeginBlock(kind)
  PROVE  IInv'
<1>1. <<>> \in Seq(Type \cup {CatchAll}) /\ Len(<<>>) <= MaxArms
  BY ExceptionsAssumption
<1>2. Enter(kind, <<>>) /\ ~exited /\ (stack # <<>> => Top.kind # "arms")
      /\ UNCHANGED <<features, depth, pending, raisedIn, left, returned, exited>>
  BY DEF BeginBlock, Enter, MayRun, runtimeVars, programVars, history
<1>3. /\ Len(stack') = Len(stack) + 1 /\ Agrees(stack', Len(stack))
      /\ stack'[Len(stack) + 1].kind = kind /\ stack'[Len(stack) + 1].arms = <<>>
  BY <1>1, <1>2, EnterType DEF IInv
<1>4. kind # "body"
  OBVIOUS
<1>5. QED
  BY <1>1, <1>2, <1>3, <1>4, EnterStep

LEMMA BeginTryStep ==
  ASSUME IInv, TypeOK', NEW arms \in Arms, BeginTry(arms)
  PROVE  IInv'
<1>1. arms \in Seq(Type \cup {CatchAll}) /\ Len(arms) <= MaxArms
  BY ArmsType
<1>2. Enter("body", arms) /\ ~exited /\ (stack # <<>> => Top.kind # "arms")
      /\ UNCHANGED <<features, pending, raisedIn, left, returned, exited>>
  BY DEF BeginTry, Enter, MayRun, programVars, history
<1>3. /\ Len(stack') = Len(stack) + 1 /\ Agrees(stack', Len(stack))
      /\ stack'[Len(stack) + 1].kind = "body" /\ stack'[Len(stack) + 1].arms = arms
  BY <1>1, <1>2, EnterType DEF IInv, TryKind
<1>4. Plain => pending = NoErr /\ Levels({"catch"}, stack) = {}
  BY DEF BeginTry, MayTry, Plain
<1>5. depth' = depth + 1
  BY DEF BeginTry
<1>6. QED
  BY <1>1, <1>2, <1>3, <1>4, <1>5, EnterStep

LEMMA EndBlockStep ==
  ASSUME IInv, TypeOK', EndBlock
  PROVE  IInv'
BY PopStep DEF EndBlock, At, runtimeVars, programVars, history

\* A program that returns from inside a try is not a plain one.
LEMMA ReturnStep ==
  ASSUME IInv, TypeOK', ReturnFromTry
  PROVE  IInv'
<1> DEFINE call == Innermost(Levels({"call"}, stack))
           bodies == Levels({"body"}, stack)
           cut == {l \in bodies : l > call}
           kept == {l \in bodies : l <= call - 1}
<1>1. /\ call \in Levels({"call"}, stack) /\ call \in 1 .. Len(stack) /\ Len(stack) \in Nat
  BY LevelsFinite, InnermostLevel, Stack, ZenonT(60) DEF ReturnFromTry, IInv, TypeOK, Innermost
<1>2. \A kinds : Levels(kinds, stack') = {l \in Levels(kinds, stack) : l <= call - 1}
  <2>1. stack' = SubSeq(stack, 1, call - 1) /\ call - 1 \in 0 .. Len(stack)
    BY <1>1 DEF ReturnFromTry
  <2>2. QED
    BY <2>1, CutLevels DEF IInv
<1>3. bodies \subseteq 1 .. Len(stack) /\ IsFiniteSet(bodies) /\ call \notin bodies
  BY <1>1, LevelsFinite DEF IInv, TypeOK, Levels
<1>4. Cardinality(bodies) = Cardinality(kept) + Cardinality(cut)
  <2>1. IsFiniteSet(kept) /\ IsFiniteSet(cut)
    BY <1>3, FS_Subset
  <2>2. bodies = kept \cup cut /\ kept \cap cut = {}
    BY <1>1, <1>3
  <2>3. /\ Cardinality(kept \cup cut)
             = Cardinality(kept) + Cardinality(cut) - Cardinality(kept \cap cut)
        /\ Cardinality({}) = 0 /\ Cardinality(kept) \in Nat /\ Cardinality(cut) \in Nat
    BY <2>1, FS_Union, FS_EmptySet, FS_CardinalityType
  <2> HIDE DEF kept, cut, bodies
  <2>4. Cardinality(kept \cap cut) = 0 /\ Cardinality(bodies) = Cardinality(kept \cup cut)
    BY <2>2, <2>3
  <2>5. QED
    BY <2>3, <2>4
<1>5. Cardinality(kept) \in Nat /\ Cardinality(cut) \in Nat
  BY <1>3, FS_Subset, FS_CardinalityType
<1>6. /\ left' = left + Cardinality(cut) /\ returned' = TRUE /\ "return_in_try" \in features
      /\ UNCHANGED <<depth, features>> /\ ~exited /\ ~exited'
  BY DEF ReturnFromTry, MayRun, runtimeVars, programVars
<1>7. Levels({"body"}, stack') = kept
  BY <1>2
<1> HIDE DEF kept, cut, bodies, call
<1>8. DepthAccounted'
  <2>1. depth = Cardinality(bodies) + left /\ left \in Nat
    BY <1>6 DEF IInv, TypeOK, DepthAccounted, bodies
  <2>2. depth = Cardinality(kept) + left'
    BY <1>4, <1>5, <1>6, <2>1
  <2>3. QED
    BY <1>6, <1>7, <2>2 DEF DepthAccounted
<1>9. StackInv'
  <2>1. Levels({"arms"}, stack') = {}
    <3>1. ASSUME NEW l \in Levels({"arms"}, stack') PROVE FALSE
      <4>1. l = Len(stack) /\ l <= call - 1
        BY <1>2, <3>1 DEF IInv, StackInv
      <4>2. QED
        BY <1>1, <4>1
    <3>2. QED
      BY <3>1
  <2>2. QED
    BY <1>6, <2>1 DEF StackInv
<1>10. NoAbortInsideTry' /\ PendingIsWatched' /\ ~Plain'
  BY <1>6 DEF NoAbortInsideTry, PendingIsWatched, Plain
<1>11. QED
  BY <1>8, <1>9, <1>10 DEF IInv, Plain

\* The body that ends is the innermost one, so that the error it leaves pending
\* was raised in it.
LEMMA EndBodyStep ==
  ASSUME IInv, TypeOK', EndBody
  PROVE  IInv'
<1>1. /\ ~exited /\ stack # <<>> /\ Top.kind = "body"
      /\ UNCHANGED <<features, left, returned, exited, pending, raisedIn>>
  BY DEF EndBody, At, programVars, history
<1>2. /\ Len(stack') = Len(stack) /\ Agrees(stack', Len(stack) - 1)
      /\ stack'[Len(stack)] = [Top EXCEPT !.kind = "arms"]
  BY <1>1, TopFrames, RetopType DEF IInv, EndBody
<1>3. stack'[Len(stack)].kind = "arms" /\ stack'[Len(stack)].arms = Top.arms
  BY <1>1, <1>2, Stack DEF IInv, Frame
<1>4. Len(stack) \in Levels({"body"}, stack)
  BY <1>1, Stack DEF IInv, Levels, Top
<1>5. depth' = depth - 1
  <2>1. depth # 0 /\ depth \in Nat
    BY <1>1, <1>4, DepthTells DEF IInv, TypeOK
  <2>2. QED
    BY <2>1 DEF EndBody
<1>6. Plain => pending = NoErr \/ raisedIn = Len(stack)
  <2>1. InBody(stack) = Len(stack)
    <3>1. Levels({"body"}, stack) \subseteq 1 .. Len(stack) /\ Len(stack) \in Nat
      BY LevelsFinite, Stack DEF IInv, TypeOK
    <3>2. InBody(stack) \in 1 .. Len(stack) /\ Len(stack) <= InBody(stack)
      BY <1>4, <3>1, InnermostLevel DEF InBody
    <3>3. QED
      BY <3>1, <3>2
  <2>2. ~\E l \in Levels({"arms", "finally"}, stack) : \A m \in Levels({"body"}, stack) : m < l
    <3>1. Levels({"arms", "finally"}, stack) \subseteq 1 .. Len(stack) /\ Len(stack) \in Nat
      BY LevelsFinite, Stack DEF IInv, TypeOK
    <3>2. QED
      BY <1>4, <3>1
  <2>3. QED
    BY <1>1, <2>1, <2>2 DEF IInv, PlainInv
<1>7. QED
  BY <1>1, <1>2, <1>3, <1>5, <1>6, PhaseStep DEF TryKind

LEMMA SkipArmStep ==
  ASSUME IInv, TypeOK', SkipArm
  PROVE  IInv'
<1>1. /\ ~exited /\ stack # <<>> /\ Top.kind = "arms"
      /\ UNCHANGED <<features, depth, left, returned, exited, pending, raisedIn>>
  BY DEF SkipArm, At, runtimeVars, programVars, history
<1>2. /\ Len(stack') = Len(stack) /\ Agrees(stack', Len(stack) - 1)
      /\ stack'[Len(stack)] = [Top EXCEPT !.arm = @ + 1]
  BY <1>1, TopFrames, RetopType DEF IInv, SkipArm
<1>3. /\ stack'[Len(stack)].kind = "arms" /\ stack'[Len(stack)].arms = Top.arms
      /\ stack'[Len(stack)].arm > 1
  BY <1>1, <1>2, Stack DEF IInv, Frame
<1>4. QED
  BY <1>1, <1>2, <1>3, PhaseStep DEF TryKind

\* With one arm for each try the arm that is entered is the first one tested, for
\* the error the body left.
LEMMA EnterArmStep ==
  ASSUME IInv, TypeOK', EnterArm
  PROVE  IInv'
<1>1. /\ ~exited /\ stack # <<>> /\ Top.kind = "arms" /\ pending # NoErr
      /\ pending' = NoErr /\ Top.arm <= Len(Top.arms)
      /\ UNCHANGED <<features, depth, left, returned, exited>>
  BY DEF EnterArm, At, Matches, programVars
<1>2. /\ Len(stack') = Len(stack) /\ Agrees(stack', Len(stack) - 1)
      /\ stack'[Len(stack)] = [Top EXCEPT !.kind = "catch", !.arm = @ + 1, !.err = pending,
                                          !.origin = raisedIn, !.fresh = TRUE]
  BY <1>1, TopFrames, RetopType DEF IInv, EnterArm
<1>3. /\ stack'[Len(stack)].kind = "catch" /\ stack'[Len(stack)].arms = Top.arms
      /\ stack'[Len(stack)].arm > 1 /\ stack'[Len(stack)].origin = raisedIn
  BY <1>1, <1>2, Stack DEF IInv, Frame
<1>4. Plain /\ MaxArms <= 1 => raisedIn = Len(stack)
  <2>1. Len(stack) \in Levels({"arms"}, stack) /\ Len(stack) \in DOMAIN stack /\ Top = stack[Len(stack)]
    BY <1>1, Stack DEF IInv, Levels, Top
  <2>2. Top.arm \in Nat /\ Len(Top.arms) \in Nat
    BY <1>1, Stack DEF IInv, Frame
  <2>3. QED
    BY <1>1, <2>1, <2>2 DEF IInv, OneArmInv
<1>5. QED
  BY <1>1, <1>2, <1>3, <1>4, PhaseStep DEF TryKind

LEMMA EndCatchStep ==
  ASSUME IInv, TypeOK', EndCatch
  PROVE  IInv'
<1>1. /\ ~exited /\ stack # <<>> /\ Top.kind = "catch"
      /\ UNCHANGED <<features, depth, left, returned, exited, pending, raisedIn>>
  BY DEF EndCatch, At, programVars, history
<1>2. /\ Len(stack') = Len(stack) /\ Agrees(stack', Len(stack) - 1)
      /\ stack'[Len(stack)] = [Top EXCEPT !.kind = "arms", !.err = NoErr, !.origin = 0]
  BY <1>1, TopFrames, RetopType DEF IInv, EndCatch
<1>3. /\ stack'[Len(stack)].kind = "arms" /\ stack'[Len(stack)].arms = Top.arms
      /\ stack'[Len(stack)].arm = Top.arm
  BY <1>1, <1>2, Stack DEF IInv, Frame
<1>4. Plain /\ MaxArms <= 1 => Top.arm > 1
  <2>1. Len(stack) \in Handlers /\ Top = stack[Len(stack)]
    BY <1>1, Stack DEF IInv, Handlers, Levels, Top
  <2>2. QED
    BY <2>1 DEF IInv, OneArmInv
<1>5. QED
  BY <1>1, <1>2, <1>3, <1>4, PhaseStep DEF TryKind

LEMMA BeginFinallyStep ==
  ASSUME IInv, TypeOK', BeginFinally
  PROVE  IInv'
<1>1. /\ ~exited /\ stack # <<>> /\ Top.kind = "arms"
      /\ UNCHANGED <<features, depth, left, returned, exited, pending, raisedIn>>
  BY DEF BeginFinally, At, runtimeVars, programVars, history
<1>2. /\ Len(stack') = Len(stack) /\ Agrees(stack', Len(stack) - 1)
      /\ stack'[Len(stack)] = [Top EXCEPT !.kind = "finally", !.fresh = TRUE]
  BY <1>1, TopFrames, RetopType DEF IInv, BeginFinally
<1>3. stack'[Len(stack)].kind = "finally" /\ stack'[Len(stack)].arms = Top.arms
  BY <1>1, <1>2, Stack DEF IInv, Frame
<1>4. QED
  BY <1>1, <1>2, <1>3, PhaseStep DEF TryKind

\* In a plain program a finally that is over is inside of no catch body.
LEMMA FinishTryStep ==
  ASSUME IInv, TypeOK', FinishTry
  PROVE  IInv'
<1>1. /\ ~exited /\ stack # <<>> /\ Top.kind = "finally"
      /\ UNCHANGED <<features, depth, left, returned, pending>>
  BY DEF FinishTry, At, runtimeVars, programVars
<1>2. CASE pending = NoErr \/ depth > 0
  <2>1. /\ stack' = Pop /\ UNCHANGED exited
        /\ raisedIn' = IF pending = NoErr THEN raisedIn ELSE InBody(Pop)
    BY <1>2 DEF FinishTry
  <2>2. pending = NoErr \/ (depth > 0 /\ raisedIn' = InBody(Pop))
    BY <1>2, <2>1
  <2>3. QED
    BY <1>1, <2>1, <2>2, PopStep
<1>3. CASE ~(pending = NoErr \/ depth > 0)
  <2>1. depth = 0 /\ exited' /\ UNCHANGED stack
    BY <1>3 DEF IInv, TypeOK, FinishTry
  <2>2. Levels({"arms"}, stack) = {}
    BY <1>1, NoArmsBelow DEF IInv
  <2>3. ASSUME Plain, NEW l \in Levels({"catch"}, stack) PROVE FALSE
    <3>1. Len(stack) \in Levels(TryKind, stack) /\ Top = stack[Len(stack)]
      BY <1>1, Stack DEF IInv, Levels, Top, TryKind
    <3>2. Len(stack) <= l
      BY <2>3, <3>1 DEF IInv, PlainInv, Handlers
    <3>3. l \in 1 .. Len(stack) /\ Len(stack) \in Nat /\ stack[l].kind = "catch"
      BY <2>3, Stack DEF IInv, Levels
    <3>4. l = Len(stack)
      BY <3>2, <3>3
    <3>5. QED
      BY <1>1, <3>1, <3>3, <3>4
  <2>4. QED
    BY <1>1, <2>1, <2>2, <2>3, ExitStep
<1>4. QED
  BY <1>2, <1>3

-----------------------------------------------------------------------------
(* The theorems.                                                           *)

LEMMA InitInv == Init => IInv
<1> SUFFICES ASSUME Init PROVE IInv
  OBVIOUS
<1>1. TypeOK
  <2>1. (CHOOSE type \in Type : TRUE) \in Type
    BY ExceptionsAssumption
  <2>2. typeOf \in [Err -> Type]
    BY <2>1 DEF Init
  <2>3. 0 \in 0 .. MaxErrors /\ outer \in Seq(Err) /\ stack \in Seq(Frame)
    BY ExceptionsAssumption DEF Init
  <2>4. QED
    BY <2>2, <2>3 DEF Init, TypeOK
<1>2. \A kinds : Levels(kinds, stack) = {}
  BY DEF Init, Levels
<1>3. Cardinality({}) = 0
  BY FS_EmptySet
<1>4. StackInv /\ DepthAccounted /\ NoAbortInsideTry /\ PendingIsWatched
  <2>1. StackInv
    BY <1>2 DEF Init, StackInv
  <2>2. Cardinality(Levels({"body"}, stack)) = 0
    BY <1>2, <1>3
  <2>3. DepthAccounted
    BY <2>2 DEF Init, DepthAccounted
  <2>4. NoAbortInsideTry /\ PendingIsWatched
    BY DEF Init, NoAbortInsideTry, PendingIsWatched
  <2>5. QED
    BY <2>1, <2>3, <2>4
<1>5. PlainInv
  BY <1>2 DEF Init, PlainInv, FinallyRan, Handlers
<1>6. OneArmInv
  <2>1. DOMAIN stack = {}
    BY DEF Init
  <2>2. QED
    BY <1>2, <2>1 DEF OneArmInv, CatchesOwnBody, Handlers
<1>7. QED
  BY <1>1, <1>4, <1>5, <1>6 DEF IInv

LEMMA NextInv == IInv /\ [Next]_vars => IInv'
<1> SUFFICES ASSUME IInv, [Next]_vars PROVE IInv'
  OBVIOUS
<1>1. CASE Next
  <2>1. TypeOK'
    BY <1>1, TypeStep DEF IInv
  <2>2. CASE \E type \in Type : Throw(type)
    BY <2>1, <2>2, ThrowStep
  <2>3. CASE Propagate
    BY <2>1, <2>3, PropagateStep
  <2>4. CASE OtherStatement
    BY <2>1, <2>4, OtherStep
  <2>5. CASE \E kind \in {"call", "block"} : BeginBlock(kind)
    BY <2>1, <2>5, BeginBlockStep
  <2>6. CASE EndBlock
    BY <2>1, <2>6, EndBlockStep
  <2>7. CASE ReturnFromTry
    BY <2>1, <2>7, ReturnStep
  <2>8. CASE \E arms \in Arms : BeginTry(arms)
    BY <2>1, <2>8, BeginTryStep
  <2>9. CASE EndBody
    BY <2>1, <2>9, EndBodyStep
  <2>10. CASE SkipArm
    BY <2>1, <2>10, SkipArmStep
  <2>11. CASE EnterArm
    BY <2>1, <2>11, EnterArmStep
  <2>12. CASE EndCatch
    BY <2>1, <2>12, EndCatchStep
  <2>13. CASE BeginFinally
    BY <2>1, <2>13, BeginFinallyStep
  <2>14. CASE FinishTry
    BY <2>1, <2>14, FinishTryStep
  <2>15. QED
    BY <1>1, <2>2, <2>3, <2>4, <2>5, <2>6, <2>7, <2>8, <2>9, <2>10, <2>11, <2>12, <2>13, <2>14 DEF Next
<1>2. CASE UNCHANGED vars
  <2>1. /\ \A kinds : Levels(kinds, stack') = Levels(kinds, stack)
        /\ UNCHANGED <<features, depth, pending, exited, stack, raisedIn, left, returned>>
    BY <1>2 DEF vars, runtimeVars, programVars, history
  <2>2. TypeOK'
    BY <1>2 DEF IInv, TypeOK, vars, runtimeVars, programVars, history
  <2>3. StackInv' /\ DepthAccounted' /\ NoAbortInsideTry' /\ PendingIsWatched'
    BY <2>1 DEF IInv, StackInv, DepthAccounted, NoAbortInsideTry, PendingIsWatched
  <2>4. ASSUME Plain' PROVE PlainInv'
    BY <2>1, <2>4 DEF IInv, Plain, PlainInv, FinallyRan, Handlers, InBody
  <2>5. ASSUME Plain', MaxArms <= 1 PROVE OneArmInv'
    BY <2>1, <2>5 DEF IInv, Plain, OneArmInv, CatchesOwnBody, Handlers
  <2>6. QED
    BY <2>2, <2>3, <2>4, <2>5 DEF IInv
<1>3. QED
  BY <1>1, <1>2

\* The inductive invariant holds of every program, whatever constructs it uses.
THEOREM InductiveInvariant == Spec => []IInv
<1>1. QED
  BY InitInv, NextInv, PTL DEF Spec

\* Every variable keeps its type: no error but those created is ever pending,
\* handled or put aside by nv_push_handler_error.
THEOREM TypeCorrect == Spec => []TypeOK
<1>1. IInv => TypeOK
  BY DEF IInv
<1>2. QED
  BY <1>1, InductiveInvariant, PTL

\* nv_nir_try_depth counts the try bodies the program is inside of and those it
\* left by a return, however deep it nests and however many errors it raises.
THEOREM DepthExact == Spec => []DepthAccounted
<1>1. IInv => DepthAccounted
  BY DEF IInv
<1>2. QED
  BY <1>1, InductiveInvariant, PTL

\* nv_throw_exception's exit never ends a process that is inside a try body.
THEOREM AbortsOutsideTries == Spec => []NoAbortInsideTry
<1>1. IInv => NoAbortInsideTry
  BY DEF IInv
<1>2. QED
  BY <1>1, InductiveInvariant, PTL

\* A program that does not return from inside a try leaves no error behind: while
\* nv_has_exception is set some try around the program will look at it.
THEOREM ErrorsWatched == Spec => []PendingIsWatched
<1>1. IInv => PendingIsWatched
  BY DEF IInv
<1>2. QED
  BY <1>1, InductiveInvariant, PTL

\* A plain program that gives up has skipped the finally of no try around the
\* error, however many arms its tries have.
THEOREM FinallyBeforeExit == Spec => []PlainFinallyRan
<1>1. IInv => PlainFinallyRan
  BY DEF IInv, PlainInv, PlainFinallyRan
<1>2. QED
  BY <1>1, InductiveInvariant, PTL

\* A catch body of a plain program whose tries have one arm each runs for an
\* error of its own try's body. With two arms this is false: the second one is
\* tested again for what the first one raised.
THEOREM CatchesTheBody ==
  ASSUME MaxArms <= 1
  PROVE  Spec => []PlainCatchesOwnBody
<1>1. IInv => PlainCatchesOwnBody
  BY DEF IInv, OneArmInv, PlainCatchesOwnBody
<1>2. QED
  BY <1>1, InductiveInvariant, PTL
=============================================================================
