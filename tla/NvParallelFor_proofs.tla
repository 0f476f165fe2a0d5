------------------------ MODULE NvParallelFor_proofs ------------------------
(***************************************************************************)
(* Proofs about NvParallelFor, for any limit on the workers, any integer   *)
(* type and any totals, cpu counts and free slots.  IInv is the inductive  *)
(* invariant: LoopInv says where the caller's loops are and which threads  *)
(* exist, ProgressInv which iterations each chunk has run.                 *)
(***************************************************************************)
EXTENDS NvParallelFor, FiniteSetTheorems, TLAPS

Working == total > 0 /\ workers > 0

LoopInv ==
  /\ \/ Working /\ pc # "idle"
     \/ workers = 0 /\ started = 0 /\ i = 0 /\ total <= 0 /\ pc \in {"idle", "returned"}
  /\ \A w \in Worker : thread[w] # "none" <=> w < started
  /\ \A w \in Worker : w < started => HasChunk(w)
  /\ pc \in {"create", "pthread_create"} => i = started
  /\ pc \in {"pthread_create", "inline_run"} => HasChunk(i)
  /\ pc \in {"inline", "inline_run"} =>
       started <= i /\ \A w \in Worker : w < i => HasChunk(w)
  /\ pc = "join" => \A w \in Worker : w < i => thread[w] \in {"none", "ended"}
  /\ pc = "returned" => \A w \in Worker : thread[w] \in {"none", "ended"}

\* Chunk w has been given to a thread, or the caller has begun to run it.
Begun(w) ==
  \/ w < started
  \/ pc = "inline" /\ w < i
  \/ pc = "inline_run" /\ w <= i
  \/ pc \in {"join", "returned"} /\ HasChunk(w)

\* Chunk w has been run to its end.
Ended(w) ==
  \/ w < started /\ thread[w] \in {"dropping", "ended"}
  \/ w >= started /\ Begun(w) /\ ~(pc = "inline_run" /\ w = i)

RanBy(w, k) == Begun(w) /\ Start(w) <= k /\ k < pos[w]

ProgressInv ==
  /\ \A w \in Worker : Begun(w) => Start(w) <= pos[w] /\ pos[w] <= End(w)
  /\ \A w \in Worker : Ended(w) => pos[w] = End(w)
  /\ \A k \in Iteration : ran[k] = IF \E w \in Worker : RanBy(w, k) THEN 1 ELSE 0

IInv == TypeOK /\ LoopInv /\ ProgressInv /\ RefCountExact

-----------------------------------------------------------------------------
(* The arithmetic of the chunks.                                           *)

\* obj_to_i32 yields an integer, whatever the boxed value.
LEMMA ToInt32Type == ASSUME NEW n \in Int PROVE ToInt32(n) \in Int
<1>1. 2 * (IntMax + 1) \in Nat \ {0}
  BY ParallelForAssumption
<1>2. QED
  BY <1>1, ParallelForAssumption DEF ToInt32

\* The workers of a call that has something to do.
LEMMA WorkersForType ==
  ASSUME NEW n \in Int, n > 0, NEW cpus \in Int, NEW free \in Nat
  PROVE  WorkersFor(n, cpus, free) \in 1 .. MaxWorkers
BY ParallelForAssumption DEF WorkersFor, Smaller

\* per is rounded up, so that the chunks are long enough for every iteration.
LEMMA PerWorkerType ==
  ASSUME NEW n \in Nat \ {0}, NEW ws \in Nat \ {0}
  PROVE  PerWorker(n, ws) \in Nat \ {0} /\ n <= ws * PerWorker(n, ws)
BY DEF PerWorker

LEMMA NextMultiple ==
  ASSUME NEW per \in Nat, NEW w \in Nat, NEW x \in Nat, w < x
  PROVE  w * per + per <= x * per
OBVIOUS

\* A chunk that begins before the total is not empty and ends by the total.
LEMMA ChunkBounds ==
  ASSUME TypeOK, Working, NEW w \in Nat
  PROVE  /\ Start(w) \in Nat /\ End(w) \in Nat
         /\ End(w) <= total
         /\ Start(w) < total => Start(w) < End(w)
<1>1. PerWorker(total, workers) \in Nat \ {0}
  BY PerWorkerType, ParallelForAssumption DEF TypeOK, Working
<1>2. w * PerWorker(total, workers) \in Nat
  BY <1>1
<1>3. QED
  BY <1>1, <1>2 DEF Start, End, ChunkStart, ChunkEnd, Smaller, TypeOK, Working

\* The chunks come in order.
LEMMA ChunksOrdered ==
  ASSUME TypeOK, Working, NEW w \in Nat, NEW x \in Nat, w < x
  PROVE  End(w) <= Start(x)
<1>1. PerWorker(total, workers) \in Nat \ {0}
  BY PerWorkerType, ParallelForAssumption DEF TypeOK, Working
<1>2. w * PerWorker(total, workers) + PerWorker(total, workers) <= x * PerWorker(total, workers)
  BY <1>1, NextMultiple
<1>3. w * PerWorker(total, workers) \in Nat /\ x * PerWorker(total, workers) \in Nat
  BY <1>1
<1>4. QED
  BY <1>1, <1>2, <1>3 DEF Start, End, ChunkStart, ChunkEnd, Smaller, TypeOK, Working

\* Where there is no chunk, none follows.
LEMMA NoChunkAfter ==
  ASSUME TypeOK, Working, NEW w \in Nat, NEW x \in Nat, w <= x, ~HasChunk(w)
  PROVE  ~HasChunk(x)
<1>1. CASE w = x
  BY <1>1
<1>2. CASE w < x
  <2>1. PerWorker(total, workers) \in Nat \ {0}
    BY PerWorkerType, ParallelForAssumption DEF TypeOK, Working
  <2>2. w * PerWorker(total, workers) + PerWorker(total, workers) <= x * PerWorker(total, workers)
    BY <1>2, <2>1, NextMultiple
  <2>3. w * PerWorker(total, workers) \in Nat /\ x * PerWorker(total, workers) \in Nat
    BY <2>1
  <2>4. QED
    BY <1>2, <2>1, <2>2, <2>3 DEF HasChunk, Start, ChunkStart, TypeOK, Working
<1>3. QED
  BY <1>1, <1>2

\* No iteration belongs to two chunks.
LEMMA ChunksDisjoint ==
  ASSUME TypeOK, Working, NEW w \in Nat, NEW x \in Nat, NEW k \in Nat,
         Start(w) <= k, k < End(w), Start(x) <= k, k < End(x)
  PROVE  w = x
<1>1. /\ Start(w) \in Nat /\ End(w) \in Nat /\ End(w) <= total
      /\ Start(x) \in Nat /\ End(x) \in Nat /\ End(x) <= total
  BY ChunkBounds
<1>2. ~(w < x)
  <2>1. SUFFICES ASSUME w < x PROVE FALSE
    OBVIOUS
  <2>2. End(w) <= Start(x)
    BY <2>1, ChunksOrdered
  <2>3. QED
    BY <1>1, <2>2 DEF TypeOK
<1>3. ~(x < w)
  <2>1. SUFFICES ASSUME x < w PROVE FALSE
    OBVIOUS
  <2>2. End(x) <= Start(w)
    BY <2>1, ChunksOrdered
  <2>3. QED
    BY <1>1, <2>2 DEF TypeOK
<1>4. QED
  BY <1>2, <1>3

\* Every iteration belongs to some chunk.
LEMMA ChunksCover ==
  ASSUME TypeOK, Working, NEW k \in Nat, k < total
  PROVE  \E w \in Worker : HasChunk(w) /\ Start(w) <= k /\ k < End(w)
<1> DEFINE per == PerWorker(total, workers)
           w == k \div per
<1>1. per \in Nat \ {0} /\ total <= workers * per
  BY PerWorkerType, ParallelForAssumption DEF TypeOK, Working
<1> HIDE DEF per
<1>2. w \in Nat /\ w * per <= k /\ k < w * per + per
  BY <1>1
<1> HIDE DEF w
<1>3. w < workers
  <2>1. SUFFICES ASSUME workers <= w PROVE FALSE
    BY <1>2 DEF TypeOK
  <2>2. workers * per <= w * per
    <3>1. workers \in Nat
      BY DEF TypeOK
    <3>2. CASE workers = w
      BY <3>2, <1>1, <1>2
    <3>3. CASE workers < w
      <4>1. workers * per + per <= w * per
        BY <3>1, <3>3, <1>1, <1>2, NextMultiple
      <4>2. QED
        BY <4>1, <3>1, <1>1, <1>2
    <3>4. QED
      BY <2>1, <3>1, <3>2, <3>3, <1>2
  <2>3. QED
    BY <1>1, <1>2, <2>2 DEF TypeOK
<1>4. w \in Worker
  BY <1>2, <1>3, ParallelForAssumption DEF TypeOK, Worker
<1>5. Start(w) = w * per /\ End(w) = Smaller(w * per + per, total)
  BY DEF Start, End, ChunkStart, ChunkEnd, per
<1>6. HasChunk(w) /\ Start(w) <= k /\ k < End(w)
  BY <1>1, <1>2, <1>3, <1>5 DEF HasChunk, Smaller, TypeOK
<1>7. QED
  BY <1>4, <1>6

-----------------------------------------------------------------------------
(* What a step leaves alone.                                               *)

\* The chunks are those of the total and the workers of the call.
LEMMA ChunksFixed ==
  ASSUME UNCHANGED <<total, workers>>
  PROVE  \A w : Start(w)' = Start(w) /\ End(w)' = End(w) /\ HasChunk(w)' = HasChunk(w)
BY DEF Start, End, HasChunk, ChunkStart, ChunkEnd, PerWorker, Smaller

LEMMA RunIterationType ==
  ASSUME TypeOK, NEW x \in Worker, RunIteration(x)
  PROVE  ran' \in [Iteration -> Nat] /\ pos' \in [Worker -> Nat]
<1> DEFINE k == pos[x]
<1>1. ran' = [ran EXCEPT ![k] = ran[k] + 1]
  BY DEF RunIteration
<1>2. \A j \in Iteration : ran[j] \in Nat
  BY DEF TypeOK
<1> HIDE DEF k
<1>3. ran' \in [Iteration -> Nat]
  <2>1. CASE k \in Iteration
    BY <1>1, <1>2, <2>1 DEF TypeOK
  <2>2. CASE k \notin Iteration
    <3>1. ran' = ran
      BY <1>1, <2>2 DEF TypeOK
    <3>2. QED
      BY <3>1 DEF TypeOK
  <2>3. QED
    BY <2>1, <2>2
<1>4. pos' \in [Worker -> Nat]
  BY DEF TypeOK, RunIteration
<1>5. QED
  BY <1>3, <1>4

LEMMA ProgressFrame ==
  ASSUME ProgressInv, UNCHANGED <<total, workers, pos, ran>>,
         \A w \in Worker : Begun(w)' <=> Begun(w),
         \A w \in Worker : Ended(w)' => Ended(w)
  PROVE  ProgressInv'
<1>1. \A w : Start(w)' = Start(w) /\ End(w)' = End(w)
  BY ChunksFixed
<1>2. \A w \in Worker : \A k \in Iteration : RanBy(w, k)' <=> RanBy(w, k)
  BY <1>1 DEF RanBy
<1>3. QED
  BY <1>1, <1>2 DEF ProgressInv

\* A chunk that begins has run nothing yet.
LEMMA ProgressBegin ==
  ASSUME TypeOK, Working, ProgressInv, UNCHANGED <<total, workers, ran>>,
         NEW x \in Worker, HasChunk(x), ~Begun(x),
         pos' = [pos EXCEPT ![x] = Start(x)],
         \A w \in Worker : Begun(w)' <=> Begun(w) \/ w = x,
         ~Ended(x)',
         \A w \in Worker : w # x => (Ended(w)' => Ended(w))
  PROVE  ProgressInv'
<1>1. \A w : Start(w)' = Start(w) /\ End(w)' = End(w)
  BY ChunksFixed
<1>2. Start(x) \in Nat /\ End(x) \in Nat /\ Start(x) < End(x)
  BY ChunkBounds DEF HasChunk, Worker
<1>3. pos'[x] = Start(x) /\ \A w \in Worker : w # x => pos'[w] = pos[w]
  BY DEF TypeOK
<1>4. \A w \in Worker : \A k \in Iteration : RanBy(w, k)' <=> RanBy(w, k)
  <2> SUFFICES ASSUME NEW w \in Worker, NEW k \in Iteration
               PROVE  RanBy(w, k)' <=> RanBy(w, k)
    OBVIOUS
  <2>1. CASE w = x
    BY <2>1, <1>1, <1>2, <1>3 DEF RanBy, Iteration
  <2>2. CASE w # x
    BY <2>2, <1>1, <1>3 DEF RanBy
  <2>3. QED
    BY <2>1, <2>2
<1>5. QED
  BY <1>1, <1>2, <1>3, <1>4 DEF ProgressInv

\* An iteration is run by the chunk it belongs to, and by no other.
LEMMA ProgressRun ==
  ASSUME TypeOK, Working, ProgressInv, UNCHANGED <<total, workers>>,
         NEW x \in Worker, Begun(x), ~Ended(x), RunIteration(x),
         \A w \in Worker : HasChunk(w) \/ ~Begun(w),
         \A w \in Worker : Begun(w)' <=> Begun(w),
         \A w \in Worker : Ended(w)' <=> Ended(w)
  PROVE  ProgressInv'
<1>1. \A w : Start(w)' = Start(w) /\ End(w)' = End(w)
  BY ChunksFixed
<1>2. \A w \in Worker : Start(w) \in Nat /\ End(w) \in Nat /\ pos[w] \in Nat
  <2> SUFFICES ASSUME NEW w \in Worker
               PROVE  Start(w) \in Nat /\ End(w) \in Nat /\ pos[w] \in Nat
    OBVIOUS
  <2>1. w \in Nat
    BY DEF Worker
  <2>2. QED
    BY <2>1, ChunkBounds DEF TypeOK
<1>3. /\ pos'[x] = pos[x] + 1
      /\ \A w \in Worker : w # x => pos'[w] = pos[w]
      /\ pos[x] < End(x) /\ Start(x) <= pos[x]
  BY DEF RunIteration, TypeOK, ProgressInv
<1>4. \A w \in Worker : Begun(w)' => Start(w)' <= pos'[w] /\ pos'[w] <= End(w)'
  BY <1>1, <1>2, <1>3 DEF ProgressInv
<1>5. \A w \in Worker : Ended(w)' => pos'[w] = End(w)'
  BY <1>1, <1>3 DEF ProgressInv
<1>6. ASSUME NEW k \in Iteration
      PROVE  ran'[k] = IF \E w \in Worker : RanBy(w, k)' THEN 1 ELSE 0
  <2>1. \A w \in Worker : w # x => (RanBy(w, k)' <=> RanBy(w, k))
    BY <1>1, <1>3 DEF RanBy
  <2>2. CASE k = pos[x]
    <3>1. ran'[k] = ran[k] + 1
      BY <2>2 DEF RunIteration, TypeOK
    <3>2. RanBy(x, k)'
      BY <1>1, <1>2, <1>3, <2>2 DEF RanBy
    <3>3. ASSUME NEW w \in Worker, RanBy(w, k) PROVE FALSE
      <4>1. Start(w) <= k /\ k < End(w)
        BY <3>3, <1>2 DEF RanBy, ProgressInv, Iteration
      <4>2. w = x
        BY <4>1, <1>2, <1>3, <2>2, ChunksDisjoint DEF Worker
      <4>3. QED
        BY <3>3, <4>2, <1>2, <2>2 DEF RanBy
    <3>4. ran[k] = 0
      BY <3>3 DEF ProgressInv
    <3>5. QED
      BY <3>1, <3>2, <3>4
  <2>3. CASE k # pos[x]
    <3>1. ran'[k] = ran[k]
      BY <2>3 DEF RunIteration, TypeOK
    <3>2. RanBy(x, k)' <=> RanBy(x, k)
      BY <1>1, <1>2, <1>3, <2>3 DEF RanBy, Iteration
    <3>3. \A w \in Worker : RanBy(w, k)' <=> RanBy(w, k)
      BY <2>1, <3>2
    <3>4. QED
      BY <3>1, <3>3 DEF ProgressInv
  <2>4. QED
    BY <2>2, <2>3
<1>7. QED
  BY <1>4, <1>5, <1>6 DEF ProgressInv

-----------------------------------------------------------------------------
(* The count of the closure.                                               *)

Living == {w \in Worker : Alive(w)}

LEMMA LivingFinite == IsFiniteSet(Living) /\ Cardinality(Living) \in Nat
<1>1. IsFiniteSet(Worker)
  BY FS_Interval, ParallelForAssumption DEF Worker
<1>2. QED
  BY <1>1, FS_Subset, FS_CardinalityType DEF Living

LEMMA LivingGains ==
  ASSUME TypeOK, NEW x \in Worker, thread[x] = "none",
         thread' = [thread EXCEPT ![x] = "running"]
  PROVE  Cardinality(Living') = Cardinality(Living) + 1
<1>1. x \notin Living /\ Living' = Living \cup {x}
  BY DEF Living, Alive, TypeOK
<1>2. QED
  BY <1>1, LivingFinite, FS_AddElement

LEMMA LivingLoses ==
  ASSUME TypeOK, NEW x \in Worker, thread[x] = "dropping",
         thread' = [thread EXCEPT ![x] = "ended"]
  PROVE  Cardinality(Living') = Cardinality(Living) - 1
<1>1. x \in Living /\ Living' = Living \ {x}
  BY DEF Living, Alive, TypeOK
<1>2. QED
  BY <1>1, LivingFinite, FS_RemoveElement

LEMMA CountOfLiving ==
  RefCountExact <=> rc = 1 + Cardinality(Living) + IF pc = "pthread_create" THEN 1 ELSE 0
BY DEF RefCountExact, Living

-----------------------------------------------------------------------------
(* The first state and the steps.                                          *)

LEMMA InitIInv == ParForInit => IInv
<1> SUFFICES ASSUME ParForInit PROVE IInv
  OBVIOUS
<1>1. TypeOK
  BY ParallelForAssumption DEF ParForInit, TypeOK, PC
<1>2. LoopInv
  BY ParallelForAssumption DEF ParForInit, LoopInv, Worker
<1>3. \A w \in Worker : ~Begun(w) /\ ~Ended(w)
  BY DEF ParForInit, Begun, Ended, Worker
<1>4. ProgressInv
  BY <1>3 DEF ParForInit, ProgressInv, RanBy
<1>5. RefCountExact
  <2>1. Living = {}
    BY DEF ParForInit, Living, Alive
  <2>2. QED
    BY <2>1, FS_EmptySet, CountOfLiving DEF ParForInit
<1>6. QED
  BY <1>1, <1>2, <1>4, <1>5 DEF IInv

\* Steps that leave every thread as it is leave the set of the living.
LEMMA LivingFrame == ASSUME UNCHANGED thread PROVE Living' = Living
BY DEF Living, Alive

LEMMA CallStep ==
  ASSUME IInv, NEW n \in Wanted, NEW cpus \in CpuCounts, NEW free \in FreeSlots,
         Call(n, cpus, free)
  PROVE  IInv'
<1> USE DEF IInv, Call, Goto
<1>1. /\ workers = 0 /\ started = 0 /\ i = 0
      /\ \A w \in Worker : ~Begun(w) /\ ~Begun(w)' /\ ~Ended(w)'
  BY DEF LoopInv, Begun, Ended, Worker, TypeOK
<1>2. TypeOK' /\ Working'
  <2>1. n \in Int /\ cpus \in Int /\ free \in Nat
    BY ParallelForAssumption
  <2>2. total' \in Int /\ total' > 0
    BY <2>1, ToInt32Type
  <2>3. workers' \in 1 .. MaxWorkers
    BY <2>1, <2>2, WorkersForType
  <2>4. QED
    BY <2>1, <2>2, <2>3, ParallelForAssumption DEF TypeOK, PC, Working
<1>3. LoopInv'
  BY <1>1, <1>2 DEF LoopInv, Worker
<1>4. ProgressInv'
  BY <1>1 DEF ProgressInv, RanBy
<1>5. RefCountExact'
  BY LivingFrame, CountOfLiving DEF RefCountExact, Living, Alive
<1>6. QED
  BY <1>2, <1>3, <1>4, <1>5

LEMMA CallNothingStep ==
  ASSUME IInv, NEW n \in Wanted, CallNothing(n)
  PROVE  IInv'
<1> USE DEF IInv, CallNothing, Goto
<1>1. /\ workers = 0 /\ started = 0 /\ i = 0
      /\ \A w \in Worker : ~Begun(w) /\ ~Begun(w)' /\ ~Ended(w)'
  BY DEF LoopInv, Begun, Ended, Worker, TypeOK, HasChunk
<1>2. TypeOK'
  BY ToInt32Type, ParallelForAssumption DEF TypeOK, PC
<1>3. LoopInv'
  BY <1>1, <1>2 DEF LoopInv, Worker, TypeOK
<1>4. ProgressInv'
  BY <1>1 DEF ProgressInv, RanBy
<1>5. RefCountExact'
  BY DEF RefCountExact, Living, Alive
<1>6. QED
  BY <1>2, <1>3, <1>4, <1>5

LEMMA PrepareChunkStep == ASSUME IInv, PrepareChunk PROVE IInv'
<1> USE DEF IInv, PrepareChunk, Goto, callerVars
<1>1. \A w : HasChunk(w)' = HasChunk(w)
  BY ChunksFixed
<1>2. TypeOK'
  BY DEF TypeOK, PC
<1>3. LoopInv'
  BY <1>1 DEF LoopInv, Working
<1>4. ProgressInv'
  BY ProgressFrame DEF Begun, Ended
<1>5. RefCountExact'
  BY LivingFrame, LivingFinite, CountOfLiving DEF RefCountExact, Living, Alive, TypeOK
<1>6. QED
  BY <1>2, <1>3, <1>4, <1>5

LEMMA ThreadStartedStep == ASSUME IInv, ThreadStarted PROVE IInv'
<1> USE DEF IInv, ThreadStarted, Goto, callerVars
<1>1. \A w : HasChunk(w)' = HasChunk(w)
  BY ChunksFixed
<1>2. /\ i \in Worker /\ i = started /\ HasChunk(i) /\ Working
      /\ thread[i] = "none" /\ Start(i) \in Nat
  <2>1. i \in Worker /\ i = started /\ HasChunk(i) /\ Working
    BY ParallelForAssumption DEF LoopInv, HasChunk, Worker, TypeOK
  <2>2. Start(i) \in Nat
    BY <2>1, ChunkBounds DEF Worker
  <2>3. QED
    BY <2>1, <2>2 DEF LoopInv, TypeOK
<1>3. TypeOK'
  BY <1>2, ParallelForAssumption DEF TypeOK, PC, Worker
<1>4. LoopInv'
  BY <1>1, <1>2 DEF LoopInv, Working, Worker, TypeOK
<1>5. ProgressInv'
  <2>1. PICK x \in Worker : x = i
    BY <1>2
  <2>2. /\ ~Begun(x)
        /\ \A w \in Worker : Begun(w)' <=> Begun(w) \/ w = x
        /\ ~Ended(x)'
        /\ \A w \in Worker : w # x => (Ended(w)' => Ended(w))
    BY <1>2, <2>1 DEF Begun, Ended, Worker, TypeOK
  <2>3. QED
    BY <1>2, <2>1, <2>2, ProgressBegin
<1>6. RefCountExact'
  <2>1. Cardinality(Living') = Cardinality(Living) + 1
    BY <1>2, LivingGains
  <2>2. QED
    BY <2>1, LivingFinite DEF RefCountExact, Living, Alive, TypeOK
<1>7. QED
  BY <1>3, <1>4, <1>5, <1>6

LEMMA ThreadRefusedStep == ASSUME IInv, ThreadRefused PROVE IInv'
<1> USE DEF IInv, ThreadRefused, Goto, callerVars
<1>1. \A w : HasChunk(w)' = HasChunk(w)
  BY ChunksFixed
<1>2. TypeOK'
  <2>1. rc - 1 \in Nat
    BY LivingFinite DEF RefCountExact, Living, TypeOK
  <2>2. QED
    BY <2>1 DEF TypeOK, PC
<1>3. LoopInv'
  BY <1>1 DEF LoopInv, Working, TypeOK
<1>4. ProgressInv'
  BY ProgressFrame DEF Begun, Ended, Worker, TypeOK, LoopInv
<1>5. RefCountExact'
  BY LivingFinite DEF RefCountExact, Living, Alive, TypeOK
<1>6. QED
  BY <1>2, <1>3, <1>4, <1>5

LEMMA CreateDoneStep == ASSUME IInv, CreateDone PROVE IInv'
<1> USE DEF IInv, CreateDone, Goto, callerVars
<1>1. \A w : HasChunk(w)' = HasChunk(w)
  BY ChunksFixed
<1>2. TypeOK'
  BY DEF TypeOK, PC
<1>3. LoopInv'
  BY <1>1 DEF LoopInv, Working, TypeOK
<1>4. ProgressInv'
  BY ProgressFrame DEF Begun, Ended, Worker, TypeOK, LoopInv
<1>5. RefCountExact'
  BY DEF RefCountExact, Living, Alive
<1>6. QED
  BY <1>2, <1>3, <1>4, <1>5

LEMMA InlineStartStep == ASSUME IInv, InlineStart PROVE IInv'
<1> USE DEF IInv, InlineStart, Goto, callerVars
<1>1. \A w : HasChunk(w)' = HasChunk(w)
  BY ChunksFixed
<1>2. i \in Worker /\ HasChunk(i) /\ Working /\ Start(i) \in Nat /\ started <= i
  <2>1. i \in Worker /\ HasChunk(i) /\ Working /\ started <= i
    BY ParallelForAssumption DEF LoopInv, HasChunk, Worker, TypeOK
  <2>2. QED
    BY <2>1, ChunkBounds DEF Worker
<1>3. TypeOK'
  BY <1>2 DEF TypeOK, PC
<1>4. LoopInv'
  BY <1>1, <1>2 DEF LoopInv, Working
<1>5. ProgressInv'
  <2>1. /\ ~Begun(i)
        /\ \A w \in Worker : Begun(w)' <=> Begun(w) \/ w = i
        /\ ~Ended(i)'
        /\ \A w \in Worker : w # i => (Ended(w)' => Ended(w))
    BY <1>2 DEF Begun, Ended, Worker, TypeOK
  <2>2. QED
    BY <1>2, <2>1, ProgressBegin
<1>6. RefCountExact'
  BY DEF RefCountExact, Living, Alive
<1>7. QED
  BY <1>3, <1>4, <1>5, <1>6

LEMMA InlineRunStep == ASSUME IInv, InlineRun PROVE IInv'
<1> USE DEF IInv, InlineRun, Goto, callerVars
<1>1. \A w : HasChunk(w)' = HasChunk(w)
  BY ChunksFixed
<1>2. i \in Worker /\ Working /\ Begun(i) /\ ~Ended(i)
  BY ParallelForAssumption DEF LoopInv, HasChunk, Worker, TypeOK, Begun, Ended
<1>3. TypeOK'
  <2>1. ran' \in [Iteration -> Nat] /\ pos' \in [Worker -> Nat]
    BY <1>2, RunIterationType
  <2>2. QED
    BY <2>1 DEF TypeOK
<1>4. LoopInv'
  BY <1>1 DEF LoopInv, Working
<1>5. ProgressInv'
  <2>1. \A w \in Worker : HasChunk(w) \/ ~Begun(w)
    BY DEF LoopInv, Begun, Worker, TypeOK
  <2>2. \A w \in Worker : (Begun(w)' <=> Begun(w)) /\ (Ended(w)' <=> Ended(w))
    BY DEF Begun, Ended
  <2>3. QED
    BY <1>2, <2>1, <2>2, ProgressRun
<1>6. RefCountExact'
  BY DEF RefCountExact, Living, Alive
<1>7. QED
  BY <1>3, <1>4, <1>5, <1>6

LEMMA InlineEndStep == ASSUME IInv, InlineEnd PROVE IInv'
<1> USE DEF IInv, InlineEnd, Goto, callerVars
<1>1. \A w : Start(w)' = Start(w) /\ End(w)' = End(w) /\ HasChunk(w)' = HasChunk(w)
  BY ChunksFixed
<1>2. i \in Worker /\ Working /\ HasChunk(i) /\ started <= i
  BY ParallelForAssumption DEF LoopInv, HasChunk, Worker, TypeOK
<1>3. TypeOK'
  BY <1>2, ParallelForAssumption DEF TypeOK, PC, Worker
<1>4. LoopInv'
  BY <1>1, <1>2 DEF LoopInv, Working, Worker, TypeOK
<1>5. ProgressInv'
  <2>1. PICK x \in Worker : x = i
    BY <1>2
  <2>2. \A w \in Worker : Begun(w)' <=> Begun(w)
    BY <1>2 DEF Begun, Worker, TypeOK
  <2>3. \A w \in Worker : w # x => (Ended(w)' => Ended(w))
    BY <2>1, <2>2, <1>2 DEF Ended, Worker, TypeOK
  <2>4. pos[x] = End(x)
    <3>1. Begun(x)
      BY <2>1 DEF Begun, Worker, TypeOK
    <3>2. x \in Nat /\ pos[x] \in Nat
      BY DEF Worker, TypeOK
    <3>3. End(x) \in Nat
      BY <3>2, <1>2, ChunkBounds
    <3>4. QED
      BY <2>1, <3>1, <3>2, <3>3 DEF ProgressInv
  <2>5. \A w \in Worker : \A k \in Iteration : RanBy(w, k)' <=> RanBy(w, k)
    BY <1>1, <2>2 DEF RanBy
  <2>6. QED
    BY <1>1, <2>2, <2>3, <2>4, <2>5 DEF ProgressInv
<1>6. RefCountExact'
  BY DEF RefCountExact, Living, Alive
<1>7. QED
  BY <1>3, <1>4, <1>5, <1>6

LEMMA InlineDoneStep == ASSUME IInv, InlineDone PROVE IInv'
<1> USE DEF IInv, InlineDone, Goto, callerVars
<1>1. \A w : HasChunk(w)' = HasChunk(w)
  BY ChunksFixed
<1>2. Working /\ started <= i /\ i \in Nat
  BY DEF LoopInv, TypeOK
<1>3. TypeOK'
  BY ParallelForAssumption DEF TypeOK, PC
<1>4. LoopInv'
  BY <1>1, <1>2 DEF LoopInv, Working, Worker
<1>5. ProgressInv'
  <2>1. \A w \in Worker : HasChunk(w) <=> w < i
    <3> SUFFICES ASSUME NEW w \in Worker PROVE HasChunk(w) <=> w < i
      OBVIOUS
    <3>1. w \in Nat
      BY DEF Worker
    <3>2. CASE w < i
      BY <3>2 DEF LoopInv
    <3>3. CASE i <= w
      BY <3>1, <3>3, <1>2, NoChunkAfter
    <3>4. QED
      BY <1>2, <3>1, <3>2, <3>3
  <2>2. \A w \in Worker : Begun(w)' <=> Begun(w)
    BY <1>1, <1>2, <2>1 DEF Begun, Worker, TypeOK
  <2>3. \A w \in Worker : Ended(w)' => Ended(w)
    BY <2>2 DEF Ended
  <2>4. QED
    BY <2>2, <2>3, ProgressFrame
<1>6. RefCountExact'
  BY DEF RefCountExact, Living, Alive
<1>7. QED
  BY <1>3, <1>4, <1>5, <1>6

LEMMA JoinStep == ASSUME IInv, Join PROVE IInv'
<1> USE DEF IInv, Join, callerVars
<1>1. \A w : HasChunk(w)' = HasChunk(w)
  BY ChunksFixed
<1>2. TypeOK'
  BY ParallelForAssumption DEF TypeOK
<1>3. LoopInv'
  BY <1>1 DEF LoopInv, Working, Worker, TypeOK
<1>4. ProgressInv'
  <2>1. \A w \in Worker : (Begun(w)' <=> Begun(w)) /\ (Ended(w)' <=> Ended(w))
    BY <1>1 DEF Begun, Ended
  <2>2. QED
    BY <2>1, ProgressFrame
<1>5. RefCountExact'
  BY DEF RefCountExact, Living, Alive
<1>6. QED
  BY <1>2, <1>3, <1>4, <1>5

LEMMA ReturnStep == ASSUME IInv, Return PROVE IInv'
<1> USE DEF IInv, Return, Goto, callerVars
<1>1. \A w : HasChunk(w)' = HasChunk(w)
  BY ChunksFixed
<1>2. TypeOK'
  BY DEF TypeOK, PC
<1>3. LoopInv'
  BY <1>1 DEF LoopInv, Working, Worker, TypeOK
<1>4. ProgressInv'
  <2>1. \A w \in Worker : (Begun(w)' <=> Begun(w)) /\ (Ended(w)' <=> Ended(w))
    BY <1>1 DEF Begun, Ended
  <2>2. QED
    BY <2>1, ProgressFrame
<1>5. RefCountExact'
  BY DEF RefCountExact, Living, Alive
<1>6. QED
  BY <1>2, <1>3, <1>4, <1>5

-----------------------------------------------------------------------------
(* The steps of the threads.                                               *)

\* A thread that is running has a chunk, and the caller has not returned.
LEMMA ThreadHasChunk ==
  ASSUME IInv, NEW w \in Worker, Alive(w)
  PROVE  w < started /\ HasChunk(w) /\ Working /\ pc # "returned"
BY ParallelForAssumption DEF IInv, LoopInv, Alive, Worker, TypeOK

LEMMA ThreadRunStep == ASSUME IInv, NEW x \in Worker, ThreadRun(x) PROVE IInv'
<1> USE DEF IInv, ThreadRun, callerVars
<1>1. \A w : HasChunk(w)' = HasChunk(w)
  BY ChunksFixed
<1>2. Working /\ Begun(x) /\ ~Ended(x)
  BY ThreadHasChunk DEF Alive, Begun, Ended, Worker, TypeOK
<1>3. TypeOK'
  <2>1. ran' \in [Iteration -> Nat] /\ pos' \in [Worker -> Nat]
    BY RunIterationType
  <2>2. QED
    BY <2>1 DEF TypeOK
<1>4. LoopInv'
  BY <1>1 DEF LoopInv, Working
<1>5. ProgressInv'
  <2>1. \A w \in Worker : HasChunk(w) \/ ~Begun(w)
    BY DEF LoopInv, Begun, Worker, TypeOK
  <2>2. \A w \in Worker : (Begun(w)' <=> Begun(w)) /\ (Ended(w)' <=> Ended(w))
    BY <1>1 DEF Begun, Ended
  <2>3. QED
    BY <1>2, <2>1, <2>2, ProgressRun
<1>6. RefCountExact'
  BY DEF RefCountExact, Living, Alive
<1>7. QED
  BY <1>3, <1>4, <1>5, <1>6

LEMMA ThreadBodyEndStep == ASSUME IInv, NEW x \in Worker, ThreadBodyEnd(x) PROVE IInv'
<1> USE DEF IInv, ThreadBodyEnd, callerVars
<1>1. \A w : Start(w)' = Start(w) /\ End(w)' = End(w) /\ HasChunk(w)' = HasChunk(w)
  BY ChunksFixed
<1>2. x < started /\ Working /\ pc # "returned" /\ HasChunk(x)
  BY ThreadHasChunk DEF Alive
<1>3. TypeOK'
  BY DEF TypeOK
<1>4. LoopInv'
  BY <1>1, <1>2 DEF LoopInv, Working, TypeOK
<1>5. ProgressInv'
  <2>1. \A w \in Worker : Begun(w)' <=> Begun(w)
    BY <1>1 DEF Begun
  <2>2. \A w \in Worker : w # x => (Ended(w)' => Ended(w))
    BY <2>1 DEF Ended, TypeOK
  <2>3. pos[x] = End(x)
    <3>1. Begun(x)
      BY <1>2 DEF Begun
    <3>2. x \in Nat /\ pos[x] \in Nat
      BY DEF Worker, TypeOK
    <3>3. End(x) \in Nat
      BY <3>2, <1>2, ChunkBounds
    <3>4. QED
      BY <3>1, <3>2, <3>3 DEF ProgressInv
  <2>4. \A w \in Worker : \A k \in Iteration : RanBy(w, k)' <=> RanBy(w, k)
    BY <1>1, <2>1 DEF RanBy
  <2>5. QED
    BY <1>1, <2>1, <2>2, <2>3, <2>4 DEF ProgressInv
<1>6. RefCountExact'
  <2>1. Living' = Living
    BY DEF Living, Alive, TypeOK
  <2>2. QED
    BY <2>1 DEF RefCountExact, Living
<1>7. QED
  BY <1>3, <1>4, <1>5, <1>6

LEMMA ThreadDropStep == ASSUME IInv, NEW x \in Worker, ThreadDrop(x) PROVE IInv'
<1> USE DEF IInv, ThreadDrop, callerVars
<1>1. \A w : HasChunk(w)' = HasChunk(w)
  BY ChunksFixed
<1>2. x < started /\ Working /\ pc # "returned"
  BY ThreadHasChunk DEF Alive
<1>3. Cardinality(Living') = Cardinality(Living) - 1
  BY LivingLoses
<1>4. RefCountExact'
  BY <1>3, LivingFinite DEF RefCountExact, Living, TypeOK
<1>5. TypeOK'
  <2>1. x \in Living
    BY DEF Living, Alive
  <2>2. rc - 1 \in Nat
    <3>1. Cardinality(Living) # 0
      BY <2>1, LivingFinite, FS_EmptySet
    <3>2. QED
      BY <3>1, LivingFinite DEF RefCountExact, Living, TypeOK
  <2>3. QED
    BY <2>2 DEF TypeOK
<1>6. LoopInv'
  BY <1>1, <1>2 DEF LoopInv, Working, TypeOK
<1>7. ProgressInv'
  <2>1. \A w \in Worker : (Begun(w)' <=> Begun(w)) /\ (Ended(w)' <=> Ended(w))
    BY <1>1 DEF Begun, Ended, TypeOK
  <2>2. QED
    BY <2>1, ProgressFrame
<1>8. QED
  BY <1>4, <1>5, <1>6, <1>7

LEMMA StutterStep == ASSUME IInv, UNCHANGED parForVars PROVE IInv'
<1> USE DEF IInv, parForVars, callerVars
<1>1. \A w : HasChunk(w)' = HasChunk(w)
  BY ChunksFixed
<1>2. TypeOK'
  BY DEF TypeOK
<1>3. LoopInv'
  BY <1>1 DEF LoopInv, Working
<1>4. ProgressInv'
  <2>1. \A w \in Worker : (Begun(w)' <=> Begun(w)) /\ (Ended(w)' <=> Ended(w))
    BY <1>1 DEF Begun, Ended
  <2>2. QED
    BY <2>1, ProgressFrame
<1>5. RefCountExact'
  BY DEF RefCountExact, Living, Alive
<1>6. QED
  BY <1>2, <1>3, <1>4, <1>5

LEMMA StepIInv == IInv /\ [ParForNext]_parForVars => IInv'
<1> SUFFICES ASSUME IInv, [ParForNext]_parForVars PROVE IInv'
  OBVIOUS
<1>1. ASSUME NEW n \in Wanted, CallNothing(n) PROVE IInv'
  BY <1>1, CallNothingStep
<1>2. ASSUME NEW n \in Wanted, NEW cpus \in CpuCounts, NEW free \in FreeSlots,
             Call(n, cpus, free)
      PROVE  IInv'
  BY <1>2, CallStep
<1>3. ASSUME Caller PROVE IInv'
  BY <1>3, PrepareChunkStep, ThreadStartedStep, ThreadRefusedStep, CreateDoneStep,
     InlineStartStep, InlineRunStep, InlineEndStep, InlineDoneStep, JoinStep, ReturnStep
     DEF Caller
<1>4. ASSUME NEW w \in Worker, Thread(w) PROVE IInv'
  BY <1>4, ThreadRunStep, ThreadBodyEndStep, ThreadDropStep DEF Thread
<1>5. ASSUME UNCHANGED parForVars PROVE IInv'
  BY <1>5, StutterStep
<1>6. QED
  BY <1>1, <1>2, <1>3, <1>4, <1>5 DEF ParForNext

-----------------------------------------------------------------------------
(* The theorems.                                                           *)

\* The loops of nv_parallel_for keep the place of every chunk: the conjunction
\* of the types, the counts, where the caller is and what each chunk has run
\* is kept by every step of the caller and of the threads.
THEOREM InductiveInvariant == ParForSpec => []IInv
BY InitIInv, StepIInv, PTL DEF ParForSpec

\* The counters of the loops stay within the arrays chunks and tids, and the
\* closure's count never goes below zero.
THEOREM TypeCorrect == ParForSpec => []TypeOK
<1>1. IInv => TypeOK
  BY DEF IInv
<1>2. QED
  BY <1>1, InductiveInvariant, PTL

\* Every thread that nv_parallel_for creates has a reference to the closure of
\* its own, and gives back exactly that one, refused threads included.
THEOREM CountExact == ParForSpec => []RefCountExact
<1>1. IInv => RefCountExact
  BY DEF IInv
<1>2. QED
  BY <1>1, InductiveInvariant, PTL

\* "Every iteration belongs to exactly one chunk": none is ever run twice,
\* whatever the total, the cpus, the free slots and the refusals.
THEOREM NeverTwice == ParForSpec => []AtMostOnce
<1>1. IInv => AtMostOnce
  BY DEF IInv, ProgressInv, AtMostOnce
<1>2. QED
  BY <1>1, InductiveInvariant, PTL

\* At the return every chunk has ended, and the chunks cover the iterations.
LEMMA CompleteAtReturn == IInv => ReturnsComplete
<1> SUFFICES ASSUME IInv, pc = "returned"
             PROVE  /\ \A k \in Iteration : ran[k] = IF k < total THEN 1 ELSE 0
                    /\ \A w \in Worker : ~Alive(w)
                    /\ rc = 1
  BY DEF ReturnsComplete
<1> USE DEF IInv
<1>1. \A w \in Worker : ~Alive(w)
  BY DEF LoopInv, Alive
<1>2. rc = 1
  <2>1. Living = {}
    BY <1>1 DEF Living
  <2>2. QED
    BY <2>1, FS_EmptySet, CountOfLiving
<1>3. ASSUME NEW k \in Iteration PROVE ran[k] = IF k < total THEN 1 ELSE 0
  <2>1. k \in Nat
    BY DEF Iteration
  <2>2. CASE Working /\ k < total
    <3>1. PICK w \in Worker : HasChunk(w) /\ Start(w) <= k /\ k < End(w)
      BY <2>1, <2>2, ChunksCover
    <3>2. Begun(w)
      BY <3>1 DEF Begun
    <3>3. Ended(w)
      BY <3>2 DEF Ended, LoopInv, Worker, TypeOK
    <3>4. RanBy(w, k)
      BY <3>1, <3>2, <3>3 DEF RanBy, ProgressInv
    <3>5. QED
      BY <2>2, <3>4 DEF ProgressInv
  <2>3. CASE Working /\ ~(k < total)
    <3>1. ASSUME NEW w \in Worker, RanBy(w, k) PROVE FALSE
      <4>1. w \in Nat /\ pos[w] \in Nat /\ total \in Int
        BY DEF Worker, TypeOK
      <4>2. End(w) \in Nat /\ End(w) <= total
        BY <4>1, <2>3, ChunkBounds
      <4>3. k < pos[w] /\ pos[w] <= End(w)
        BY <3>1 DEF RanBy, ProgressInv
      <4>4. QED
        BY <2>1, <2>3, <4>1, <4>2, <4>3
    <3>2. QED
      BY <2>3, <3>1 DEF ProgressInv
  <2>4. CASE ~Working
    <3>1. workers = 0 /\ started = 0 /\ total <= 0
      BY <2>4 DEF LoopInv
    <3>2. \A w \in Worker : ~Begun(w)
      BY <3>1 DEF Begun, HasChunk, Worker
    <3>3. ~(k < total)
      BY <2>1, <3>1 DEF TypeOK
    <3>4. QED
      BY <3>2, <3>3 DEF ProgressInv, RanBy
  <2>5. QED
    BY <2>2, <2>3, <2>4
<1>4. QED
  BY <1>1, <1>2, <1>3

\* When nv_parallel_for returns, every iteration below the total has been run,
\* once, no thread can still read a chunk of the caller's frame, and the
\* closure is back at the reference the caller came with.
THEOREM CompleteOnReturn == ParForSpec => []ReturnsComplete
<1>1. IInv => ReturnsComplete
  BY CompleteAtReturn
<1>2. QED
  BY <1>1, InductiveInvariant, PTL
=============================================================================
