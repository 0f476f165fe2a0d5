--------------------------- MODULE NvParallelFor ---------------------------
(***************************************************************************)
(* par_for(body, total) of the Narval runtime: nv_parallel_for and         *)
(* nv_parallel_trampoline of src/backend/runtime/nir_bridge.c, for one     *)
(* call.  The iterations [0, total) are cut into chunks; as many as        *)
(* pthread_create accepts run on threads of their own, the rest on the     *)
(* caller's, and the call returns when all have ended.  The chunks live in *)
(* the caller's frame.                                                     *)
(***************************************************************************)
EXTENDS Integers, FiniteSets

CONSTANTS
  MaxWorkers,   \* NV_PAR_WORKERS_MAX
  IntMax,       \* the largest int32_t, what obj_to_i32 returns
  Wanted,       \* bound: the totals the program may ask for
  CpuCounts,    \* bound: what sysconf(_SC_NPROCESSORS_ONLN) may say
  FreeSlots     \* bound: how many slots of the thread table may be free

ASSUME ParallelForAssumption ==
  /\ MaxWorkers \in Nat \ {0}
  /\ IntMax \in Nat
  /\ Wanted \subseteq Int
  /\ CpuCounts \subseteq Int
  /\ FreeSlots \subseteq Nat

Worker == 0 .. MaxWorkers - 1

\* The boxed int is 64 bits wide; what is read from it keeps the low half.
ToInt32(n) == ((n + IntMax + 1) % (2 * (IntMax + 1))) - (IntMax + 1)
Iteration == 0 .. IntMax

Smaller(m, n) == IF m < n THEN m ELSE n

\* The cpus, capped at NV_PAR_WORKERS_MAX, at the total and at the free slots,
\* and never less than one.
WorkersFor(n, cpus, free) ==
  LET capped == Smaller(Smaller(Smaller(IF cpus > 1 THEN cpus ELSE 1, MaxWorkers), n), free)
  IN  IF capped < 1 THEN 1 ELSE capped

\* The chunk of worker w when n iterations are split among ws workers.
PerWorker(n, ws) == (n + ws - 1) \div ws
ChunkStart(n, ws, w) == w * PerWorker(n, ws)
\* Mutant of ChunkEnd: both ends of a chunk belong to it.
ChunkEndInclusive(n, ws, w) ==
  Smaller(ChunkStart(n, ws, w) + PerWorker(n, ws) + 1, n)

ChunkEnd(n, ws, w) == Smaller(ChunkStart(n, ws, w) + PerWorker(n, ws), n)

VARIABLES
  pc,        \* where the caller is
  wanted,    \* the total the program passed
  total,     \* the total the call works with
  workers,   \* the chunks it is cut into
  i,         \* the loop counter of the caller
  started,   \* the threads that were created: those of chunks 0 .. started - 1
  thread,    \* how far each chunk's thread is
  pos,       \* the next iteration of a chunk that is running
  ran,       \* history: how often each iteration was run
  rc         \* the references to the closure; the caller's own is one of them

callerVars == <<wanted, total, workers>>
parForVars == <<pc, callerVars, i, started, thread, pos, ran, rc>>

PC == {"idle", "create", "pthread_create", "inline", "inline_run", "join", "returned"}

TypeOK ==
  /\ pc \in PC
  /\ wanted \in Int
  /\ total \in Int
  /\ workers \in 0 .. MaxWorkers
  /\ i \in 0 .. MaxWorkers
  /\ started \in 0 .. MaxWorkers
  /\ thread \in [Worker -> {"none", "running", "dropping", "ended"}]
  /\ pos \in [Worker -> Nat]
  /\ ran \in [Iteration -> Nat]
  /\ rc \in Nat

ParForInit ==
  /\ pc = "idle"
  /\ wanted = 0 /\ total = 0 /\ workers = 0
  /\ i = 0 /\ started = 0
  /\ thread = [w \in Worker |-> "none"]
  /\ pos = [w \in Worker |-> 0]
  /\ ran = [k \in Iteration |-> 0]
  /\ rc = 1

Start(w) == ChunkStart(total, workers, w)
End(w) == ChunkEnd(total, workers, w)
HasChunk(w) == w < workers /\ Start(w) < total

Goto(from, to) == pc = from /\ pc' = to

-----------------------------------------------------------------------------
(* The caller.                                                             *)

\* A total that is not positive returns at once.
CallNothing(n) ==
  /\ Goto("idle", "returned")
  /\ ToInt32(n) <= 0
  /\ wanted' = n /\ total' = ToInt32(n)
  /\ UNCHANGED <<workers, i, started, thread, pos, ran, rc>>

Call(n, cpus, free) ==
  /\ Goto("idle", "create")
  /\ ToInt32(n) > 0
  /\ wanted' = n /\ total' = ToInt32(n)
  /\ workers' = WorkersFor(ToInt32(n), cpus, free)
  /\ UNCHANGED <<i, started, thread, pos, ran, rc>>

\* The chunk is written and the reference taken before the thread exists.
PrepareChunk ==
  /\ Goto("create", "pthread_create")
  /\ HasChunk(i)
  /\ rc' = rc + 1
  /\ UNCHANGED <<callerVars, i, started, thread, pos, ran>>

ThreadStarted ==
  /\ Goto("pthread_create", "create")
  /\ thread' = [thread EXCEPT ![i] = "running"]
  /\ pos' = [pos EXCEPT ![i] = Start(i)]
  /\ started' = i + 1
  /\ i' = i + 1
  /\ UNCHANGED <<callerVars, ran, rc>>

\* Mutant of ThreadRefused: the reference is kept.
ThreadRefusedKeepsRef ==
  /\ Goto("pthread_create", "inline")
  /\ i' = started
  /\ UNCHANGED <<callerVars, started, thread, pos, ran, rc>>

\* No thread: the reference is given back and no other thread is tried.
ThreadRefused ==
  /\ Goto("pthread_create", "inline")
  /\ rc' = rc - 1
  /\ i' = started
  /\ UNCHANGED <<callerVars, started, thread, pos, ran>>

CreateDone ==
  /\ Goto("create", "inline")
  /\ ~HasChunk(i)
  /\ i' = started
  /\ UNCHANGED <<callerVars, started, thread, pos, ran, rc>>

\* "Whatever could not be given to a thread runs here, in order."
InlineStart ==
  /\ Goto("inline", "inline_run")
  /\ HasChunk(i)
  /\ pos' = [pos EXCEPT ![i] = Start(i)]
  /\ UNCHANGED <<callerVars, i, started, thread, ran, rc>>

RunIteration(w) ==
  /\ pos[w] < End(w)
  /\ ran' = [ran EXCEPT ![pos[w]] = @ + 1]
  /\ pos' = [pos EXCEPT ![w] = @ + 1]

InlineRun ==
  /\ pc = "inline_run"
  /\ RunIteration(i)
  /\ UNCHANGED <<pc, callerVars, i, started, thread, rc>>

InlineEnd ==
  /\ Goto("inline_run", "inline")
  /\ pos[i] >= End(i)
  /\ i' = i + 1
  /\ UNCHANGED <<callerVars, started, thread, pos, ran, rc>>

InlineDone ==
  /\ Goto("inline", "join")
  /\ ~HasChunk(i)
  /\ i' = 0
  /\ UNCHANGED <<callerVars, started, thread, pos, ran, rc>>

\* Mutant of Join: the threads are left to themselves.
JoinSkipped ==
  /\ pc = "join"
  /\ i < started
  /\ i' = i + 1
  /\ UNCHANGED <<pc, callerVars, started, thread, pos, ran, rc>>

Join ==
  /\ pc = "join"
  /\ i < started
  /\ thread[i] = "ended"
  /\ i' = i + 1
  /\ UNCHANGED <<pc, callerVars, started, thread, pos, ran, rc>>

Return ==
  /\ Goto("join", "returned")
  /\ i >= started
  /\ UNCHANGED <<callerVars, i, started, thread, pos, ran, rc>>

-----------------------------------------------------------------------------
(* The thread of chunk w.                                                  *)

ThreadRun(w) ==
  /\ thread[w] = "running"
  /\ RunIteration(w)
  /\ UNCHANGED <<pc, callerVars, i, started, thread, rc>>

ThreadBodyEnd(w) ==
  /\ thread[w] = "running"
  /\ pos[w] >= End(w)
  /\ thread' = [thread EXCEPT ![w] = "dropping"]
  /\ UNCHANGED <<pc, callerVars, i, started, pos, ran, rc>>

ThreadDrop(w) ==
  /\ thread[w] = "dropping"
  /\ thread' = [thread EXCEPT ![w] = "ended"]
  /\ rc' = rc - 1
  /\ UNCHANGED <<pc, callerVars, i, started, pos, ran>>

-----------------------------------------------------------------------------

Caller ==
  \/ PrepareChunk \/ ThreadStarted \/ ThreadRefused \/ CreateDone
  \/ InlineStart \/ InlineRun \/ InlineEnd \/ InlineDone
  \/ Join \/ Return

Thread(w) == ThreadRun(w) \/ ThreadBodyEnd(w) \/ ThreadDrop(w)

ParForNext ==
  \/ \E n \in Wanted : CallNothing(n)
  \/ \E n \in Wanted, cpus \in CpuCounts, free \in FreeSlots : Call(n, cpus, free)
  \/ Caller
  \/ \E w \in Worker : Thread(w)

ParForSpec == ParForInit /\ [][ParForNext]_parForVars

-----------------------------------------------------------------------------
(* Properties.                                                             *)

\* No iteration ever runs twice, on whatever threads the chunks run.
AtMostOnce == \A k \in Iteration : ran[k] <= 1

Alive(w) == thread[w] \in {"running", "dropping"}

\* The closure's count is exact: the caller's reference, one for each thread
\* that may still enter it, and the one of the thread being created.
RefCountExact ==
  rc = 1 + Cardinality({w \in Worker : Alive(w)})
         + IF pc = "pthread_create" THEN 1 ELSE 0

\* "Every iteration belongs to exactly one chunk" (nir_bridge.c): when the call
\* returns every iteration has run once, and no thread is left that could still
\* read its chunk in the caller's frame or hold the closure.
ReturnsComplete ==
  pc = "returned" =>
    /\ \A k \in Iteration : ran[k] = IF k < total THEN 1 ELSE 0
    /\ \A w \in Worker : ~Alive(w)
    /\ rc = 1
=============================================================================
