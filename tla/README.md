# A TLA+ verification project for Narval

Narval is a compiled language: a C++ front end (lexer, parser, checker, module
manager, REPL, language server) lowers a program through MLIR to native code,
and a C runtime gives that code its objects, containers, exceptions, threads,
channels, parallel loops and sockets. These modules model the parts whose
correctness depends on the *order* in which things happen - the concurrent
runtime, and the passes and tables of the compiler that keep state across steps -
check them with TLC on small instances, and prove the safety of the concurrent
runtime, of exceptions, of sockets, of the module manager and of the interactive
session with TLAPS for every instance.

All paths below are relative to the repository (`src/backend/...`).

## 1. Inventory

| component | state | operations | what is hard about it | what makes it correct |
|---|---|---|---|---|
| **Channels** `runtime/nir_bridge.c` 1361-1435 | 64 slots, each a linked list (`head`, `tail`) with a mutex and a condition variable; reference counts of the messages | `chan`, `send`, `recv` | every thread, one list; half-written pointers; one signal for one sleeper; who owns the message | FIFO, each message received once, counts exact, no lost wakeup |
| **Threads** `nir_bridge.c` 1202-1259 | table of 64 slots `{tid, closure, result, live}` under `g_threads_lock` | `spawn`, trampoline, `wait` | `wait` and the trampoline use the table *without* the lock; `pthread_create` may fail; an id is a slot number and slots are reused | no slot or reference lost or shared, a wait answers with its own body's result, waits return |
| **Parallel loops** `nir_bridge.c` 1261-1359 | chunks in the caller's frame | `par_for` | chunk arithmetic, threads refused half-way, frame lifetime, integer width | each iteration exactly once, nothing outlives the call |
| **Exceptions** `nir_bridge.c` 816-1003, `lang/exceptions.c`, code emitted by `nir_try_stmt.cpp`, `nir_throw_stmt.cpp`, `nir_propagate_stmt.cpp`, `nir_return_stmt.cpp` | four globals: try depth, pending error, handler's error, stack of handlers' errors | `throw`, `propagate`, `try`/`catch`/`finally` | nothing is unwound: the code runs on until the next check; nesting in bodies, handlers, finallys and callees | an error reaches the right handler, none is left where nobody looks, finallys run |
| **Object model** `include/backend/runtime/prototypes.h`, `core/value.c`, `core/object.c` | a count in each object | `nv_incref`, `nv_decref`, constructors, `set_field` | atomic counts used from several threads; containers that share elements | freed exactly when the last owner lets go |
| **Containers** `collections/sequences.c`, `maps.c` | element arrays | `push`, `pop`, `get`, `set`, slice, dealloc | elements stored and copied without a reference of their own | no element freed twice or used after free |
| **Code generation, control-flow lowering** `nir/codegen/statements/*`, `nir/passes/LowerNarvalControlFlowPass.cpp` | which value each name stands for; the blocks made so far | one handler per statement, one rewriting per loop or conditional | names assigned in branches and loops, exits from nested loops, three forms of a conditional | the blocks do what the statements say |
| **Ownership pass** `nir/passes/InsertRuntimeDropsPass.cpp` | where each value is dropped | one pass over every function | all paths of a function, loops, values two names share, values that escape | no object is used after its drop, none of the caller's is dropped, temporaries are |
| **Other passes** `nir/passes/*` | IR | error-handling lowering, the ownership report | size; sequential | meaning preserved |
| **Module manager** `frontend/module_manager.cpp` | `modules`, `visited` | resolve, load, combine | a module has two names (import path, own name); recursion, errors | every module loaded once, cycles and only cycles rejected |
| **Comptime evaluator** `frontend/checker/comptime/comptime_evaluator.cpp` | a stack of scopes, the base of the running function, emitted source, counters | evaluate, unroll, fold, emit | an interpreter inside the compiler: recursion, scopes of caller and callee, order of emitted statements, caps | the expanded program does what the source says, or it is refused |
| **Type checker** `frontend/checker/*`, `include/frontend/checker/unification.hpp`, `type.hpp` | scope, cache of annotations, type variables and what they are bound to, the next id | one pass that makes declarations, one that registers signatures, one over the statements | what becomes known later must reach what was typed before; ids, sharing, caches | what is accepted is well typed, what is well typed is accepted |
| **Lexer, parser** `frontend/...` | tokens, trees | one pass each | size; sequential | language definition |
| **Interactive engine** `frontend/interactive/*` | names, declarations and scope kept between cells | run a cell, reset | a cell may fail at any stage after part of the state was updated | a failed cell leaves the session as it was |
| **Language server** `lsp/*` | open documents, what was published | open, change, tokens | diagnostics of imported documents, no close | the client sees the current diagnostics |
| **Driver, home directory** `main.cpp`, `frontend/narval_home.cpp` | files | build, run, install the assets | rewriting in place, several processes | complete files only |
| **Sockets** `runtime/net/net_socket.c` | 64 handles, bytes buffered past a delimiter | open, accept, send, recv, recv_until, poll, close | handle reuse, buffered bytes and poll, limits | bytes delivered in order, none twice, none lost without a reason |
| **Freestanding runtime, runtime modules, stdlib** | - | - | bindings, single-threaded | - |

How they interact: compiled code calls the runtime through the bridge
(`nir_bridge.c`), which is the only shared state of a running program; threads,
parallel loops and channels meet in the reference counts of the objects that
pass between them; the exception globals are shared by every thread. The front
end is sequential: driver → module manager → parser → checker → code
generation → passes, with the REPL and the language server keeping state
between runs of that pipeline.

`PROJECT.json` lists every hazard at its line with the properties that would
catch it.

## 2. Plan

In the order of their weight for a running program; every line but the last
group is done.

1. **Channels** - `NvChannels` (every pointer write a step) implements
   `FifoChannels` (abstract); safety and refinement proved.
2. **Threads** - `NvThreads` implements `Futures`; safety and refinement proved.
3. **Parallel loops** - `NvParallelFor`; safety proved.
4. **Exceptions** - `NvExceptions`, the emitted try code against the runtime's
   globals, for every program of bounded nesting; safety proved.
5. **Ownership** - `NvLowering` compiles a function to blocks, `NvDrops` places
   the drops and runs the result on counted objects.
6. **Sockets** - `NvSockets`, handles and buffered bytes against the stream the
   peer wrote; safety proved.
7. **Module manager** - `NvModules`, loading and cycle detection against the
   import graph, safety proved; `NvMerge` on top of it, the merge.
8. **Interactive session** - `NvSession`, inputs that fail at each stage against
   what the accepted inputs justify; safety proved.
9. **Comptime** - `NvComptime`, the expansion against reading the program in
   place.
10. **Type inference** - `NvInference`, the unifying checker against a declarative
   reading with closed types.
11. Left: the deallocators of the containers, and exceptions with several
    threads, composing `NvThreads`' trampolines with `NvExceptions`' globals.

Theorems, in this order, all done: the channels' inductive invariant and that
`NvChannels` implements `FifoChannels`; `NvParallelFor`'s safety; `NvThreads`'
safety and that it implements `Futures`; the safety of `NvExceptions`, of
`NvSockets`, of `NvSession` and of `NvModules`.

## 3. The modules

### NvChannels and FifoChannels

State: for each channel `live`, `lock` (holder of `mu`), `waiting` (sleepers on
`cond`), `head`, `tail`; for each node `val`, `next`, and the set `heap` of nodes
malloc has handed out; `rc` for each object; `reg`, the program's variables; a
program counter and the local variables `slot`, `msg` for each thread. `fifo` is
a history variable: the nodes in the order in which they were made the tail.

Every access to shared memory is a step: `SendBegin` (bounds test, malloc,
`nv_incref`, node filled), `SendLock`, `SendLink` (the store to `next` or
`head`), `SendTail`, `SendSignal`, `SendUnlock`; `RecvBegin`, `RecvLock`,
`RecvSleep`, `RecvWake`, `SpuriousWakeup`, `RecvTake`, `RecvHead`, `RecvTail`,
`RecvUnlock`, `RecvFree`. `New` is one step: it holds `g_channels_lock`
throughout and nothing else reads a slot that has not been handed out. `Create`
and `Drop` are what the program does between calls. Channel ids are never given
back, which the code also never does. A `send` whose malloc fails returns at
once and changes nothing: it is a send that does not start.

`FifoChannels` has queues and hands only. A send takes effect when its node
becomes the tail (`SendTail`), a receive when the head moves (`RecvHead`).

### NvThreads and Futures

State: `lock`, the table (`live`, `tid`, `closure`, `result`), the closures'
counts `rc`, what each thread's variables hold (`held`, `ids`), and the program
counters and locals of calls. Body *k* is the body of the *k*-th `spawn`;
results are named by the body that returned them. One step is one access to the
table, the count or the lock: `spawn` scans slot by slot under the lock, takes
its reference after unlocking, and undoes three things one by one when
`pthread_create` fails. `wait` never takes the lock. Bodies spawn and wait
themselves, and pass ids on through what they return (`WaitTake`).

A program forgets an id when it has waited for it. An id is a slot number, and
the slot belongs to the next `spawn` once it has been waited for, so a program
that waits twice for one id may be handed another body's result: the code does
not prevent it, and no property here speaks of such programs.

`Futures` is what the pair promises: a body runs once, and its result is taken
once, by a wait for that body.

### NvParallelFor

One call of `par_for`: `Call` computes the chunks from the total, the cpu count
and the free slots; the create loop takes a reference before each
`pthread_create` (`PrepareChunk`) and stops at the first refusal; the rest runs
inline; then the joins. `ToInt32` is the width of `obj_to_i32`. Free slots are a
snapshot in the code (the table is not reserved), so any number is possible.
The closure call of a chunk is the loop over its iterations.

### NvExceptions

State: the four runtime globals (`depth`, `pending`, `handled`, `outer`) and a
control stack of the constructs a program is inside of. The model runs *every*
program up to a nesting: at any point a statement may throw, propagate, call,
open a block, begin a try with any arms, or return. `MayRun` is the check the
code emits after each statement of a try or catch body (`emit_checked_block`);
statements of callees, nested blocks and finallys run unchecked, as emitted.
`raisedIn`, `left` and `returned` are history. `features`, chosen once from
`FeatureSets`, restricts the programs: with all of them the invariants about the
depth and the pending error hold; a caught error is the try's own and finallys
run (`PlainCatchesOwnBody`, `PlainFinallyRan`) in the programs that use none.

Left out: the setjmp handlers of the older runtime (compiled code pushes none,
so `nv_throw_exception` always reports and exits), `defer`, tracebacks, error
messages, and other threads.

### NvLowering and NvDrops

`NvLowering` is the translation of a function body, written as functions on the
function under construction (`Empty` to `Lowered`): `Emit` has a case for each
statement, `env` is the scope (name to value), and a block has arguments,
operations and a terminator. Its three forms of a conditional are those of
`nir_if_stmt.cpp`: `PlainIf` when no outer name is assigned, `SelectIf` when both
branches can become `nv_select` calls, `ResultIf` otherwise. `EmitLoop` carries
the names the body assigns through the arguments of header, body and
continuation; `BreakOf` and `ContinueOf` branch to the *outermost* loop, since
the conversion pass meets it first and resolves every exit inside it. `Meaning`
reads the statements one after the other and is the reference.

`NvDrops` adds the pass (`TryDrop`, with `OtherUseReachable`, `LastConsumer` and
`Borrowed`) and runs the function with its drops, an operation a step, on objects
with reference counts. `luck` answers the conditions the values do not decide.
The pass relies on things it does not test; `sound`, `owning`, `ordered` and
`innermost` say of a program whether these hold:

- `sound`: no operation takes one value twice (two uses, two drops), no value is
  carried by a branch and needed besides, none is used in a region and after it
  (regions have no `BranchOpInterface`), and the conditions of `owning`;
- `owning`: nothing borrowed comes out of a region, no element is carried by a
  loop, a vector is given only what it can own;
- `ordered`: a branch that becomes selects does not read what it assigned, since
  the selects take every operand from before the branch;
- `innermost`: no break or continue inside an inner loop.

Outside them the statements do fail; `use_after_drop` and `inner_break` show two
such failures, and section 6 lists the others.

### NvSockets

The table of handles with each slot's `pend`, the kernel's side of each
connection (`net`) and the one read in progress (`call`). A byte is named by its
place in what the peer wrote. A read is a loop over single reads from the kernel
(`TakeKept`, `TakeArrived`, `ReadNothing`), and the peers connect, write, shut
down and break off between any two. `recv_until` ends at a delimiter
(`FoundDelimiter`), at its size (`ReadEnough`), or goes on (`ReadMore`);
`KeepPast` is what it puts back: what follows the delimiter if the slot's buffer
holds all of it, in place of what was there, and nothing of it otherwise.

`done`, `lost` and `frames` are history: the bytes a connection's calls handed out
(or a `recv_exact` that failed threw away), those for which `recv_until` had no
room (`NoRoomFor`), and the ends of the frames it found. `Stream(c)` is what was
handed out, what the call has and what the slot keeps, one after the other.
`BytesAccounted` compares it with what was taken from the kernel: it must be the
peer's bytes in their order without those in `lost`. It holds for any sizes, mixed
in any way; `PastDelimiterKept`, that `lost` stays empty, is the comment's claim and
does not (section 6).

`MCNvSockets` gives the checker two settings of the same module: in `table` two
connections and a listener contend for two slots, in `buffer` one stream has a peer
that writes enough to overfill what the slot can keep.

### NvModules and NvMerge

`modules` and `visited` are the manager's two maps, `stack` the recursion of
`resolve_dependencies`. A module is asked for by a spelling and stored under the
stem of its file: both names are entered in `visited`, one is taken out
(`Leave`). An exception (`Throw`) leaves the names of all open calls behind, for
the next call of the same manager. `stale` marks a call whose module was replaced
in the map while the call holds a reference to it. The import graph on disk is
data: `Reachable(f)` is the least set of files that has `f` and what its members
import, and `Cyclic(f)` that a file in it reaches itself. `Combined`, in `NvMerge`,
is `get_combined_ast`; it is recursive, and kept apart for that reason.

### NvSession

An input is a list of statements that define, assign or read. `Check` registers
the signatures and names before anything is checked, `Refuse` leaves them;
`Remember` replaces definitions after the program was lowered and before the JIT
takes it: `LoweringThrows` is an exception in between (`std::stoll` of a literal too
long, say), which leaves the names in the scope and keeps no definition; `Break` is a
JIT that refuses, after the definitions were kept; `Run` puts values into the store.
`own`, `latest` and `justified` are history: what the accepted inputs alone would have entered. `Reset` is `:reset`.
`Omit` is the loop and the `remove_if` over `repl_decls`, as a recursive function.

### NvComptime

The evaluator's record `E` goes through `Eval`, `EvalBlock` and the loops for the
bodies of comptime functions, and through `ExpandOne` for the statements of the
program; `Home`, `SetVar`, `Lookup`, `Enter` and `Leave` are the scope stack and
`func_scope_base_`. One action for each kind of statement at top level. The
reference, `Read`, gives each activation a map of its own, and marks a program
*bad* when a comptime context asks for what it cannot have; it also reads the
program the expansion left, so the two are compared by what they print. Of an `if`
that run time decides a reading takes both branches, one after the other, on both
sides: the expansion must keep both, and which of them runs is not its business.

### NvInference

The checker's state is one record `S`: `heap` (the type variables, each with the
id it was given and what it is bound to), `next` (the id that comes next), `env`
(the scope), `types` (the table of composite annotations) and `ok`. A variable is
an object and an id, and the two are not the same: `NewVar` is `new_type_var`,
which takes an id, `Unknown` the many places that only look at the next id, so
that several variables have it. `Unify`, `Occurs`, `Equals`, `Generalize` and
`Substitute` are the functions of `unification.hpp` and `type.hpp`; `Infer` has a
case for each kind of expression. `Init` is the registration of all signatures
(twice, as `check_program` does), and there is one action for each way a
statement can be met: the first plain assignment to a name, which an earlier pass
has made a declaration, a later one, an annotated declaration, an expression, a
def. The check of a program ends with its first error.

The reference is `typings`: the set of all ways to give each name one closed type
so that every statement so far is well typed, computed forward from the statements
alone (`HasTypes`, `Step`). `Ground` bounds the types it tries for an unknown.
`Sound` reads the variables the checker left open in every way, and each reading
must be a typing; `Complete` and `Principal` are the other directions.

`Sources` are the programs: defs and a pool of statements. A program with an
unknown has one, and no other variable before it: with two, or after a generic
def, the ids collide (section 6).

### MCNvFrontEnd and MCNvConstructs

`MCNvFrontEnd` has the module manager, the session and the passes in one
specification, `MCNvConstructs` exceptions and parallel loops. The parts of each
share no variable, and the code that joins them hands a finished program, or a
closure, from one to the next; so one part is at work in a behaviour (`part`,
`construct`) and the others are at rest, and every part's properties are checked in
one run over the inputs of all. Interactions of the parts are not what these two
modules show.

## 4. The runs

| run | bounds | question |
|---|---|---|
| `channels` | 3 threads with a variable each, 2 channels, 2 objects, 2 nodes | counts, nodes and pointers in every interleaving; refinement of `FifoChannels`; no lost wakeup |
| `threads` | main and 4 spawns, 2 slots, 2 closures | slots, references, results; refinement of `Futures`; every wait returns |
| `constructs` | 3 nested constructs, 2 errors of 2 types, all features or none, handler stack of 1; totals -1..9 and 18 on a type that ends at 7, up to 4 workers, refusals anywhere | depth, a pending error is watched, no abort inside a try, try/catch/finally as one expects for plain programs; each iteration once, nothing outlives the call |
| `propagate_after_nested` | 3 nested constructs, a try in a handler | *violation*, see findings |
| `sockets` | 2 connections, a listener and 2 handles with 3 bytes written; 1 stream with 7 bytes, a buffer of 4, a delimiter of 2, and requests of 3 (below the buffer), 6 (all of it) and 7 (above) | bytes in order, none twice, none missing but what `recv_until` had no room for, frames whole, reads return |
| `past_delimiter` | 1 stream, a buffer of 1, a delimiter of 1, requests of 4 | *violation*, see findings |
| `front_end` | every graph over 3 files and a prelude module from 23 import lists, 2 calls; 2 functions, 2 variables, inputs of 1-2 statements, 5 inputs; 1806 functions: 3 preambles, 301 loops and conditionals (4 with a loop in a loop), 2 epilogues, 5 undecided conditions, 16 objects | cycles and only cycles rejected, no walk over a replaced module, merge order, calls return; which inputs are accepted and run; no use after a drop, the caller's objects live, temporaries die, the output is the program's |
| `use_after_drop` | 12 functions with two names for one object and a loop | *violation* |
| `inner_break` | 6 functions with a break in an inner loop | *violation* |
| `comptime` | 2760 programs, depth 3, 4 iterations, 4 emitted statements | the expansion keeps the meaning, and refuses exactly what it must |
| `inference` | two pools: 20 statements over closed types with two generic defs, 18 about an element of a vector whose type is found out later with a plain def; programs of 5 | accepted programs are typed as the checker says, refused ones have no typing, and nothing is committed to too early |
| `infinite_type` | one pool of five statements about a name and a map of it | *violation* |

Why the bounds are enough. Channels: three threads give a sender, a receiver
that sleeps and one that overtakes it; two nodes give a `next` that matters; two
channels show that they do not mix. Threads: two slots and four spawns give a
full table, a failed create, and a slot reused while another wait gives one
back. Parallel loops: seven iterations on four workers have a full chunk, a
short one and none. Exceptions: an error in a handler inside a body needs three
nested constructs, and a handler stack of one overflows at the second handler.
Sockets: a delimiter of two bytes arrives in two pieces. In the code a request
may be smaller than the buffer, larger, or anything between; with a buffer of four
and a delimiter of two, 3 takes part of a full buffer and replaces the rest by what
is behind its delimiter, 6 fills the buffer to its last byte, 7 reads one byte too
many, and seven bytes written are enough for a small request after a large one. A listener with two connections overfills
two handles. Modules: three files have every
cycle shape that two names can tell apart. Session: five inputs are define,
fail, redefine, use, use again. Drops: a loop or conditional of two statements
has a use before, in, after and round it; five answers run a loop twice with a
choice in each iteration and after it. Comptime: recursion to depth three has a
caller and a callee with the same names twice over, and loops of four pass the
cap by one. Inference: five statements make an unknown, two names of types built
from it, the statement that decides it and one that disagrees, in every order;
`Ground` has the scalars and composites of them to depth two, so each value a
pool's program can give an unknown is there (`Sound` skips the readings that are
not, which composites of composites would make).

Fairness. `FairSpec` is weak fairness of each thread's own steps: the operating
system schedules every runnable thread, and a woken or unlocked thread
eventually gets the mutex (in the models a lock is taken only inside short
sections that always end). No fairness is assumed of a program's decision to
send, to spawn or to wait, nor of a socket's peers. `NvThreads` adds that bodies
return, which is the program's business; `WaitReturns` says so. For `NvSockets`
it is the runtime's thread that runs on, and a timeout that was set expires; for
`NvModules` the compiler runs on.

Deadlock is checked for channels and threads (a program may always make or drop
a value). It is off where a run ends: a call that has returned, a process that
has exited, a program that is checked, expanded or compiled and run, a session as
long as its bound, and a read without a timeout from a silent peer.

## 5. What is proved

`NvChannels_proofs`, for any sets of threads, variables, objects and nodes and
any number of channels:

    IInv == TypeOK /\ LocalInv /\ RefCountExact /\ NodesAccounted /\ PointersMatchFifo

is inductive (`InductiveInvariant`), whence `TypeCorrect`, `CountsExact`,
`NodesInOnePlace` and `PointersFollowFifo`. `LocalInv` is the strengthening: it
ties the program counters to the locks (a thread inside a critical section is
the holder of that channel's mutex) and to the locals (which channel and node a
call works on), without which two threads could both be between `SendLink` and
`SendTail` of one list. The counting argument changes one object's owners or
carriers at a time; the list argument has a step for each pointer store.
Assumption: `ChannelsAssumption` (finite sets, NULLs outside them).

`NvChannels_refinement` adds `Refinement == Spec => ImplementsFifo`. It uses `IInv`
twice over: a send or a receive must leave the *other* queued values and hands
alone, which holds because a node is in one place only (`NodesAccounted`), and
the node `recv` takes is the oldest message because `head` is the first of
`fifo` (`PointersMatchFifo`). `New`, `SendBegin`, `SendTail`, `RecvHead` and
`RecvFree` are the five abstract operations; every other step is a stutter.

`NvParallelFor_proofs`, for any limit on workers, any integer type, and any
totals, cpu counts, free slots and refusals:

    IInv == TypeOK /\ LoopInv /\ ProgressInv /\ RefCountExact

is inductive, whence `TypeCorrect`, `CountExact`, `NeverTwice` (`AtMostOnce`) and
`CompleteOnReturn` (`ReturnsComplete`). `LoopInv` says where the caller's loops
are and that the threads are those of chunks `0 .. started - 1`; `ProgressInv`
says that an iteration has been run exactly if some chunk that has begun is past
it, and that a chunk that has ended is at its end. The arithmetic is in lemmas
about the chunks: because `per` is rounded up they cover `[0, total)`, because
they come in order they are disjoint, and after the first chunk that does not
exist none does (which is why both loops may `break`).
Assumption: `ParallelForAssumption`.

`NvThreads_proofs`, for any number of slots, threads, spawns and closures:

    IInv == TypeOK /\ LockInv /\ CallInv /\ ClaimInv /\ BodyInv /\ ResultInv /\ RefCountExact

is inductive, whence `CountsExact`, `SlotsExact` (`SlotsAccounted`) and
`SlotsOwned` (`SlotBelongsToBody`). `wait` works without the lock, so what keeps
two calls off one slot is not the mutex but who may know the slot's number:
`ClaimInv` says that a live slot is claimed by the `spawn` that fills it, the `wait`
that gives it back or one id, and that claims never meet. `LockInv` is needed for
the one place where a slot has no claim yet (between the scan and the store to
`live`), `CallInv` so that the body of a spawn call cannot start before its
`pthread_create`, `BodyInv` so that a trampoline's stores go to its own slot, and
`ResultInv` so that the slot a `spawn` takes has no result of an earlier body.
Assumption: `ThreadsAssumption` (finitely many closures, for the counts).

Its second half is `Refinement == Spec => ImplementsFutures`: `pthread_create`,
the store of the result, the entry of `wait`, its read of the result and its
return are the five abstract operations. The read is the step that needs the
invariant: that the slot's result is the one of the body the id was given for,
and there since before the join, is `BodyInv` and `ResultInv`.

`NvExceptions_proofs`, for any nesting, errors, types, arms, limit of the handler
stack and set of features:

    IInv == TypeOK /\ StackInv /\ DepthAccounted /\ NoAbortInsideTry /\ PendingIsWatched
            /\ (Plain => PlainInv) /\ (Plain /\ MaxArms <= 1 => OneArmInv)

is inductive, whence `DepthExact`, `AbortsOutsideTries` and `ErrorsWatched` for every
program, and `FinallyBeforeExit` and `CatchesTheBody` for plain ones. The depth is
a cardinality over the levels of the control stack, so each push and pop of a
construct is a lemma about those sets. `PlainInv` says where an error can be
pending: in the innermost try body, or while a try further in still has arms or a
finally to go. `CatchesTheBody` has the hypothesis that a try has at most one arm,
which the run has too: with two, an error raised in the first arm's body is tested
against the second (section 6). Assumption: `ExceptionsAssumption` (there is a type
of error).

`NvSockets_proofs`, for any numbers of handles and connections and any buffer,
delimiter and sizes:

    IInv == TypeOK /\ SlotInv /\ CallInv /\ KeptInv /\ ClosedInv

is inductive, whence `ClosedIsDrained` (`ClosedMeansDrained`). Together with
`BytesInv`, which is `BytesAccounted` for each slot that has a stream, it is inductive still,
whence `BytesInOrder`, `Spec => []BytesAccounted`, with no hypothesis about sizes: a
step either moves bytes from the head of one part of `Stream` to the end of the part
before, or is the one that finds a delimiter and has no room for what is behind it,
and `lost` takes exactly what goes missing there. `KeptInv` bounds what a slot keeps.

`FramesCorrect` is about the streams of which nothing was lost. Added to `IInv` are
`PlacesInv` (what was taken from the kernel had arrived) and `FramesInv`: what was handed out ends where a frame does. From
such a place the first delimiter in the buffer, if it is searched from the buffer's
start, ends the next frame (`NextFrame`), and what the peer adds changes no earlier
one (`FramesInPrefix`). `FramesEndAt`
describes the frames of a stream by an equation, not by a recursive function, so
that no induction is needed; `FramesEndOnce` shows that only one set of places
solves it. Assumption of all these: `SocketsAssumption`.

`NvSession_proofs`, for any inputs over any functions and variables:

    IInv == TypeOK /\ DeclsInv /\ KeptFit /\ ScopesAgree /\ FunctionsKept
            /\ JustifiedIsAccepted /\ OnlyJustifiedAccepted

is inductive, whence `LatestKept`, `JustifiedInputs`, `OnlyJustifiedInputs`, and with
one more induction `AcceptedInputs`, for which the inputs that made lowering throw
count like refused ones: their names are in the scope without a definition. The
argument compares three things the session keeps apart: the scope, which every input enters names into, refused ones
included; `own`, what the accepted inputs alone would have entered; and the
definitions emitted again. `ScopesAgree` and `KeptFit` say how far they agree, and
each of their parts names the events after which it stops being true. `Omit` is a
recursive function; that it keeps what it should is proved by the least index at
which it would not. Assumption: `SessionAssumption` (functions and variables have
different names, a call is of a function, an input defines a function once).
`AcceptedInputs` assumes that lowering takes every statement that is not a
definition, as in the run; the property blames definitions only.

`NvModules_proofs`, for any files, prelude, spellings, imports and number of calls,
as long as no two files have one stem (`DistinctStems`):

    IInv == TypeOK /\ StoreInv /\ WalkInv /\ WalkedInv /\ StaleInv /\ PathInv
            /\ VisitedInv /\ CyclesAreReal

is inductive, whence `CyclesNeverAccepted` (`CyclesRejected`), `CyclesReportedAreReal`
and `ReplacedNeverUsed` (`NoUseOfReplaced`). `WalkInv` says that the open calls are a
path of the import graph and that each has loaded its own file; `WalkedInv`, that
every import a call has come back from leads to no circle. At the end of a module
that is true of all it imports, so of the module itself (`NoNewCycle`, from the
definition of `Reachable` as a least closed set: the closed set that refutes a new
circle is named, and there is no induction). The last call is the program's own.
That what is reported is a circle needs the other direction, `VisitedInv`: a name in
`visited` that may be asked for is that of an open call, although two names are
entered and one is taken out. `StaleInv` is why a replaced module is never used: only
a second walk of the same file can have replaced it, that walk is above the first,
and before it has come as far as the first it asks for the name the first asked for,
which is in `visited`.
Assumptions: `ModulesAssumption`, and `DistinctStems`, which the theorems state. The
run's files satisfy it, and it is needed: with two files of one stem TLC finds each
of the three properties violated, because the second takes the first one's place in
`modules`. The code stores modules by the stem and does not exclude it.

Only model-checked: liveness (`NoLostWakeup`, `WaitReturns`, `ReadReturns`,
`CompileReturns`), out of the prover's reach; and what is about programs as data:
`NvLowering`, `NvDrops`, `NvComptime` and `NvInference` are built on recursive
operators, for which the prover has no SMT backend, over trees, on which it has no
induction, and so is `NvMerge` (`DependenciesFirst`), over the import graph.

## 6. Findings

- `propagate_after_nested`: `nv_push_handler_error` saves the *pending* error,
  which is the one being caught, where the outer handler's was meant; after a
  nested try has caught something, `propagate` in the outer handler re-throws
  the inner error. For the same reason the error of an outermost handler, whose
  reference the handler has dropped, is still the runtime's after the catch.
- `use_after_drop`: the drop pass decides by the uses of one value. A loop that
  carries a name takes over its object, so in `a = 1; b = a; while c { b = b + a };
  write(a)` the loop's exit drops `a`'s object and the write reads it.
- `past_delimiter`: "Everything past the delimiter is kept for the next read"
  (`net_socket.c` 473), but only up to `NV_NET_PEND_MAX` bytes: with more, which a
  request of 65536 (the default, and `recv_line`'s in `stdlib/net.nv`) reads when a
  peer sends ahead, all of it is dropped (475); and it replaces what an earlier call
  left there and a smaller request did not read.
- `inner_break`: a break ends "the innermost loop" (`nir_break_stmt.cpp` 4-5), but the
  conversion meets the outer loop first, walks into the inner one and makes the
  inner loop's exits its own (`LowerNarvalControlFlowPass.cpp` 442-466).
- `infinite_type`: the occurs check searches composite types, but not maps
  (`unification.hpp` 203-241); after `a = v[0]; b = {"k": a}; a = b` every walk over
  the type of `a` is endless.

Other limits of the code are hazards with a note in `PROJECT.json`, and the
properties they concern say what they exclude: a
second wait for an id, a false cycle after an error or under two spellings,
`:reset` that keeps definitions, a finally that a throw in the handler or a return
skips, a sibling arm that catches, selects that read values from before the branch,
a comptime name found in the caller. Five of these hazards no property covers, and
their notes say so: the second wait, `:reset`, the caller's comptime names, colliding
ids of type variables and plain assignments to annotated names. What the code does
there is known (above and below) and nothing in the repository says what it ought to
do, or, for `:reset`, no more than its help text.

The type checker has more, which come out when the pools of `MCNvInference` are
widened by the statements named here:

- Accesses to elements make variables with an id they do not reserve. Two with one
  id count as equal and are not linked, so `a = v[0]; b = v[0]; a = b; a = 1;
  b = "x"` is accepted; and whether a first value is generalised depends on who
  else has its id.
- The first plain assignment to an annotated name becomes a second declaration,
  which is checked against nothing and ignored by the scope: `a: int = 1;
  a = Some(a)` is accepted.
- Elements of an array literal are compared by their kind only, so arrays of
  different element types may be elements of one array.
- In a def's body the type parameter may be bound to a type: `def liar<T>(p: T): T
  { return 1; }` is accepted.
- `Option<T>` stays in the table of annotations with the variable of the def that
  wrote it first.
- An argument is compared with a parameter's type and not unified with it:
  `f(Ok(1))` is refused for a parameter `Result<int, str>`.

## 7. What is not modelled

- Within modelled components: exceptions across threads (the globals are plain),
  `defer`; socket `poll`, addresses and datagrams; the bindings of the main
  program in the ownership pass (the runtime's table holds references of its
  own); a conditional with results whose branch leaves a loop (what MLIR makes
  of such a region is not in this repository); comptime strings, arrays,
  structs, reflection, macros, derive and the bodies of `try`; imports and typed
  declarations in a session.
- In the checker: floats and their silent exchange with integers, classes,
  interfaces, enums, tensors, futures, closures, operators, control-flow
  statements and defs with several parameters.
- Lexer and parser: sequential walks over text and trees, as long as the language
  is large and with no state that outlives a call.
- Containers: sequential data structures, seen here from the program that fills
  them. Closures, options, results and async: constructors and accessors.
- The language server answers one request at a time by running the front end;
  the driver and the home directory are file input and output.
- Bindings to libraries (crypto, sqlite, json), tensors (numerical code), the
  freestanding runtime (single-threaded copies of the same operations) and the
  standard library's Narval sources.

Each is in `PROJECT.json` with its reason.
