----------------------------- MODULE NvThreads -----------------------------
(***************************************************************************)
(* spawn(body) and wait(id) of the Narval runtime: nv_thread_spawn,        *)
(* nv_thread_trampoline and nv_thread_join of                              *)
(* src/backend/runtime/nir_bridge.c, with the reference counts of the      *)
(* closures that run.                                                      *)
(*                                                                         *)
(* An id is a slot of a fixed table.  Only spawn takes g_threads_lock;     *)
(* wait tests, reads and gives back a slot without it, and the trampoline  *)
(* writes its slot without it.  So one step of the model is one access to  *)
(* the table, the count or the lock.  A result is named by the body that   *)
(* returned it, and a body by the number of the spawn call that asked for  *)
(* it; 0 is the main thread.                                               *)
(***************************************************************************)
EXTENDS Integers, FiniteSets

CONSTANTS
  Closure,      \* the closure objects (addresses, reusable)
  NoClosure,    \* NULL
  MaxThreads,   \* NV_MAX_THREADS
  MaxSpawns     \* bound: the calls of spawn in one run of the program

ASSUME ThreadsAssumption ==
  /\ MaxThreads \in Nat \ {0}
  /\ MaxSpawns \in Nat
  /\ IsFiniteSet(Closure)
  /\ NoClosure \notin Closure

Main == 0
Body == 1 .. MaxSpawns
Actor == {Main} \cup Body
Slot == 0 .. MaxThreads - 1
NoBody == -1
NoSlot == -1

VARIABLES
  lock,      \* the holder of g_threads_lock, NoBody when it is free
  live,      \* g_threads[s].live
  tid,       \* g_threads[s].tid, the body the pthread runs
  closure,   \* g_threads[s].closure
  result,    \* g_threads[s].result
  rc,        \* the reference count of each closure; 0 once it is freed
  held,      \* the closures a thread's own variables hold
  ids,       \* the ids a thread has, each with the body it was handed out for
  spawns,    \* the calls of spawn so far
  pc,        \* where each thread is
  at,        \* the local variable slot of a call in progress
  home,      \* the slot a body's trampoline was given
  fn,        \* the closure a spawn call was given
  call,      \* the number of a thread's spawn call in progress
  want,      \* the body whose id a thread's wait was given
  got        \* the local variable result of wait

slotVars == <<live, tid, closure, result>>
callVars == <<at, home, fn, call, want, got>>
progVars == <<held, ids, spawns>>
vars == <<lock, slotVars, rc, progVars, pc, callVars>>

WaitPC == {"w_join", "w_take", "w_null", "w_free"}

Init ==
  /\ lock = NoBody
  /\ live = [s \in Slot |-> FALSE]
  /\ tid = [s \in Slot |-> NoBody]
  /\ closure = [s \in Slot |-> NoClosure]
  /\ result = [s \in Slot |-> NoBody]
  /\ rc = [c \in Closure |-> 0]
  /\ held = [a \in Actor |-> {}]
  /\ ids = [a \in Actor |-> {}]
  /\ spawns = 0
  /\ pc = [a \in Actor |-> IF a = Main THEN "idle" ELSE "unborn"]
  /\ at = [a \in Actor |-> NoSlot]
  /\ home = [k \in Body |-> NoSlot]
  /\ fn = [a \in Actor |-> NoClosure]
  /\ call = [a \in Actor |-> NoBody]
  /\ want = [a \in Actor |-> NoBody]
  /\ got = [a \in Actor |-> NoBody]

Goto(a, from, to) ==
  /\ pc[a] = from
  /\ pc' = [pc EXCEPT ![a] = to]

-----------------------------------------------------------------------------
(* The program between the calls makes closures and drops them.            *)

Create(a, c) ==
  /\ pc[a] = "idle"
  /\ rc[c] = 0
  /\ rc' = [rc EXCEPT ![c] = 1]
  /\ held' = [held EXCEPT ![a] = @ \cup {c}]
  /\ UNCHANGED <<lock, slotVars, ids, spawns, pc, callVars>>

Drop(a, c) ==
  /\ pc[a] = "idle"
  /\ c \in held[a]
  /\ rc' = [rc EXCEPT ![c] = @ - 1]
  /\ held' = [held EXCEPT ![a] = @ \ {c}]
  /\ UNCHANGED <<lock, slotVars, ids, spawns, pc, callVars>>

-----------------------------------------------------------------------------
(* spawn(body)                                                             *)

SpawnBegin(a, c) ==
  /\ Goto(a, "idle", "s_lock")
  /\ c \in held[a]
  /\ spawns < MaxSpawns
  /\ spawns' = spawns + 1
  /\ call' = [call EXCEPT ![a] = spawns + 1]
  /\ fn' = [fn EXCEPT ![a] = c]
  /\ UNCHANGED <<lock, slotVars, rc, held, ids, at, home, want, got>>

\* Mutant of SpawnLock: the table is scanned without the lock.
SpawnLockNotTaken(a) ==
  /\ Goto(a, "s_lock", "s_scan")
  /\ at' = [at EXCEPT ![a] = 0]
  /\ UNCHANGED <<lock, slotVars, rc, progVars, home, fn, call, want, got>>

SpawnLock(a) ==
  /\ Goto(a, "s_lock", "s_scan")
  /\ lock = NoBody
  /\ lock' = a
  /\ at' = [at EXCEPT ![a] = 0]
  /\ UNCHANGED <<slotVars, rc, progVars, home, fn, call, want, got>>

\* One turn of the loop that looks for a slot: wait may free a slot meanwhile.
SpawnScan(a) ==
  /\ pc[a] = "s_scan"
  /\ \/ /\ at[a] \notin Slot
        /\ pc' = [pc EXCEPT ![a] = "s_full"]
        /\ UNCHANGED at
     \/ /\ at[a] \in Slot /\ live[at[a]]
        /\ at' = [at EXCEPT ![a] = @ + 1]
        /\ UNCHANGED pc
     \/ /\ at[a] \in Slot /\ ~live[at[a]]
        /\ pc' = [pc EXCEPT ![a] = "s_fill"]
        /\ UNCHANGED at
  /\ UNCHANGED <<lock, slotVars, rc, progVars, home, fn, call, want, got>>

\* No room: unlock and return -1.
SpawnFull(a) ==
  /\ Goto(a, "s_full", "idle")
  /\ lock' = NoBody
  /\ at' = [at EXCEPT ![a] = NoSlot]
  /\ fn' = [fn EXCEPT ![a] = NoClosure]
  /\ call' = [call EXCEPT ![a] = NoBody]
  /\ UNCHANGED <<slotVars, rc, progVars, home, want, got>>

SpawnFill(a) ==
  /\ Goto(a, "s_fill", "s_unlock")
  /\ live' = [live EXCEPT ![at[a]] = TRUE]
  /\ result' = [result EXCEPT ![at[a]] = NoBody]
  /\ closure' = [closure EXCEPT ![at[a]] = fn[a]]
  /\ UNCHANGED <<lock, tid, rc, progVars, callVars>>

\* Mutant of SpawnUnlock: the lock is kept.
SpawnUnlockForgotten(a) ==
  /\ Goto(a, "s_unlock", "s_incref")
  /\ UNCHANGED <<lock, slotVars, rc, progVars, callVars>>

SpawnUnlock(a) ==
  /\ Goto(a, "s_unlock", "s_incref")
  /\ lock' = NoBody
  /\ UNCHANGED <<slotVars, rc, progVars, callVars>>

SpawnIncref(a) ==
  /\ Goto(a, "s_incref", "s_create")
  /\ rc' = [rc EXCEPT ![fn[a]] = @ + 1]
  /\ UNCHANGED <<lock, slotVars, progVars, callVars>>

\* pthread_create succeeds: the body's thread exists, and its id is returned.
SpawnCreate(a) ==
  LET k == call[a]
      s == at[a] IN
  /\ pc[a] = "s_create"
  /\ pc' = [pc EXCEPT ![a] = "idle", ![k] = "t_call"]
  /\ tid' = [tid EXCEPT ![s] = k]
  /\ at' = [at EXCEPT ![a] = NoSlot]
  /\ home' = [home EXCEPT ![k] = s]
  /\ ids' = [ids EXCEPT ![a] = @ \cup {[slot |-> s, body |-> k]}]
  /\ fn' = [fn EXCEPT ![a] = NoClosure]
  /\ call' = [call EXCEPT ![a] = NoBody]
  /\ UNCHANGED <<lock, live, closure, result, rc, held, spawns, want, got>>

\* pthread_create fails: give back the reference, clear the slot, return -1.
SpawnFail(a) ==
  /\ Goto(a, "s_create", "s_undo_ref")
  /\ UNCHANGED <<lock, slotVars, rc, progVars, callVars>>

\* Mutant of SpawnUndoRef: a failed pthread_create keeps the reference.
SpawnUndoRefForgotten(a) ==
  /\ Goto(a, "s_undo_ref", "s_undo_closure")
  /\ UNCHANGED <<lock, slotVars, rc, progVars, callVars>>

SpawnUndoRef(a) ==
  /\ Goto(a, "s_undo_ref", "s_undo_closure")
  /\ rc' = [rc EXCEPT ![fn[a]] = @ - 1]
  /\ UNCHANGED <<lock, slotVars, progVars, callVars>>

SpawnUndoClosure(a) ==
  /\ Goto(a, "s_undo_closure", "s_undo_live")
  /\ closure' = [closure EXCEPT ![at[a]] = NoClosure]
  /\ UNCHANGED <<lock, live, tid, result, rc, progVars, callVars>>

\* Mutant of SpawnUndoLive: a failed pthread_create keeps the slot.
SpawnUndoLiveForgotten(a) ==
  /\ Goto(a, "s_undo_live", "idle")
  /\ at' = [at EXCEPT ![a] = NoSlot]
  /\ fn' = [fn EXCEPT ![a] = NoClosure]
  /\ call' = [call EXCEPT ![a] = NoBody]
  /\ UNCHANGED <<lock, slotVars, rc, progVars, home, want, got>>

SpawnUndoLive(a) ==
  /\ Goto(a, "s_undo_live", "idle")
  /\ live' = [live EXCEPT ![at[a]] = FALSE]
  /\ at' = [at EXCEPT ![a] = NoSlot]
  /\ fn' = [fn EXCEPT ![a] = NoClosure]
  /\ call' = [call EXCEPT ![a] = NoBody]
  /\ UNCHANGED <<lock, tid, closure, result, rc, progVars, home, want, got>>

-----------------------------------------------------------------------------
(* The thread of body k: nv_thread_trampoline around the closure call.     *)

\* nv_invoke_closure_0(slot->closure, ...) enters the body.
BodyStart(k) ==
  /\ Goto(k, "t_call", "idle")
  /\ UNCHANGED <<lock, slotVars, rc, progVars, callVars>>

\* The body returns: its variables are dropped, its ids may travel with the
\* value it returns.
BodyReturn(k) ==
  /\ Goto(k, "idle", "t_result")
  /\ k # Main
  /\ rc' = [c \in Closure |-> IF c \in held[k] THEN rc[c] - 1 ELSE rc[c]]
  /\ held' = [held EXCEPT ![k] = {}]
  /\ UNCHANGED <<lock, slotVars, ids, spawns, callVars>>

StoreResult(k) ==
  /\ Goto(k, "t_result", "t_decref")
  /\ result' = [result EXCEPT ![home[k]] = k]
  /\ UNCHANGED <<lock, live, tid, closure, rc, progVars, callVars>>

DropClosure(k) ==
  /\ Goto(k, "t_decref", "t_null")
  /\ rc' = [rc EXCEPT ![closure[home[k]]] = @ - 1]
  /\ UNCHANGED <<lock, slotVars, progVars, callVars>>

ThreadExit(k) ==
  /\ Goto(k, "t_null", "exited")
  /\ closure' = [closure EXCEPT ![home[k]] = NoClosure]
  /\ UNCHANGED <<lock, live, tid, result, rc, progVars, callVars>>

-----------------------------------------------------------------------------
(* wait(id).  An id that is out of range (the -1 of a failed spawn) or     *)
(* whose slot is not live returns nothing and changes nothing.             *)

WaitBegin(a, h) ==
  /\ Goto(a, "idle", "w_join")
  /\ h \in ids[a]
  /\ live[h.slot]
  /\ at' = [at EXCEPT ![a] = h.slot]
  /\ want' = [want EXCEPT ![a] = h.body]
  /\ ids' = [ids EXCEPT ![a] = @ \ {h}]
  /\ UNCHANGED <<lock, slotVars, rc, held, spawns, home, fn, call, got>>

\* pthread_join: returns once the thread in the slot has ended.
WaitJoin(a) ==
  /\ Goto(a, "w_join", "w_take")
  /\ pc[tid[at[a]]] = "exited"
  /\ UNCHANGED <<lock, slotVars, rc, progVars, callVars>>

\* The result is read, and with it the ids the body returned.
WaitTake(a) ==
  LET k == result[at[a]] IN
  /\ Goto(a, "w_take", "w_null")
  /\ got' = [got EXCEPT ![a] = k]
  /\ ids' = IF k \in Body
            THEN [ids EXCEPT ![a] = @ \cup ids[k], ![k] = {}]
            ELSE ids
  /\ UNCHANGED <<lock, slotVars, rc, held, spawns, at, home, fn, call, want>>

\* Mutant of WaitNull: the result stays in the slot.
WaitNullForgotten(a) ==
  /\ Goto(a, "w_null", "w_free")
  /\ UNCHANGED <<lock, slotVars, rc, progVars, callVars>>

WaitNull(a) ==
  /\ Goto(a, "w_null", "w_free")
  /\ result' = [result EXCEPT ![at[a]] = NoBody]
  /\ UNCHANGED <<lock, live, tid, closure, rc, progVars, callVars>>

WaitFree(a) ==
  /\ Goto(a, "w_free", "idle")
  /\ live' = [live EXCEPT ![at[a]] = FALSE]
  /\ at' = [at EXCEPT ![a] = NoSlot]
  /\ want' = [want EXCEPT ![a] = NoBody]
  /\ got' = [got EXCEPT ![a] = NoBody]
  /\ UNCHANGED <<lock, tid, closure, result, rc, progVars, home, fn, call>>

-----------------------------------------------------------------------------

\* The steps of a call in progress and of the trampoline.
Continue(a) ==
  \/ SpawnLock(a) \/ SpawnScan(a) \/ SpawnFull(a) \/ SpawnFill(a)
  \/ SpawnUnlock(a) \/ SpawnIncref(a) \/ SpawnCreate(a) \/ SpawnFail(a)
  \/ SpawnUndoRef(a) \/ SpawnUndoClosure(a) \/ SpawnUndoLive(a)
  \/ WaitJoin(a) \/ WaitTake(a) \/ WaitNull(a) \/ WaitFree(a)
  \/ a # Main /\ (BodyStart(a) \/ StoreResult(a) \/ DropClosure(a) \/ ThreadExit(a))

Next ==
  \E a \in Actor :
    \/ \E c \in Closure : Create(a, c) \/ Drop(a, c) \/ SpawnBegin(a, c)
    \/ \E h \in ids[a] : WaitBegin(a, h)
    \/ BodyReturn(a)
    \/ Continue(a)

Spec == Init /\ [][Next]_vars

\* The scheduler runs every thread that can run, and every body returns.
FairSpec ==
  /\ Spec
  /\ \A a \in Actor : WF_vars(Continue(a))
  /\ \A k \in Body : WF_vars(BodyReturn(k))

-----------------------------------------------------------------------------
(* Safety.                                                                 *)

\* Body k is between pthread_create and the end of the trampoline's nv_decref:
\* its slot's closure is a reference of its own.
Running(k) == pc[k] \notin {"unborn", "t_null", "exited"}

\* A spawn call that has taken a reference for a thread that does not exist yet.
Handing(a) == pc[a] \in {"s_create", "s_undo_ref"}

HeldBy(c) == {a \in Actor : c \in held[a]}
HandedBy(c) == {a \in Actor : Handing(a) /\ fn[a] = c}
RunBy(c) == {k \in Body : Running(k) /\ closure[home[k]] = c}

\* The count of every closure is exact while any number of threads run it: the
\* program's variables, the calls handing it to a thread and the running
\* threads.  So nothing frees a closure a thread is still inside of, and a
\* failed pthread_create gives back just what it took.
RefCountExact ==
  \A c \in Closure :
    rc[c] = Cardinality(HeldBy(c)) + Cardinality(HandedBy(c)) + Cardinality(RunBy(c))

\* Who has a claim to slot s: the spawn call filling it, the id that was handed
\* out for it, the wait call that is giving it back.
Claims(s) ==
  {<<a, "spawn">> : a \in {b \in Actor : at[b] = s /\ pc[b] \in
      {"s_unlock", "s_incref", "s_create", "s_undo_ref", "s_undo_closure", "s_undo_live"}}}
  \cup {<<a, "wait">> : a \in {b \in Actor : at[b] = s /\ pc[b] \in WaitPC}}
  \cup {<<h.body, "id">> : h \in {g \in UNION {ids[a] : a \in Actor} : g.slot = s}}

\* A live slot belongs to exactly one of them and a slot that is not live to
\* none: no slot is lost, and none is handed out twice, although wait gives
\* slots back without taking the lock.
SlotsAccounted ==
  \A s \in Slot : Cardinality(Claims(s)) = IF live[s] THEN 1 ELSE 0

\* Until its wait has given the slot back, a body's slot holds its thread, its
\* closure while it runs and its result once it has one.
SlotBelongsToBody ==
  \A k \in Body :
    /\ Running(k) => /\ live[home[k]] /\ tid[home[k]] = k
                     /\ closure[home[k]] # NoClosure
    /\ pc[k] \in {"t_decref", "t_null"} => result[home[k]] = k

-----------------------------------------------------------------------------
(* The table implements Futures: a body finishes when its result is in its *)
(* slot, and the result is taken when wait reads it.                       *)

Taken(k) ==
  \/ result[home[k]] # k
  \/ \E a \in Actor : pc[a] = "w_null" /\ got[a] = k

Status(k) ==
  IF pc[k] = "unborn" THEN "none"
  ELSE IF pc[k] \notin {"t_decref", "t_null", "exited"} THEN "running"
  ELSE IF Taken(k) THEN "taken" ELSE "finished"

Abstract == INSTANCE Futures WITH
  status  <- [k \in Body |-> Status(k)],
  waiting <- want,
  answer  <- got

ImplementsFutures == Abstract!Spec

-----------------------------------------------------------------------------
(* Liveness.                                                               *)

\* Every wait returns, when bodies do: no wait is left on a thread that will
\* never be joined, whatever spawns fail or find the table full.
WaitReturns == \A a \in Actor : pc[a] \in WaitPC ~> pc[a] = "idle"
=============================================================================
