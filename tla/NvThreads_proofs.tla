-------------------------- MODULE NvThreads_proofs --------------------------
(***************************************************************************)
(* Proofs about NvThreads, for any table size, number of spawn calls and   *)
(* set of closures.  IInv is the inductive invariant: each of its parts    *)
(* says of one resource (the lock, the numbers of the calls, the slots,    *)
(* the threads, the results) who is using it, in terms of where the        *)
(* threads are.                                                            *)
(***************************************************************************)
EXTENDS NvThreads, FiniteSetTheorems, TLAPS

\* The stages of a call or a thread the parts of the invariant speak of.
LockedPC == {"s_scan", "s_full", "s_fill", "s_unlock"}
FilledPC == {"s_unlock", "s_incref", "s_create", "s_undo_ref", "s_undo_closure", "s_undo_live"}
SpawnPC == {"s_lock", "s_scan", "s_full", "s_fill"} \cup FilledPC
DonePC == {"t_decref", "t_null", "exited"}
PC == {"unborn", "idle", "t_call", "t_result"} \cup SpawnPC \cup WaitPC \cup DonePC

Filling(a) == pc[a] \in FilledPC
Waiting(a) == pc[a] \in WaitPC
Alive(k) == pc[k] \notin {"unborn", "exited"}
Done(k) == pc[k] \in DonePC

Id == [slot : Slot, body : Body]

TypeOK ==
  /\ lock \in Actor \cup {NoBody}
  /\ live \in [Slot -> BOOLEAN]
  /\ tid \in [Slot -> Body \cup {NoBody}]
  /\ closure \in [Slot -> Closure \cup {NoClosure}]
  /\ result \in [Slot -> Body \cup {NoBody}]
  /\ rc \in [Closure -> Nat]
  /\ held \in [Actor -> SUBSET Closure]
  /\ ids \in [Actor -> SUBSET Id]
  /\ spawns \in 0 .. MaxSpawns
  /\ pc \in [Actor -> PC]
  /\ at \in [Actor -> {NoSlot} \cup 0 .. MaxThreads]
  /\ home \in [Body -> Slot \cup {NoSlot}]
  /\ fn \in [Actor -> Closure \cup {NoClosure}]
  /\ call \in [Actor -> Body \cup {NoBody}]
  /\ want \in [Actor -> Body \cup {NoBody}]
  /\ got \in [Actor -> Body \cup {NoBody}]

\* g_threads_lock is held by the call that is between pthread_mutex_lock and
\* pthread_mutex_unlock; only such a call moves along the table.
LockInv ==
  /\ \A a \in Actor : lock = a <=> pc[a] \in LockedPC
  /\ \A a \in Actor : pc[a] = "s_scan" => at[a] # NoSlot
  /\ \A a \in Actor : pc[a] = "s_fill" => at[a] \in Slot /\ ~live[at[a]]

\* Every spawn call has a number of its own, and the body it will start does not
\* run yet.  The main thread is idle or calling.
CallInv ==
  /\ \A a \in Actor : pc[a] \in SpawnPC =>
       fn[a] \in held[a] /\ call[a] \in Body /\ call[a] <= spawns /\ pc[call[a]] = "unborn"
  /\ \A a, b \in Actor : pc[a] \in SpawnPC /\ pc[b] \in SpawnPC /\ a # b => call[a] # call[b]
  /\ \A k \in Body : pc[k] # "unborn" => k <= spawns
  /\ pc[Main] \in {"idle"} \cup SpawnPC \cup WaitPC

\* A live slot is claimed by a spawn call that fills it, a wait call that gives
\* it back or an id, and claims never meet.
ClaimInv ==
  /\ \A a \in Actor : Filling(a) \/ Waiting(a) => at[a] \in Slot /\ live[at[a]]
  /\ \A a \in Actor : \A h \in ids[a] : live[h.slot]
  /\ \A a, b \in Actor :
       (Filling(a) \/ Waiting(a)) /\ (Filling(b) \/ Waiting(b)) /\ a # b => at[a] # at[b]
  /\ \A a, b \in Actor : \A h \in ids[b] : Filling(a) \/ Waiting(a) => at[a] # h.slot
  /\ \A a, b \in Actor : \A h \in ids[a], g \in ids[b] : h.slot = g.slot => a = b /\ h = g
  /\ \A s \in Slot : live[s] =>
       \/ \E a \in Actor : (Filling(a) \/ Waiting(a)) /\ at[a] = s
       \/ \E a \in Actor : \E h \in ids[a] : h.slot = s

\* The slot of a body that has not ended is its own; ids and waits name the
\* body whose thread is in the slot.
BodyInv ==
  /\ \A k \in Body : Alive(k) => home[k] \in Slot /\ live[home[k]] /\ tid[home[k]] = k
  /\ \A a \in Actor, k \in Body : Filling(a) /\ Alive(k) => at[a] # home[k]
  /\ \A a \in Actor : \A h \in ids[a] :
       pc[h.body] # "unborn" /\ home[h.body] = h.slot /\ tid[h.slot] = h.body
  /\ \A a \in Actor : Waiting(a) =>
       /\ want[a] \in Body /\ pc[want[a]] # "unborn"
       /\ home[want[a]] = at[a] /\ tid[at[a]] = want[a]
       /\ pc[a] # "w_join" => pc[want[a]] = "exited"
  /\ \A k \in Body : Running(k) => closure[home[k]] \in Closure
  /\ \A a \in Actor : pc[a] \in FilledPC \ {"s_undo_live"} =>
       closure[at[a]] = fn[a]

\* A result is that of the body in the slot, there from the end of its call to
\* the wait that takes it; a slot that is not in use has none.
ResultInv ==
  /\ \A s \in Slot : result[s] # NoBody =>
       home[result[s]] = s /\ tid[s] = result[s] /\ Done(result[s])
  /\ \A k \in Body : pc[k] \in {"t_decref", "t_null"} => result[home[k]] = k
  /\ \A a \in Actor : \A h \in ids[a] : Done(h.body) => result[h.slot] = h.body
  /\ \A a \in Actor : pc[a] \in {"w_join", "w_take", "w_null"} =>
       (Done(want[a]) => result[at[a]] = want[a])
  /\ \A a \in Actor : Filling(a) \/ pc[a] = "w_free" => result[at[a]] = NoBody
  /\ \A s \in Slot : ~live[s] => result[s] = NoBody
  /\ \A a \in Actor : got[a] = IF pc[a] \in {"w_null", "w_free"} THEN want[a] ELSE NoBody
  /\ \A a \in Actor : ~Waiting(a) => want[a] = NoBody

IInv ==
  /\ TypeOK
  /\ LockInv
  /\ CallInv
  /\ ClaimInv
  /\ BodyInv
  /\ ResultInv
  /\ RefCountExact
-----------------------------------------------------------------------------

\* What the proofs need of the numbers that name threads and slots.
LEMMA Names ==
  /\ Actor = {Main} \cup Body /\ Main \notin Body /\ Main \in Actor
  /\ NoBody \notin Actor /\ NoSlot \notin Slot
  /\ Slot \subseteq 0 .. MaxThreads
  /\ \A k \in Body : k \in Actor /\ k \in Nat
BY ThreadsAssumption DEF Actor, Body, Main, NoBody, NoSlot, Slot

\* The sets the counts are taken over are finite.
LEMMA HoldersFinite ==
  ASSUME NEW c \in Closure
  PROVE  /\ IsFiniteSet(HeldBy(c)) /\ Cardinality(HeldBy(c)) \in Nat
         /\ IsFiniteSet(HandedBy(c)) /\ Cardinality(HandedBy(c)) \in Nat
         /\ IsFiniteSet(RunBy(c)) /\ Cardinality(RunBy(c)) \in Nat
<1>1. IsFiniteSet(Body)
  BY ThreadsAssumption, FS_Interval DEF Body
<1>2. IsFiniteSet(Actor)
  BY <1>1, FS_AddElement DEF Actor
<1>3. HeldBy(c) \subseteq Actor /\ HandedBy(c) \subseteq Actor /\ RunBy(c) \subseteq Actor
  BY Names DEF HeldBy, HandedBy, RunBy
<1>4. QED
  BY <1>2, <1>3, FS_Subset, FS_CardinalityType

\* A step after which the same threads hold, hand over and run every closure
\* keeps the counts.
LEMMA CountsFrame ==
  ASSUME RefCountExact, rc' = rc,
         \A c \in Closure : HeldBy(c)' = HeldBy(c) /\ HandedBy(c)' = HandedBy(c)
                            /\ RunBy(c)' = RunBy(c)
  PROVE  RefCountExact'
BY DEF RefCountExact

\* A set that gains or loses one element.
LEMMA OneMore ==
  ASSUME NEW S, IsFiniteSet(S), NEW x, x \notin S
  PROVE  Cardinality(S \cup {x}) = Cardinality(S) + 1
BY FS_AddElement

LEMMA OneLess ==
  ASSUME NEW S, IsFiniteSet(S), NEW x \in S
  PROVE  Cardinality(S \ {x}) = Cardinality(S) - 1 /\ Cardinality(S) >= 1
<1>1. Cardinality(S \ {x}) = Cardinality(S) - 1 /\ IsFiniteSet(S \ {x})
  BY FS_RemoveElement
<1>2. Cardinality(S) \in Nat /\ Cardinality(S) # 0
  BY FS_CardinalityType, FS_EmptySet
<1>3. QED
  BY <1>1, <1>2

\* A closure somebody holds, hands over or runs has not been freed.
LEMMA StillCounted ==
  ASSUME TypeOK, RefCountExact, NEW c \in Closure,
         HeldBy(c) \cup HandedBy(c) \cup RunBy(c) # {}
  PROVE  rc[c] - 1 \in Nat
<1>1. HeldBy(c) # {} \/ HandedBy(c) # {} \/ RunBy(c) # {}
  OBVIOUS
<1>2. /\ Cardinality(HeldBy(c)) \in Nat /\ Cardinality(HandedBy(c)) \in Nat
      /\ Cardinality(RunBy(c)) \in Nat
  BY HoldersFinite
<1>3. \/ Cardinality(HeldBy(c)) # 0 \/ Cardinality(HandedBy(c)) # 0
      \/ Cardinality(RunBy(c)) # 0
  BY <1>1, HoldersFinite, FS_EmptySet
<1>4. rc[c] = Cardinality(HeldBy(c)) + Cardinality(HandedBy(c)) + Cardinality(RunBy(c))
  BY DEF RefCountExact
<1>5. QED
  BY <1>2, <1>3, <1>4

\* The counts of a closure of which one holder comes, goes or changes its part.
LEMMA CountsStep ==
  ASSUME TypeOK, RefCountExact, NEW c \in Closure,
         \A d \in Closure \ {c} : rc'[d] = rc[d] /\ HeldBy(d)' = HeldBy(d)
                                  /\ HandedBy(d)' = HandedBy(d) /\ RunBy(d)' = RunBy(d),
         rc'[c] = rc[c] + (Cardinality(HeldBy(c)') - Cardinality(HeldBy(c)))
                        + (Cardinality(HandedBy(c)') - Cardinality(HandedBy(c)))
                        + (Cardinality(RunBy(c)') - Cardinality(RunBy(c))),
         Cardinality(HeldBy(c)') \in Int /\ Cardinality(HandedBy(c)') \in Int
           /\ Cardinality(RunBy(c)') \in Int
  PROVE  RefCountExact'
<1> SUFFICES ASSUME NEW d \in Closure
             PROVE  rc'[d] = Cardinality(HeldBy(d)') + Cardinality(HandedBy(d)')
                             + Cardinality(RunBy(d)')
  BY DEF RefCountExact
<1>1. rc[d] = Cardinality(HeldBy(d)) + Cardinality(HandedBy(d)) + Cardinality(RunBy(d))
  BY DEF RefCountExact
<1>2. CASE d # c
  BY <1>1, <1>2
<1>3. CASE d = c
  BY <1>1, <1>3, HoldersFinite
<1>4. QED
  BY <1>2, <1>3

\* A step that touches no claim keeps the slots accounted for.
LEMMA ClaimFrame ==
  ASSUME ClaimInv, UNCHANGED <<live, ids>>,
         \A b \in Actor : /\ Filling(b)' <=> Filling(b)
                          /\ Waiting(b)' <=> Waiting(b)
                          /\ Filling(b) \/ Waiting(b) => at'[b] = at[b]
  PROVE  ClaimInv'
BY DEF ClaimInv

\* Where a thread neither fills a slot, nor gives one back, nor is beyond its
\* body.
QuietPC == {"idle", "t_call", "t_result", "s_lock", "s_scan", "s_full", "s_fill"}

\* A step that leaves the table and the ids alone and stays within such a stage
\* keeps the claims, the slots of the bodies and the results.
LEMMA QuietStep ==
  ASSUME TypeOK, ClaimInv, BodyInv, ResultInv,
         UNCHANGED <<live, tid, closure, result, ids, home, want, got>>,
         \A b \in Actor : \/ pc'[b] = pc[b]
                          \/ pc[b] \in QuietPC /\ pc'[b] \in QuietPC
                          \/ /\ pc[b] \in FilledPC \ {"s_undo_live"}
                             /\ pc'[b] \in FilledPC \ {"s_undo_live"},
         \A b \in Actor : Filling(b) \/ Waiting(b) => at'[b] = at[b] /\ fn'[b] = fn[b]
  PROVE  ClaimInv' /\ BodyInv' /\ ResultInv'
<1>1. \A b \in Actor : /\ Filling(b)' <=> Filling(b)
                       /\ Waiting(b)' <=> Waiting(b)
                       /\ Done(b)' <=> Done(b)
                       /\ Alive(b)' <=> Alive(b)
                       /\ Running(b)' <=> Running(b)
                       /\ pc'[b] # pc[b] => pc[b] \in QuietPC \cup FilledPC
  BY DEF Filling, Waiting, Done, Alive, Running, QuietPC, FilledPC, WaitPC, DonePC
<1>2. ClaimInv'
  BY <1>1, ClaimFrame
<1>3. BodyInv'
  <2>1. \A b \in Actor : /\ pc'[b] = "unborn" <=> pc[b] = "unborn"
                         /\ pc'[b] = "w_join" <=> pc[b] = "w_join"
                         /\ pc'[b] = "exited" <=> pc[b] = "exited"
    BY DEF QuietPC, FilledPC
  <2>2. \A b \in Actor : Waiting(b) =>
          pc'[b] = pc[b] /\ want[b] \in Actor /\ (pc'[want[b]] = "exited" <=> pc[want[b]] = "exited")
    BY <2>1, Names DEF BodyInv, Waiting, WaitPC, QuietPC, FilledPC
  <2>3. \A b \in Actor : pc'[b] \in FilledPC \ {"s_undo_live"} => closure[at'[b]] = fn'[b]
    BY DEF BodyInv, QuietPC, FilledPC, Filling
  <2>4. QED
    BY <1>1, <2>1, <2>2, <2>3, Names DEF BodyInv, TypeOK, Id
<1>4. ResultInv'
  <2>1. \A b \in Actor : Waiting(b) => pc'[b] = pc[b] /\ want[b] \in Actor
    BY Names DEF BodyInv, Waiting, WaitPC, QuietPC, FilledPC
  <2>2. \A b \in Actor : pc'[b] \in WaitPC \cup {"t_decref", "t_null"} => pc'[b] = pc[b]
    BY DEF QuietPC, FilledPC, WaitPC
  <2>3. \A s \in Slot : result[s] # NoBody => result[s] \in Actor
    BY Names DEF TypeOK
  <2>4. QED
    BY <1>1, <2>1, <2>2, <2>3, Names DEF ResultInv, TypeOK, Id, Waiting, WaitPC
<1>5. QED
  BY <1>2, <1>3, <1>4

\* A step within waiting before the result is read, or within the end of a
\* thread, keeps the results.
LEMMA ResultFrame ==
  ASSUME TypeOK, BodyInv, ResultInv,
         UNCHANGED <<live, tid, result, ids, at, home, want, got>>,
         \A b \in Actor : \/ pc'[b] = pc[b]
                          \/ pc[b] \in FilledPC /\ pc'[b] \in FilledPC
                          \/ pc[b] \in {"w_join", "w_take"} /\ pc'[b] \in {"w_join", "w_take"}
                          \/ pc[b] \in {"t_decref", "t_null"} /\ pc'[b] \in DonePC
  PROVE  ResultInv'
<1>1. \A b \in Actor : /\ Filling(b)' <=> Filling(b)
                       /\ Waiting(b)' <=> Waiting(b)
                       /\ Done(b)' <=> Done(b)
                       /\ pc'[b] \in {"w_null", "w_free"} => pc'[b] = pc[b]
                       /\ pc[b] \in {"w_null", "w_free"} => pc'[b] = pc[b]
                       /\ pc'[b] \in {"w_join", "w_take"} => pc[b] \in {"w_join", "w_take"}
                       /\ pc'[b] \in {"t_decref", "t_null"} => pc[b] \in {"t_decref", "t_null"}
  BY DEF Filling, Waiting, Done, FilledPC, WaitPC, DonePC
<1>2. \A s \in Slot : result[s] # NoBody => result[s] \in Actor
  BY Names DEF TypeOK
<1>3. \A b \in Actor : Waiting(b) => want[b] \in Actor
  BY Names DEF BodyInv
<1>4. \A b \in Actor : \A h \in ids[b] : h.body \in Actor
  BY Names DEF TypeOK, Id
<1>5. /\ \A s \in Slot : result'[s] # NoBody =>
           home'[result'[s]] = s /\ tid'[s] = result'[s] /\ Done(result[s])'
      /\ \A k \in Body : pc'[k] \in {"t_decref", "t_null"} => result'[home'[k]] = k
      /\ \A b \in Actor : \A h \in ids'[b] : Done(h.body)' => result'[h.slot] = h.body
  BY <1>1, <1>2, <1>4, Names DEF ResultInv
<1>6. /\ \A b \in Actor : pc'[b] \in {"w_join", "w_take", "w_null"} =>
           (Done(want[b])' => result'[at'[b]] = want'[b])
      /\ \A b \in Actor : Filling(b)' \/ pc'[b] = "w_free" => result'[at'[b]] = NoBody
  BY <1>1, <1>3 DEF ResultInv, Waiting, WaitPC
<1>7. /\ \A s \in Slot : ~live'[s] => result'[s] = NoBody
      /\ \A b \in Actor : got'[b] = IF pc'[b] \in {"w_null", "w_free"} THEN want'[b] ELSE NoBody
      /\ \A b \in Actor : ~Waiting(b)' => want'[b] = NoBody
  BY <1>1 DEF ResultInv
<1>8. QED
  BY <1>5, <1>6, <1>7 DEF ResultInv

LEMMA CreateStep ==
  ASSUME IInv, NEW a \in Actor, NEW c \in Closure, Create(a, c)
  PROVE  IInv'
<1> USE Names DEF IInv, Create, Goto, slotVars, progVars, callVars
<1>1. TypeOK'
  BY DEF TypeOK, PC, SpawnPC, FilledPC, WaitPC, DonePC
<1>2. LockInv'
  BY DEF TypeOK, LockInv, LockedPC
<1>3. CallInv'
  BY DEF TypeOK, CallInv, SpawnPC, FilledPC, WaitPC
<1>4. ClaimInv' /\ BodyInv' /\ ResultInv'
  BY QuietStep DEF TypeOK, QuietPC, Filling, Waiting, FilledPC, WaitPC
<1>5. RefCountExact'
  <2>1. \A d \in Closure \ {c} : rc'[d] = rc[d] /\ HeldBy(d)' = HeldBy(d)
                                  /\ HandedBy(d)' = HandedBy(d) /\ RunBy(d)' = RunBy(d)
    BY DEF HeldBy, HandedBy, RunBy, Handing, Running, TypeOK
  <2>2. HeldBy(c)' = HeldBy(c) \cup {a}
    BY DEF HeldBy, HandedBy, RunBy, Handing, Running, TypeOK
  <2>3. a \notin HeldBy(c)
    BY StillCounted DEF HeldBy
  <2>4. Cardinality(HeldBy(c)') = Cardinality(HeldBy(c)) + 1
    BY <2>2, <2>3, OneMore, HoldersFinite
  <2>5. HandedBy(c)' = HandedBy(c)
    BY DEF HeldBy, HandedBy, RunBy, Handing, Running, TypeOK
  <2>6. RunBy(c)' = RunBy(c)
    BY DEF HeldBy, HandedBy, RunBy, Handing, Running, TypeOK
  <2>7. rc'[c] = rc[c] + 1 + 0 + 0
    BY DEF TypeOK
  <2>8. /\ rc'[c] = rc[c] + (Cardinality(HeldBy(c)') - Cardinality(HeldBy(c)))
             + (Cardinality(HandedBy(c)') - Cardinality(HandedBy(c)))
             + (Cardinality(RunBy(c)') - Cardinality(RunBy(c)))
        /\ Cardinality(HeldBy(c)') \in Int /\ Cardinality(HandedBy(c)') \in Int
        /\ Cardinality(RunBy(c)') \in Int
    BY <2>1, <2>4, <2>5, <2>6, <2>7, HoldersFinite DEF TypeOK
  <2>9. QED
    BY <2>1, <2>8, CountsStep
<1>6. QED
  BY <1>1, <1>2, <1>3, <1>4, <1>5

LEMMA DropStep ==
  ASSUME IInv, NEW a \in Actor, NEW c \in Closure, Drop(a, c)
  PROVE  IInv'
<1> USE Names DEF IInv, Drop, Goto, slotVars, progVars, callVars
<1>1. TypeOK'
  <2>1. a \in HeldBy(c)
    BY DEF HeldBy
  <2>2. rc[c] - 1 \in Nat
    BY <2>1, StillCounted
  <2>3. QED
    BY <2>2 DEF TypeOK
<1>2. LockInv'
  BY DEF TypeOK, LockInv, LockedPC
<1>3. CallInv'
  BY DEF TypeOK, CallInv, SpawnPC, FilledPC, WaitPC
<1>4. ClaimInv' /\ BodyInv' /\ ResultInv'
  BY QuietStep DEF TypeOK, QuietPC, Filling, Waiting, FilledPC, WaitPC
<1>5. RefCountExact'
  <2>1. \A d \in Closure \ {c} : rc'[d] = rc[d] /\ HeldBy(d)' = HeldBy(d)
                                  /\ HandedBy(d)' = HandedBy(d) /\ RunBy(d)' = RunBy(d)
    BY DEF HeldBy, HandedBy, RunBy, Handing, Running, TypeOK
  <2>2. HeldBy(c)' = HeldBy(c) \ {a}
    BY DEF HeldBy, HandedBy, RunBy, Handing, Running, TypeOK
  <2>3. a \in HeldBy(c)
    BY DEF HeldBy, HandedBy, RunBy, Handing, Running, TypeOK
  <2>4. Cardinality(HeldBy(c)') = Cardinality(HeldBy(c)) + -1
    BY <2>2, <2>3, OneLess, HoldersFinite
  <2>5. HandedBy(c)' = HandedBy(c)
    BY DEF HeldBy, HandedBy, RunBy, Handing, Running, TypeOK
  <2>6. RunBy(c)' = RunBy(c)
    BY DEF HeldBy, HandedBy, RunBy, Handing, Running, TypeOK
  <2>7. rc'[c] = rc[c] + -1 + 0 + 0
    BY DEF TypeOK
  <2>8. /\ rc'[c] = rc[c] + (Cardinality(HeldBy(c)') - Cardinality(HeldBy(c)))
             + (Cardinality(HandedBy(c)') - Cardinality(HandedBy(c)))
             + (Cardinality(RunBy(c)') - Cardinality(RunBy(c)))
        /\ Cardinality(HeldBy(c)') \in Int /\ Cardinality(HandedBy(c)') \in Int
        /\ Cardinality(RunBy(c)') \in Int
    BY <2>1, <2>4, <2>5, <2>6, <2>7, HoldersFinite DEF TypeOK
  <2>9. QED
    BY <2>1, <2>8, CountsStep
<1>6. QED
  BY <1>1, <1>2, <1>3, <1>4, <1>5

LEMMA SpawnBeginStep ==
  ASSUME IInv, NEW a \in Actor, NEW c \in Closure, SpawnBegin(a, c)
  PROVE  IInv'
<1> USE Names DEF IInv, SpawnBegin, Goto, slotVars, progVars, callVars
<1>1. TypeOK'
  BY ThreadsAssumption, SMTT(60) DEF TypeOK, PC, SpawnPC, FilledPC, WaitPC, DonePC, Body
<1>2. LockInv'
  BY DEF TypeOK, LockInv, LockedPC
<1>3. CallInv'
  BY ThreadsAssumption DEF TypeOK, CallInv, SpawnPC, FilledPC, WaitPC, Body
<1>4. ClaimInv' /\ BodyInv' /\ ResultInv'
  BY QuietStep DEF TypeOK, QuietPC, Filling, Waiting, FilledPC, WaitPC
<1>5. RefCountExact'
  BY CountsFrame DEF HeldBy, HandedBy, RunBy, Handing, Running, TypeOK
<1>6. QED
  BY <1>1, <1>2, <1>3, <1>4, <1>5

LEMMA SpawnLockStep ==
  ASSUME IInv, NEW a \in Actor, SpawnLock(a)
  PROVE  IInv'
<1> USE Names DEF IInv, SpawnLock, Goto, slotVars, progVars, callVars
<1>1. TypeOK'
  BY ThreadsAssumption DEF TypeOK, PC, SpawnPC, FilledPC, WaitPC, DonePC
<1>2. LockInv'
  BY DEF TypeOK, LockInv, LockedPC, NoSlot
<1>3. CallInv'
  BY DEF TypeOK, CallInv, SpawnPC, FilledPC, WaitPC
<1>4. ClaimInv' /\ BodyInv' /\ ResultInv'
  BY QuietStep DEF TypeOK, QuietPC, Filling, Waiting, FilledPC, WaitPC
<1>5. RefCountExact'
  BY CountsFrame DEF HeldBy, HandedBy, RunBy, Handing, Running, TypeOK
<1>6. QED
  BY <1>1, <1>2, <1>3, <1>4, <1>5

LEMMA SpawnScanStep ==
  ASSUME IInv, NEW a \in Actor, SpawnScan(a)
  PROVE  IInv'
<1> USE Names DEF IInv, SpawnScan, Goto, slotVars, progVars, callVars
<1>1. TypeOK'
  <2>1. CASE at[a] \in Slot /\ live[at[a]] /\ at' = [at EXCEPT ![a] = @ + 1] /\ UNCHANGED pc
    BY ThreadsAssumption, <2>1 DEF TypeOK, PC, SpawnPC, FilledPC, WaitPC, DonePC, Slot, LockInv
  <2>2. CASE at' = at
    BY ThreadsAssumption, <2>2 DEF TypeOK, PC, SpawnPC, FilledPC, WaitPC, DonePC, Slot, LockInv
  <2>3. QED
    BY ThreadsAssumption, <2>1, <2>2
<1>2. LockInv'
  <2>1. CASE at[a] \in Slot /\ live[at[a]] /\ at' = [at EXCEPT ![a] = @ + 1] /\ UNCHANGED pc
    BY ThreadsAssumption, <2>1 DEF TypeOK, LockInv, LockedPC, Slot, NoSlot
  <2>2. CASE at' = at
    BY ThreadsAssumption, <2>2 DEF TypeOK, LockInv, LockedPC, Slot, NoSlot
  <2>3. QED
    BY ThreadsAssumption, <2>1, <2>2
<1>3. CallInv'
  BY DEF TypeOK, CallInv, SpawnPC, FilledPC, WaitPC
<1>4. ClaimInv' /\ BodyInv' /\ ResultInv'
  BY QuietStep DEF TypeOK, QuietPC, Filling, Waiting, FilledPC, WaitPC
<1>5. RefCountExact'
  BY CountsFrame DEF HeldBy, HandedBy, RunBy, Handing, Running, TypeOK
<1>6. QED
  BY <1>1, <1>2, <1>3, <1>4, <1>5

LEMMA SpawnFullStep ==
  ASSUME IInv, NEW a \in Actor, SpawnFull(a)
  PROVE  IInv'
<1> USE Names DEF IInv, SpawnFull, Goto, slotVars, progVars, callVars
<1>1. TypeOK'
  BY DEF TypeOK, PC, SpawnPC, FilledPC, WaitPC, DonePC
<1>2. LockInv'
  BY DEF TypeOK, LockInv, LockedPC
<1>3. CallInv'
  BY DEF TypeOK, CallInv, SpawnPC, FilledPC, WaitPC
<1>4. ClaimInv' /\ BodyInv' /\ ResultInv'
  BY QuietStep DEF TypeOK, QuietPC, Filling, Waiting, FilledPC, WaitPC
<1>5. RefCountExact'
  BY CountsFrame DEF HeldBy, HandedBy, RunBy, Handing, Running, TypeOK
<1>6. QED
  BY <1>1, <1>2, <1>3, <1>4, <1>5

LEMMA SpawnFillStep ==
  ASSUME IInv, NEW a \in Actor, SpawnFill(a)
  PROVE  IInv'
<1> USE Names DEF IInv, SpawnFill, Goto, slotVars, progVars, callVars
<1>1. TypeOK'
  BY DEF TypeOK, PC, SpawnPC, FilledPC, WaitPC, DonePC, LockInv, CallInv
<1>2. LockInv'
  BY DEF TypeOK, LockInv, LockedPC
<1>3. CallInv'
  BY DEF TypeOK, CallInv, SpawnPC, FilledPC, WaitPC
<1>4. ClaimInv'
  BY SMTT(60) DEF TypeOK, ClaimInv, Filling, Waiting, FilledPC, WaitPC, Id, LockInv
<1>5. BodyInv'
  BY DEF TypeOK, BodyInv, Filling, Waiting, Alive, Running, FilledPC, WaitPC, Id, LockInv, ClaimInv
<1>6. ResultInv'
  BY SMTT(60)
  DEF TypeOK, ResultInv, Filling, Waiting, Done, FilledPC, WaitPC, DonePC, Id, LockInv, ClaimInv, BodyInv
<1>7. RefCountExact'
  <2>1. \A k \in Body : Running(k) => closure'[home[k]] = closure[home[k]]
    BY DEF TypeOK, LockInv, BodyInv, Running, Alive
  <2>2. QED
    BY <2>1, CountsFrame DEF HeldBy, HandedBy, RunBy, Handing, Running, TypeOK
<1>8. QED
  BY <1>1, <1>2, <1>3, <1>4, <1>5, <1>6, <1>7

LEMMA SpawnUnlockStep ==
  ASSUME IInv, NEW a \in Actor, SpawnUnlock(a)
  PROVE  IInv'
<1> USE Names DEF IInv, SpawnUnlock, Goto, slotVars, progVars, callVars
<1>1. TypeOK'
  BY DEF TypeOK, PC, SpawnPC, FilledPC, WaitPC, DonePC
<1>2. LockInv'
  BY DEF TypeOK, LockInv, LockedPC
<1>3. CallInv'
  BY DEF TypeOK, CallInv, SpawnPC, FilledPC, WaitPC
<1>4. ClaimInv' /\ BodyInv' /\ ResultInv'
  BY QuietStep DEF TypeOK, QuietPC, Filling, Waiting, FilledPC, WaitPC
<1>5. RefCountExact'
  BY CountsFrame DEF HeldBy, HandedBy, RunBy, Handing, Running, TypeOK
<1>6. QED
  BY <1>1, <1>2, <1>3, <1>4, <1>5

LEMMA SpawnIncrefStep ==
  ASSUME IInv, NEW a \in Actor, SpawnIncref(a)
  PROVE  IInv'
<1> USE Names DEF IInv, SpawnIncref, Goto, slotVars, progVars, callVars
<1>1. TypeOK'
  <2>1. fn[a] \in Closure
    BY DEF CallInv, SpawnPC, FilledPC, TypeOK
  <2>2. rc[fn[a]] + 1 \in Nat
    BY <2>1 DEF TypeOK
  <2>3. QED
    BY <2>2 DEF TypeOK, PC, SpawnPC, FilledPC
<1>2. LockInv'
  BY DEF TypeOK, LockInv, LockedPC
<1>3. CallInv'
  BY DEF TypeOK, CallInv, SpawnPC, FilledPC, WaitPC
<1>4. ClaimInv' /\ BodyInv' /\ ResultInv'
  BY QuietStep DEF TypeOK, QuietPC, Filling, Waiting, FilledPC, WaitPC
<1>5. RefCountExact'
  <2>0. fn[a] \in Closure
    BY DEF CallInv, SpawnPC, FilledPC, TypeOK
  <2>1. \A d \in Closure \ {fn[a]} : rc'[d] = rc[d] /\ HeldBy(d)' = HeldBy(d)
                                  /\ HandedBy(d)' = HandedBy(d) /\ RunBy(d)' = RunBy(d)
    BY <2>0 DEF HeldBy, HandedBy, RunBy, Handing, Running, TypeOK
  <2>2. HeldBy(fn[a])' = HeldBy(fn[a])
    BY <2>0 DEF HeldBy, HandedBy, RunBy, Handing, Running, TypeOK
  <2>3. HandedBy(fn[a])' = HandedBy(fn[a]) \cup {a}
    BY <2>0 DEF HeldBy, HandedBy, RunBy, Handing, Running, TypeOK
  <2>4. a \notin HandedBy(fn[a])
    BY <2>0 DEF HeldBy, HandedBy, RunBy, Handing, Running, TypeOK
  <2>5. Cardinality(HandedBy(fn[a])') = Cardinality(HandedBy(fn[a])) + 1
    BY <2>0, <2>3, <2>4, OneMore, HoldersFinite
  <2>6. RunBy(fn[a])' = RunBy(fn[a])
    BY <2>0 DEF HeldBy, HandedBy, RunBy, Handing, Running, TypeOK
  <2>7. rc'[fn[a]] = rc[fn[a]] + 0 + 1 + 0
    BY <2>0 DEF TypeOK
  <2>8. /\ rc'[fn[a]] = rc[fn[a]] + (Cardinality(HeldBy(fn[a])') - Cardinality(HeldBy(fn[a])))
             + (Cardinality(HandedBy(fn[a])') - Cardinality(HandedBy(fn[a])))
             + (Cardinality(RunBy(fn[a])') - Cardinality(RunBy(fn[a])))
        /\ Cardinality(HeldBy(fn[a])') \in Int /\ Cardinality(HandedBy(fn[a])') \in Int
        /\ Cardinality(RunBy(fn[a])') \in Int
    BY <2>0, <2>1, <2>2, <2>5, <2>6, <2>7, HoldersFinite DEF TypeOK
  <2>9. QED
    BY <2>0, <2>1, <2>8, CountsStep
<1>6. QED
  BY <1>1, <1>2, <1>3, <1>4, <1>5

LEMMA SpawnCreateStep ==
  ASSUME IInv, NEW a \in Actor, SpawnCreate(a)
  PROVE  IInv'
<1> USE Names DEF IInv, SpawnCreate, Goto, slotVars, progVars, callVars
<1>1. TypeOK'
  <2>1. at[a] \in Slot /\ call[a] \in Body
    BY DEF CallInv, ClaimInv, Filling, SpawnPC, FilledPC
  <2>2. ids' \in [Actor -> SUBSET Id]
    BY <2>1 DEF TypeOK, Id
  <2>3. QED
    BY <2>1, <2>2 DEF TypeOK, PC
<1>2. LockInv'
  BY DEF TypeOK, LockInv, LockedPC, CallInv, SpawnPC, FilledPC
<1>3. CallInv'
  BY DEF TypeOK, CallInv, SpawnPC, FilledPC, WaitPC
<1>4. ClaimInv'
  <2> DEFINE s == at[a]
  <2> DEFINE k == call[a]
  <2>0. /\ Filling(a) /\ s \in Slot /\ k \in Body /\ live[s] /\ pc[k] = "unborn" /\ a # k
    BY DEF CallInv, ClaimInv, Filling, FilledPC, SpawnPC
  <2>1. /\ \A b \in Actor : Filling(b)' => Filling(b) /\ b # a
        /\ \A b \in Actor : Waiting(b)' <=> Waiting(b)
        /\ \A b \in Actor : b # a => at'[b] = at[b]
        /\ ~Waiting(a)
        /\ \A j \in Body : Alive(j)' => Alive(j) \/ j = k
        /\ \A j \in Body : Done(j)' <=> Done(j)
    BY <2>0 DEF TypeOK, Filling, Waiting, Alive, Done, FilledPC, WaitPC, DonePC
  <2>2. /\ tid' = [tid EXCEPT ![s] = k]
        /\ home' = [home EXCEPT ![k] = s]
        /\ ids' = [ids EXCEPT ![a] = @ \cup {[slot |-> s, body |-> k]}]
        /\ UNCHANGED <<live, closure, result>>
    OBVIOUS

  <2>3. ASSUME NEW b \in Actor, NEW h \in ids'[b]
        PROVE  \/ h \in ids[b]
               \/ b = a /\ h.slot = s /\ h = [slot |-> s, body |-> k]
    BY <2>0, <2>2 DEF TypeOK
  <2>4. \A b \in Actor : Filling(b)' \/ Waiting(b)' => at'[b] \in Slot /\ live'[at'[b]]
    BY <2>0, <2>1, <2>2 DEF ClaimInv
  <2>5. \A b \in Actor : \A h \in ids'[b] : live'[h.slot]
    BY <2>0, <2>2, <2>3 DEF ClaimInv
  <2>6. \A b, d \in Actor : (Filling(b)' \/ Waiting(b)') /\ (Filling(d)' \/ Waiting(d)') /\ b # d
          => at'[b] # at'[d]
    BY <2>1 DEF ClaimInv
  <2>7. \A b, d \in Actor : \A h \in ids'[d] : Filling(b)' \/ Waiting(b)' => at'[b] # h.slot
    BY <2>0, <2>1, <2>3 DEF ClaimInv
  <2>8. \A b, d \in Actor : \A h \in ids'[b], g \in ids'[d] : h.slot = g.slot => b = d /\ h = g
    BY <2>0, <2>2, <2>3 DEF ClaimInv, TypeOK, Id
  <2>9. ASSUME NEW x \in Slot, live'[x]
        PROVE  \/ \E b \in Actor : (Filling(b)' \/ Waiting(b)') /\ at'[b] = x
               \/ \E b \in Actor : \E h \in ids'[b] : h.slot = x
    <3>1. CASE x = s
      <4>1. [slot |-> s, body |-> k] \in ids'[a]
        BY <2>2 DEF TypeOK
      <4>2. QED
        BY <3>1, <4>1
    <3>2. CASE x # s
      <4>1. \/ \E b \in Actor \ {a} : (Filling(b) \/ Waiting(b)) /\ at[b] = x
            \/ \E b \in Actor : \E h \in ids[b] : h.slot = x
        BY <2>2, <2>9, <3>2 DEF ClaimInv
      <4>2. \A b \in Actor \ {a} : Filling(b)' <=> Filling(b)
        BY <2>0 DEF TypeOK, Filling, FilledPC
      <4>3. \A b \in Actor : ids[b] \subseteq ids'[b]
        BY <2>2 DEF TypeOK
      <4>4. QED
        BY <2>1, <4>1, <4>2, <4>3
    <3>3. QED
      BY <3>1, <3>2
  <2>10. QED
    BY <2>4, <2>5, <2>6, <2>7, <2>8, <2>9 DEF ClaimInv
<1>5. BodyInv'
  <2> DEFINE s == at[a]
  <2> DEFINE k == call[a]
  <2>0. /\ Filling(a) /\ s \in Slot /\ k \in Body /\ live[s] /\ pc[k] = "unborn" /\ a # k
    BY DEF CallInv, ClaimInv, Filling, FilledPC, SpawnPC
  <2>1. /\ \A b \in Actor : Filling(b)' => Filling(b) /\ b # a
        /\ \A b \in Actor : Waiting(b)' <=> Waiting(b)
        /\ \A b \in Actor : b # a => at'[b] = at[b]
        /\ ~Waiting(a)
        /\ \A j \in Body : Alive(j)' => Alive(j) \/ j = k
        /\ \A j \in Body : Done(j)' <=> Done(j)
    BY <2>0 DEF TypeOK, Filling, Waiting, Alive, Done, FilledPC, WaitPC, DonePC
  <2>2. /\ tid' = [tid EXCEPT ![s] = k]
        /\ home' = [home EXCEPT ![k] = s]
        /\ ids' = [ids EXCEPT ![a] = @ \cup {[slot |-> s, body |-> k]}]
        /\ UNCHANGED <<live, closure, result>>
    OBVIOUS

  <2>3. /\ \A j \in Body : j # k => home'[j] = home[j]
        /\ home'[k] = s /\ tid'[s] = k /\ pc'[k] = "t_call"
        /\ \A x \in Slot : x # s => tid'[x] = tid[x]
    BY <2>0, <2>2 DEF TypeOK
  <2>4. \A j \in Body : Alive(j)' => home'[j] \in Slot /\ live'[home'[j]] /\ tid'[home'[j]] = j
    BY <2>0, <2>1, <2>2, <2>3 DEF BodyInv
  <2>5. \A b \in Actor, j \in Body : Filling(b)' /\ Alive(j)' => at'[b] # home'[j]
    BY <2>0, <2>1, <2>2, <2>3 DEF BodyInv, ClaimInv
  <2>6. ASSUME NEW b \in Actor, NEW h \in ids'[b]
        PROVE  pc'[h.body] # "unborn" /\ home'[h.body] = h.slot /\ tid'[h.slot] = h.body
    <3>1. CASE h \in ids[b]
      BY <2>0, <2>2, <2>3, <3>1 DEF BodyInv, ClaimInv, TypeOK, Id
    <3>2. CASE h = [slot |-> s, body |-> k]
      BY <2>3, <3>2
    <3>3. QED
      BY <2>2, <3>1, <3>2 DEF TypeOK
  <2>7. ASSUME NEW b \in Actor, Waiting(b)'
        PROVE  /\ want'[b] \in Body /\ pc'[want'[b]] # "unborn"
               /\ home'[want'[b]] = at'[b] /\ tid'[at'[b]] = want'[b]
               /\ pc'[b] # "w_join" => pc'[want'[b]] = "exited"
    <3>1. Waiting(b) /\ b # a /\ at'[b] = at[b] /\ want' = want /\ at[b] # s /\ at[b] \in Slot
      BY <2>0, <2>1, <2>7 DEF ClaimInv
    <3>2. pc'[b] = pc[b]
      BY <2>0, <2>7, <3>1 DEF TypeOK, Waiting, WaitPC
    <3>3. want[b] # k
      BY <2>0, <3>1 DEF BodyInv
    <3>4. QED
      BY <2>3, <3>1, <3>2, <3>3 DEF BodyInv, TypeOK
  <2>8. \A j \in Body : Running(j)' => closure'[home'[j]] \in Closure
    <3>1. closure[s] \in Closure
      BY <2>0 DEF BodyInv, CallInv, SpawnPC, FilledPC, TypeOK
    <3>2. \A j \in Body : Running(j)' => Running(j) \/ j = k
      BY <2>0 DEF TypeOK, Running
    <3>3. QED
      BY <2>2, <2>3, <3>1, <3>2 DEF BodyInv
  <2>9. \A b \in Actor : pc'[b] \in FilledPC \ {"s_undo_live"} => closure'[at'[b]] = fn'[b]
    BY <2>0, <2>2 DEF TypeOK, BodyInv, FilledPC
  <2>10. QED
    BY <2>4, <2>5, <2>6, <2>7, <2>8, <2>9, ZenonT(60) DEF BodyInv
<1>6. ResultInv'
  <2> DEFINE s == at[a]
  <2> DEFINE k == call[a]
  <2>0. /\ Filling(a) /\ s \in Slot /\ k \in Body /\ live[s] /\ pc[k] = "unborn" /\ a # k
    BY DEF CallInv, ClaimInv, Filling, FilledPC, SpawnPC
  <2>1. /\ \A b \in Actor : Filling(b)' => Filling(b) /\ b # a
        /\ \A b \in Actor : Waiting(b)' <=> Waiting(b)
        /\ \A b \in Actor : b # a => at'[b] = at[b]
        /\ ~Waiting(a)
        /\ \A j \in Body : Alive(j)' => Alive(j) \/ j = k
        /\ \A j \in Body : Done(j)' <=> Done(j)
    BY <2>0 DEF TypeOK, Filling, Waiting, Alive, Done, FilledPC, WaitPC, DonePC
  <2>2. /\ tid' = [tid EXCEPT ![s] = k]
        /\ home' = [home EXCEPT ![k] = s]
        /\ ids' = [ids EXCEPT ![a] = @ \cup {[slot |-> s, body |-> k]}]
        /\ UNCHANGED <<live, closure, result>>
    OBVIOUS

  <2>3. /\ \A j \in Body : j # k => home'[j] = home[j]
        /\ home'[k] = s
        /\ \A b \in Actor : pc'[b] # pc[b] => b \in {a, k}
        /\ pc'[a] = "idle" /\ pc'[k] = "t_call"
    BY <2>0, <2>2 DEF TypeOK
  <2>4. \A x \in Slot : result'[x] # NoBody =>
          home'[result'[x]] = x /\ tid'[x] = result'[x] /\ Done(result[x])'
    <3>1. ASSUME NEW x \in Slot, NEW j \in Body, result[x] = j
          PROVE  home'[j] = x /\ tid'[x] = j /\ Done(j)'
      <4>1. home[j] = x /\ tid[x] = j /\ Done(j)
        BY <3>1, Names DEF ResultInv
      <4>2. j # k /\ x # s
        BY <2>0, <3>1, <4>1, Names DEF ResultInv, Done, DonePC
      <4>3. QED
        BY <2>1, <2>2, <2>3, <4>1, <4>2 DEF TypeOK
    <3>2. \A x \in Slot : result'[x] # NoBody => result'[x] \in Body /\ result'[x] = result[x]
      BY <2>2 DEF TypeOK
    <3>3. QED
      BY <3>1, <3>2, ZenonT(60) DEF Done
  <2>5. \A j \in Body : pc'[j] \in {"t_decref", "t_null"} => result'[home'[j]] = j
    BY <2>0, <2>2, <2>3 DEF ResultInv
  <2>6. \A b \in Actor : \A h \in ids'[b] : Done(h.body)' => result'[h.slot] = h.body
    BY <2>0, <2>1, <2>2, <2>3 DEF ResultInv, TypeOK, Id, Done, DonePC
  <2>7. \A b \in Actor : pc'[b] \in {"w_join", "w_take", "w_null"} =>
          (Done(want[b])' => result'[at'[b]] = want'[b])
    <3> SUFFICES ASSUME NEW b \in Actor, pc'[b] \in {"w_join", "w_take", "w_null"}, Done(want[b])'
                 PROVE  result[at[b]] = want[b] /\ b # a
      BY <2>1, <2>2
    <3>1. pc[b] = pc'[b] /\ b # a
      BY <2>3
    <3>2. want[b] \in Body
      BY <3>1 DEF BodyInv, Waiting, WaitPC
    <3>3. QED
      BY <2>1, <3>1, <3>2 DEF ResultInv
  <2>8. \A b \in Actor : Filling(b)' \/ pc'[b] = "w_free" => result'[at'[b]] = NoBody
    BY <2>1, <2>2, <2>3 DEF ResultInv
  <2>9. /\ \A x \in Slot : ~live'[x] => result'[x] = NoBody
        /\ \A b \in Actor : ~Waiting(b)' => want'[b] = NoBody
    BY <2>1, <2>2 DEF ResultInv
  <2>10. \A b \in Actor : got'[b] = IF pc'[b] \in {"w_null", "w_free"} THEN want'[b] ELSE NoBody
    BY <2>0, <2>3, ZenonT(60) DEF ResultInv
  <2>11. QED
    BY <2>4, <2>5, <2>6, <2>7, <2>8, <2>9, <2>10, ZenonT(60) DEF ResultInv
<1>7. RefCountExact'
  <2> PICK c \in Closure : c = fn[a]
    BY DEF CallInv, SpawnPC, FilledPC, TypeOK
  <2> PICK k \in Body : k = call[a] /\ pc[k] = "unborn"
    BY DEF CallInv, SpawnPC, FilledPC
  <2>0. at[a] \in Slot /\ closure[at[a]] = c /\ a # k
    BY DEF ClaimInv, BodyInv, Filling, FilledPC
  <2>1. \A d \in Closure \ {c} : rc'[d] = rc[d] /\ HeldBy(d)' = HeldBy(d)
                                  /\ HandedBy(d)' = HandedBy(d) /\ RunBy(d)' = RunBy(d)
    BY <2>0 DEF HeldBy, HandedBy, RunBy, Handing, Running, TypeOK
  <2>2. HeldBy(c)' = HeldBy(c)
    BY <2>0 DEF HeldBy, HandedBy, RunBy, Handing, Running, TypeOK
  <2>3. HandedBy(c)' = HandedBy(c) \ {a}
    BY <2>0 DEF HeldBy, HandedBy, RunBy, Handing, Running, TypeOK
  <2>4. a \in HandedBy(c)
    BY <2>0 DEF HeldBy, HandedBy, RunBy, Handing, Running, TypeOK
  <2>5. Cardinality(HandedBy(c)') = Cardinality(HandedBy(c)) + -1
    BY <2>0, <2>3, <2>4, OneLess, HoldersFinite
  <2>6. RunBy(c)' = RunBy(c) \cup {k}
    BY <2>0 DEF HeldBy, HandedBy, RunBy, Handing, Running, TypeOK
  <2>7. k \notin RunBy(c)
    BY <2>0 DEF HeldBy, HandedBy, RunBy, Handing, Running, TypeOK
  <2>8. Cardinality(RunBy(c)') = Cardinality(RunBy(c)) + 1
    BY <2>0, <2>6, <2>7, OneMore, HoldersFinite
  <2>9. \A d \in Closure : rc'[d] = rc[d] /\ Cardinality(HeldBy(d)) \in Nat
                            /\ Cardinality(HandedBy(d)) \in Nat /\ Cardinality(RunBy(d)) \in Nat
    BY HoldersFinite
  <2>10. ASSUME NEW d \in Closure
         PROVE  rc'[d] = Cardinality(HeldBy(d)') + Cardinality(HandedBy(d)') + Cardinality(RunBy(d)')
    <3>1. rc[d] = Cardinality(HeldBy(d)) + Cardinality(HandedBy(d)) + Cardinality(RunBy(d))
      BY DEF RefCountExact
    <3>2. CASE d # c
      BY <2>1, <2>9, <3>1, <3>2
    <3>3. CASE d = c
      BY <2>2, <2>5, <2>8, <2>9, <3>1, <3>3
    <3>4. QED
      BY <3>2, <3>3
  <2>11. QED
    BY <2>10 DEF RefCountExact
<1>8. QED
  BY <1>1, <1>2, <1>3, <1>4, <1>5, <1>6, <1>7

LEMMA SpawnFailStep ==
  ASSUME IInv, NEW a \in Actor, SpawnFail(a)
  PROVE  IInv'
<1> USE Names DEF IInv, SpawnFail, Goto, slotVars, progVars, callVars
<1>1. TypeOK'
  BY DEF TypeOK, PC, SpawnPC, FilledPC, WaitPC, DonePC
<1>2. LockInv'
  BY DEF TypeOK, LockInv, LockedPC
<1>3. CallInv'
  BY DEF TypeOK, CallInv, SpawnPC, FilledPC, WaitPC
<1>4. ClaimInv' /\ BodyInv' /\ ResultInv'
  BY QuietStep DEF TypeOK, QuietPC, Filling, Waiting, FilledPC, WaitPC
<1>5. RefCountExact'
  BY CountsFrame DEF HeldBy, HandedBy, RunBy, Handing, Running, TypeOK
<1>6. QED
  BY <1>1, <1>2, <1>3, <1>4, <1>5

LEMMA SpawnUndoRefStep ==
  ASSUME IInv, NEW a \in Actor, SpawnUndoRef(a)
  PROVE  IInv'
<1> USE Names DEF IInv, SpawnUndoRef, Goto, slotVars, progVars, callVars
<1>1. TypeOK'
  <2>1. fn[a] \in Closure
    BY DEF CallInv, SpawnPC, FilledPC, TypeOK
  <2>2. a \in HandedBy(fn[a])
    BY DEF HandedBy, Handing
  <2>3. rc[fn[a]] - 1 \in Nat
    BY <2>1, <2>2, StillCounted
  <2>4. QED
    BY <2>3 DEF TypeOK, PC, SpawnPC, FilledPC
<1>2. LockInv'
  BY DEF TypeOK, LockInv, LockedPC
<1>3. CallInv'
  BY DEF TypeOK, CallInv, SpawnPC, FilledPC, WaitPC
<1>4. ClaimInv' /\ BodyInv' /\ ResultInv'
  BY QuietStep DEF TypeOK, QuietPC, Filling, Waiting, FilledPC, WaitPC
<1>5. RefCountExact'
  <2>0. fn[a] \in Closure
    BY DEF CallInv, SpawnPC, FilledPC, TypeOK
  <2>1. \A d \in Closure \ {fn[a]} : rc'[d] = rc[d] /\ HeldBy(d)' = HeldBy(d)
                                  /\ HandedBy(d)' = HandedBy(d) /\ RunBy(d)' = RunBy(d)
    BY <2>0 DEF HeldBy, HandedBy, RunBy, Handing, Running, TypeOK
  <2>2. HeldBy(fn[a])' = HeldBy(fn[a])
    BY <2>0 DEF HeldBy, HandedBy, RunBy, Handing, Running, TypeOK
  <2>3. HandedBy(fn[a])' = HandedBy(fn[a]) \ {a}
    BY <2>0 DEF HeldBy, HandedBy, RunBy, Handing, Running, TypeOK
  <2>4. a \in HandedBy(fn[a])
    BY <2>0 DEF HeldBy, HandedBy, RunBy, Handing, Running, TypeOK
  <2>5. Cardinality(HandedBy(fn[a])') = Cardinality(HandedBy(fn[a])) + -1
    BY <2>0, <2>3, <2>4, OneLess, HoldersFinite
  <2>6. RunBy(fn[a])' = RunBy(fn[a])
    BY <2>0 DEF HeldBy, HandedBy, RunBy, Handing, Running, TypeOK
  <2>7. rc'[fn[a]] = rc[fn[a]] + 0 + -1 + 0
    BY <2>0 DEF TypeOK
  <2>8. /\ rc'[fn[a]] = rc[fn[a]] + (Cardinality(HeldBy(fn[a])') - Cardinality(HeldBy(fn[a])))
             + (Cardinality(HandedBy(fn[a])') - Cardinality(HandedBy(fn[a])))
             + (Cardinality(RunBy(fn[a])') - Cardinality(RunBy(fn[a])))
        /\ Cardinality(HeldBy(fn[a])') \in Int /\ Cardinality(HandedBy(fn[a])') \in Int
        /\ Cardinality(RunBy(fn[a])') \in Int
    BY <2>0, <2>1, <2>2, <2>5, <2>6, <2>7, HoldersFinite DEF TypeOK
  <2>9. QED
    BY <2>0, <2>1, <2>8, CountsStep
<1>6. QED
  BY <1>1, <1>2, <1>3, <1>4, <1>5

LEMMA SpawnUndoClosureStep ==
  ASSUME IInv, NEW a \in Actor, SpawnUndoClosure(a)
  PROVE  IInv'
<1> USE Names DEF IInv, SpawnUndoClosure, Goto, slotVars, progVars, callVars
<1>1. TypeOK'
  BY DEF TypeOK, PC, SpawnPC, FilledPC, WaitPC, DonePC
<1>2. LockInv'
  BY DEF TypeOK, LockInv, LockedPC
<1>3. CallInv'
  BY DEF TypeOK, CallInv, SpawnPC, FilledPC, WaitPC
<1>4. ClaimInv'
  BY ClaimFrame DEF TypeOK, Filling, Waiting, FilledPC, WaitPC
<1>5. BodyInv'
  BY DEF TypeOK, BodyInv, Filling, Waiting, Alive, Running, FilledPC, WaitPC, Id, ClaimInv
<1>6. ResultInv'
  BY ResultFrame DEF TypeOK, FilledPC, DonePC
<1>7. RefCountExact'
  <2>1. \A k \in Body : Running(k) => closure'[home[k]] = closure[home[k]]
    BY DEF TypeOK, BodyInv, Running, Alive, Filling, FilledPC
  <2>2. QED
    BY <2>1, CountsFrame DEF HeldBy, HandedBy, RunBy, Handing, Running, TypeOK
<1>8. QED
  BY <1>1, <1>2, <1>3, <1>4, <1>5, <1>6, <1>7

LEMMA SpawnUndoLiveStep ==
  ASSUME IInv, NEW a \in Actor, SpawnUndoLive(a)
  PROVE  IInv'
<1> USE Names DEF IInv, SpawnUndoLive, Goto, slotVars, progVars, callVars
<1>1. TypeOK'
  BY DEF TypeOK, PC, SpawnPC, FilledPC, WaitPC, DonePC
<1>2. LockInv'
  BY DEF TypeOK, LockInv, LockedPC
<1>3. CallInv'
  BY DEF TypeOK, CallInv, SpawnPC, FilledPC, WaitPC
<1>4. ClaimInv'
  BY DEF TypeOK, ClaimInv, Filling, Waiting, FilledPC, WaitPC, Id
<1>5. BodyInv'
  BY DEF TypeOK, BodyInv, Filling, Waiting, Alive, Running, FilledPC, WaitPC, Id
<1>6. ResultInv'
  BY DEF TypeOK, ResultInv, Filling, Waiting, Done, FilledPC, WaitPC, DonePC, Id
<1>7. RefCountExact'
  BY CountsFrame DEF HeldBy, HandedBy, RunBy, Handing, Running, TypeOK
<1>8. QED
  BY <1>1, <1>2, <1>3, <1>4, <1>5, <1>6, <1>7

LEMMA WaitBeginStep ==
  ASSUME IInv, NEW a \in Actor, NEW h \in ids[a], WaitBegin(a, h)
  PROVE  IInv'
<1> USE Names DEF IInv, WaitBegin, Goto, slotVars, progVars, callVars
<1>1. TypeOK'
  <2>1. h \in Id
    BY DEF TypeOK
  <2>2. ids' \in [Actor -> SUBSET Id]
    BY DEF TypeOK
  <2>3. QED
    BY <2>1, <2>2 DEF TypeOK, PC, WaitPC, Id
<1>2. LockInv'
  BY DEF TypeOK, LockInv, LockedPC
<1>3. CallInv'
  BY DEF TypeOK, CallInv, SpawnPC, FilledPC, WaitPC
<1>4. ClaimInv'
  <2>1. /\ \A b \in Actor : Filling(b)' <=> Filling(b)
        /\ \A b \in Actor : Waiting(b)' <=> Waiting(b) \/ b = a
        /\ \A b \in Actor : b # a => at'[b] = at[b]
        /\ at'[a] = h.slot /\ ~Filling(a) /\ ~Waiting(a) /\ h.slot \in Slot
    BY DEF TypeOK, Filling, Waiting, FilledPC, WaitPC, Id
  <2>2. \A b \in Actor : \A g \in ids'[b] : g \in ids[b] /\ g.slot # h.slot
    BY DEF TypeOK, ClaimInv
  <2>3. \A b, d \in Actor :
          (Filling(b)' \/ Waiting(b)') /\ (Filling(d)' \/ Waiting(d)') /\ b # d => at'[b] # at'[d]
    BY <2>1 DEF ClaimInv
  <2>4. \A b, d \in Actor : \A g \in ids'[d] : Filling(b)' \/ Waiting(b)' => at'[b] # g.slot
    BY <2>1, <2>2 DEF ClaimInv
  <2>5. ASSUME NEW x \in Slot, live'[x]
        PROVE  \/ \E b \in Actor : (Filling(b)' \/ Waiting(b)') /\ at'[b] = x
               \/ \E b \in Actor : \E g \in ids'[b] : g.slot = x
    <3>1. CASE x = h.slot
      BY <2>1, <3>1
    <3>2. CASE x # h.slot
      <4>1. \A b \in Actor : \A g \in ids[b] : g.slot = x => g \in ids'[b]
        BY <3>2 DEF TypeOK
      <4>2. QED
        BY <2>1, <2>5, <4>1 DEF ClaimInv
    <3>3. QED
      BY <3>1, <3>2
  <2>6. QED
    BY <2>1, <2>2, <2>3, <2>4, <2>5 DEF ClaimInv
<1>5. BodyInv'
  BY DEF TypeOK, BodyInv, Filling, Waiting, Alive, Running, FilledPC, WaitPC, Id
<1>6. ResultInv'
  BY DEF TypeOK, ResultInv, Filling, Waiting, Done, FilledPC, WaitPC, DonePC, Id
<1>7. RefCountExact'
  BY CountsFrame DEF HeldBy, HandedBy, RunBy, Handing, Running, TypeOK
<1>8. QED
  BY <1>1, <1>2, <1>3, <1>4, <1>5, <1>6, <1>7

LEMMA WaitJoinStep ==
  ASSUME IInv, NEW a \in Actor, WaitJoin(a)
  PROVE  IInv'
<1> USE Names DEF IInv, WaitJoin, Goto, slotVars, progVars, callVars
<1>1. TypeOK'
  BY DEF TypeOK, PC, SpawnPC, FilledPC, WaitPC, DonePC
<1>2. LockInv'
  BY DEF TypeOK, LockInv, LockedPC
<1>3. CallInv'
  BY DEF TypeOK, CallInv, SpawnPC, FilledPC, WaitPC
<1>4. ClaimInv'
  BY ClaimFrame DEF TypeOK, Filling, Waiting, FilledPC, WaitPC
<1>5. BodyInv'
  BY DEF TypeOK, BodyInv, Filling, Waiting, Alive, Running, FilledPC, WaitPC, Id
<1>6. ResultInv'
  BY ResultFrame DEF TypeOK, FilledPC, DonePC
<1>7. RefCountExact'
  BY CountsFrame DEF HeldBy, HandedBy, RunBy, Handing, Running, TypeOK
<1>8. QED
  BY <1>1, <1>2, <1>3, <1>4, <1>5, <1>6, <1>7

LEMMA WaitTakeStep ==
  ASSUME IInv, NEW a \in Actor, WaitTake(a)
  PROVE  IInv'
<1> USE Names DEF IInv, WaitTake, Goto, slotVars, progVars, callVars
<1>1. TypeOK'
  <2>1. result[at[a]] \in Body \cup {NoBody}
    BY SMTT(60) DEF TypeOK, ClaimInv, Waiting, WaitPC
  <2>2. ids' \in [Actor -> SUBSET Id]
    BY <2>1 DEF TypeOK
  <2>3. QED
    BY <2>1, <2>2 DEF TypeOK, PC, WaitPC
<1>2. LockInv'
  BY DEF TypeOK, LockInv, LockedPC
<1>3. CallInv'
  BY DEF TypeOK, CallInv, SpawnPC, FilledPC, WaitPC
<1>4. ClaimInv'
  <2> DEFINE k == result[at[a]]
  <2>0. k = want[a] /\ k \in Body /\ pc[k] = "exited" /\ a # k
    BY DEF BodyInv, ResultInv, Waiting, WaitPC, Done, DonePC
  <2>1. /\ ids'[a] = ids[a] \cup ids[k] /\ ids'[k] = {}
        /\ \A b \in Actor \ {a, k} : ids'[b] = ids[b]
    BY <2>0 DEF TypeOK

  <2>2. \A b \in Actor : \A g \in ids'[b] :
          \E d \in Actor : g \in ids[d] /\ b = IF d = k THEN a ELSE d
    BY <2>0, <2>1, ZenonT(60)
  <2>3. \A d \in Actor : \A g \in ids[d] : \E b \in Actor : g \in ids'[b]
    BY <2>0, <2>1
  <2>4. \A b \in Actor : /\ Filling(b)' <=> Filling(b)
                         /\ Waiting(b)' <=> Waiting(b)
    BY DEF TypeOK, Filling, Waiting, FilledPC, WaitPC
  <2>5. \A b, d \in Actor : \A h \in ids'[b], g \in ids'[d] : h.slot = g.slot => b = d /\ h = g
    BY <2>2 DEF ClaimInv
  <2>6. \A b, d \in Actor : \A h \in ids'[d] : Filling(b)' \/ Waiting(b)' => at'[b] # h.slot
    BY <2>2, <2>4 DEF ClaimInv
  <2>7. ASSUME NEW x \in Slot, live'[x]
        PROVE  \/ \E b \in Actor : (Filling(b)' \/ Waiting(b)') /\ at'[b] = x
               \/ \E b \in Actor : \E g \in ids'[b] : g.slot = x
    <3>1. CASE \E b \in Actor : (Filling(b) \/ Waiting(b)) /\ at[b] = x
      BY <2>4, <3>1
    <3>2. CASE \E d \in Actor : \E g \in ids[d] : g.slot = x
      BY <2>3, <3>2, ZenonT(60)
    <3>3. QED
      BY <2>7, <3>1, <3>2, ZenonT(60) DEF ClaimInv
  <2>8. /\ \A b \in Actor : Filling(b)' \/ Waiting(b)' => at'[b] \in Slot /\ live'[at'[b]]
        /\ \A b \in Actor : \A g \in ids'[b] : live'[g.slot]
        /\ \A b, d \in Actor :
             (Filling(b)' \/ Waiting(b)') /\ (Filling(d)' \/ Waiting(d)') /\ b # d => at'[b] # at'[d]
    BY <2>2, <2>4, ZenonT(60) DEF ClaimInv
  <2>9. QED
    BY <2>5, <2>6, <2>7, <2>8, ZenonT(60) DEF ClaimInv
<1>5. BodyInv'
  BY DEF TypeOK, BodyInv, Filling, Waiting, Alive, Running, FilledPC, WaitPC, Id
<1>6. ResultInv'
  <2> DEFINE k == result[at[a]]
  <2>0. k = want[a] /\ k \in Body /\ pc[k] = "exited" /\ a # k
    BY DEF BodyInv, ResultInv, Waiting, WaitPC, Done, DonePC
  <2>1. /\ ids'[a] = ids[a] \cup ids[k] /\ ids'[k] = {}
        /\ \A b \in Actor \ {a, k} : ids'[b] = ids[b]
    BY <2>0 DEF TypeOK

  <2>2. \A b \in Actor : \A h \in ids'[b] : Done(h.body)' => result'[h.slot] = h.body
    <3>1. \A j \in Body : Done(j)' <=> Done(j)
      BY DEF TypeOK, Done, DonePC
    <3>2. \A b \in Actor : \A h \in ids'[b] : h \in ids[b] \/ h \in ids[k]
      BY <2>0, <2>1
    <3>3. QED
      BY <2>0, <3>1, <3>2 DEF ResultInv, TypeOK, Id
  <2>3. ASSUME NEW x \in Slot, result'[x] # NoBody
        PROVE  home'[result'[x]] = x /\ tid'[x] = result'[x] /\ Done(result[x])'
    <3>1. PICK j \in Body : j = result[x]
      BY <2>3 DEF TypeOK
    <3>2. home[j] = x /\ tid[x] = j /\ Done(j)
      BY <2>3, <3>1 DEF ResultInv
    <3>3. QED
      BY <3>1, <3>2 DEF TypeOK, Done, DonePC
  <2>4. \A b \in Actor : pc'[b] \in {"w_join", "w_take", "w_null"} =>
          (Done(want[b])' => result'[at'[b]] = want'[b])
    BY <2>0 DEF ResultInv, TypeOK, Done, DonePC
  <2>5. \A b \in Actor : got'[b] = IF pc'[b] \in {"w_null", "w_free"} THEN want'[b] ELSE NoBody
    BY <2>0 DEF ResultInv, TypeOK
  <2>6. /\ \A j \in Body : pc'[j] \in {"t_decref", "t_null"} => result'[home'[j]] = j
        /\ \A b \in Actor : Filling(b)' \/ pc'[b] = "w_free" => result'[at'[b]] = NoBody
        /\ \A b \in Actor : ~Waiting(b)' => want'[b] = NoBody
    BY DEF ResultInv, TypeOK, Filling, Waiting, FilledPC, WaitPC
  <2>7. \A x \in Slot : ~live'[x] => result'[x] = NoBody
    BY DEF ResultInv
  <2>8. QED
    BY <2>2, <2>3, <2>4, <2>5, <2>6, <2>7, ZenonT(60) DEF ResultInv
<1>7. RefCountExact'
  BY CountsFrame DEF HeldBy, HandedBy, RunBy, Handing, Running, TypeOK
<1>8. QED
  BY <1>1, <1>2, <1>3, <1>4, <1>5, <1>6, <1>7

LEMMA WaitNullStep ==
  ASSUME IInv, NEW a \in Actor, WaitNull(a)
  PROVE  IInv'
<1> USE Names DEF IInv, WaitNull, Goto, slotVars, progVars, callVars
<1>1. TypeOK'
  BY DEF TypeOK, PC, SpawnPC, FilledPC, WaitPC, DonePC
<1>2. LockInv'
  BY DEF TypeOK, LockInv, LockedPC
<1>3. CallInv'
  BY DEF TypeOK, CallInv, SpawnPC, FilledPC, WaitPC
<1>4. ClaimInv'
  BY ClaimFrame DEF TypeOK, Filling, Waiting, FilledPC, WaitPC
<1>5. BodyInv'
  BY DEF TypeOK, BodyInv, Filling, Waiting, Alive, Running, FilledPC, WaitPC, Id
<1>6. ResultInv'
  BY DEF TypeOK, ResultInv, Filling, Waiting, Done, FilledPC, WaitPC, DonePC, Id, ClaimInv, BodyInv
<1>7. RefCountExact'
  BY CountsFrame DEF HeldBy, HandedBy, RunBy, Handing, Running, TypeOK
<1>8. QED
  BY <1>1, <1>2, <1>3, <1>4, <1>5, <1>6, <1>7

LEMMA WaitFreeStep ==
  ASSUME IInv, NEW a \in Actor, WaitFree(a)
  PROVE  IInv'
<1> USE Names DEF IInv, WaitFree, Goto, slotVars, progVars, callVars
<1>1. TypeOK'
  BY DEF TypeOK, PC, SpawnPC, FilledPC, WaitPC, DonePC
<1>2. LockInv'
  BY DEF TypeOK, LockInv, LockedPC
<1>3. CallInv'
  BY DEF TypeOK, CallInv, SpawnPC, FilledPC, WaitPC
<1>4. ClaimInv'
  BY SMTT(60) DEF TypeOK, ClaimInv, Filling, Waiting, FilledPC, WaitPC, Id
<1>5. BodyInv'
  BY DEF TypeOK, BodyInv, Filling, Waiting, Alive, Running, FilledPC, WaitPC, Id
<1>6. ResultInv'
  BY DEF TypeOK, ResultInv, Filling, Waiting, Done, FilledPC, WaitPC, DonePC, Id
<1>7. RefCountExact'
  BY CountsFrame DEF HeldBy, HandedBy, RunBy, Handing, Running, TypeOK
<1>8. QED
  BY <1>1, <1>2, <1>3, <1>4, <1>5, <1>6, <1>7

LEMMA BodyStartStep ==
  ASSUME IInv, NEW k \in Body, BodyStart(k)
  PROVE  IInv'
<1> USE Names DEF IInv, BodyStart, Goto, slotVars, progVars, callVars
<1>1. TypeOK'
  BY DEF TypeOK, PC, SpawnPC, FilledPC, WaitPC, DonePC
<1>2. LockInv'
  BY DEF TypeOK, LockInv, LockedPC
<1>3. CallInv'
  BY DEF TypeOK, CallInv, SpawnPC, FilledPC, WaitPC
<1>4. ClaimInv' /\ BodyInv' /\ ResultInv'
  BY QuietStep DEF TypeOK, QuietPC, Filling, Waiting, FilledPC, WaitPC
<1>5. RefCountExact'
  BY CountsFrame DEF HeldBy, HandedBy, RunBy, Handing, Running, TypeOK
<1>6. QED
  BY <1>1, <1>2, <1>3, <1>4, <1>5

LEMMA BodyReturnStep ==
  ASSUME IInv, NEW k \in Body, BodyReturn(k)
  PROVE  IInv'
<1> USE Names DEF IInv, BodyReturn, Goto, slotVars, progVars, callVars
<1>1. TypeOK'
  <2>1. ASSUME NEW c \in held[k]
        PROVE  rc[c] - 1 \in Nat
    <3>1. c \in Closure /\ k \in HeldBy(c)
      BY DEF TypeOK, HeldBy
    <3>2. QED
      BY <3>1, StillCounted
  <2>2. rc' \in [Closure -> Nat]
    BY <2>1 DEF TypeOK
  <2>3. QED
    BY <2>2 DEF TypeOK, PC
<1>2. LockInv'
  BY DEF TypeOK, LockInv, LockedPC
<1>3. CallInv'
  BY DEF TypeOK, CallInv, SpawnPC, FilledPC, WaitPC
<1>4. ClaimInv' /\ BodyInv' /\ ResultInv'
  BY QuietStep DEF TypeOK, QuietPC, Filling, Waiting, FilledPC, WaitPC
<1>5. RefCountExact'
  <2>1. ASSUME NEW d \in Closure
        PROVE  /\ HandedBy(d)' = HandedBy(d) /\ RunBy(d)' = RunBy(d)
               /\ HeldBy(d)' = HeldBy(d) \ {k}
               /\ rc'[d] = IF k \in HeldBy(d) THEN rc[d] - 1 ELSE rc[d]
    BY DEF HeldBy, HandedBy, RunBy, Handing, Running, TypeOK
  <2>2. ASSUME NEW d \in Closure
        PROVE  rc'[d] = Cardinality(HeldBy(d)') + Cardinality(HandedBy(d)') + Cardinality(RunBy(d)')
    <3>1. rc[d] = Cardinality(HeldBy(d)) + Cardinality(HandedBy(d)) + Cardinality(RunBy(d))
      BY DEF RefCountExact
    <3>2. CASE k \in HeldBy(d)
      <4>1. Cardinality(HeldBy(d)') = Cardinality(HeldBy(d)) - 1
        BY <2>1, <3>2, OneLess, HoldersFinite
      <4>2. /\ Cardinality(HeldBy(d)) \in Nat /\ Cardinality(HandedBy(d)) \in Nat
            /\ Cardinality(RunBy(d)) \in Nat
        BY HoldersFinite
      <4>3. rc'[d] = rc[d] - 1
        BY <2>1, <3>2
      <4>4. QED
        BY <2>1, <3>1, <4>1, <4>2, <4>3
    <3>3. CASE k \notin HeldBy(d)
      <4>1. HeldBy(d) \ {k} = HeldBy(d)
        BY <3>3
      <4>2. QED
        BY <2>1, <3>1, <3>3, <4>1
    <3>4. QED
      BY <3>2, <3>3
  <2>3. QED
    BY <2>2 DEF RefCountExact
<1>6. QED
  BY <1>1, <1>2, <1>3, <1>4, <1>5

LEMMA StoreResultStep ==
  ASSUME IInv, NEW k \in Body, StoreResult(k)
  PROVE  IInv'
<1> USE Names DEF IInv, StoreResult, Goto, slotVars, progVars, callVars
<1>1. TypeOK'
  BY DEF TypeOK, PC, SpawnPC, FilledPC, WaitPC, DonePC
<1>2. LockInv'
  BY DEF TypeOK, LockInv, LockedPC
<1>3. CallInv'
  BY DEF TypeOK, CallInv, SpawnPC, FilledPC, WaitPC
<1>4. ClaimInv'
  BY ClaimFrame DEF TypeOK, Filling, Waiting, FilledPC, WaitPC
<1>5. BodyInv'
  BY DEF TypeOK, BodyInv, Filling, Waiting, Alive, Running, FilledPC, WaitPC, Id
<1>6. ResultInv'
  <2>0. /\ home[k] \in Slot /\ live[home[k]] /\ tid[home[k]] = k
        /\ \A x \in Slot : result'[x] = IF x = home[k] THEN k ELSE result[x]
        /\ \A j \in Body : Done(j)' <=> Done(j) \/ j = k
    BY SMTT(60) DEF BodyInv, Alive, TypeOK, Done, DonePC
  <2>1. ASSUME NEW x \in Slot, result'[x] # NoBody
        PROVE  home'[result'[x]] = x /\ tid'[x] = result'[x] /\ Done(result[x])'
    <3>1. PICK j \in Body : j = result'[x]
      BY <2>0, <2>1, ZenonT(60) DEF TypeOK
    <3>2. home[j] = x /\ tid[x] = j /\ Done(j)'
      BY <2>0, <2>1, <3>1 DEF ResultInv
    <3>3. QED
      BY <3>1, <3>2 DEF Done
  <2>2. \A j \in Body : pc'[j] \in {"t_decref", "t_null"} => result'[home'[j]] = j
    BY <2>0 DEF ResultInv, BodyInv, Alive, TypeOK
  <2>3. \A b \in Actor : \A h \in ids'[b] : Done(h.body)' => result'[h.slot] = h.body
    BY <2>0 DEF ResultInv, BodyInv, TypeOK, Id
  <2>4. \A b \in Actor : pc'[b] \in {"w_join", "w_take", "w_null"} =>
          (Done(want[b])' => result'[at'[b]] = want'[b])
    BY <2>0 DEF ResultInv, BodyInv, TypeOK, Waiting, WaitPC
  <2>5. \A b \in Actor : Filling(b)' \/ pc'[b] = "w_free" => result'[at'[b]] = NoBody
    BY <2>0, SMTT(60)
    DEF ResultInv, BodyInv, ClaimInv, TypeOK, Alive, Filling, Waiting, FilledPC, WaitPC
  <2>6. QED
    BY <2>0, <2>1, <2>2, <2>3, <2>4, <2>5 DEF ResultInv, TypeOK, Waiting, WaitPC
<1>7. RefCountExact'
  BY CountsFrame DEF HeldBy, HandedBy, RunBy, Handing, Running, TypeOK
<1>8. QED
  BY <1>1, <1>2, <1>3, <1>4, <1>5, <1>6, <1>7

LEMMA DropClosureStep ==
  ASSUME IInv, NEW k \in Body, DropClosure(k)
  PROVE  IInv'
<1> USE Names DEF IInv, DropClosure, Goto, slotVars, progVars, callVars
<1>1. TypeOK'
  <2>1. Running(k) /\ closure[home[k]] \in Closure
    BY DEF BodyInv, Running
  <2>2. k \in RunBy(closure[home[k]])
    BY <2>1 DEF RunBy
  <2>3. rc[closure[home[k]]] - 1 \in Nat
    BY <2>1, <2>2, StillCounted
  <2>4. QED
    BY <2>3 DEF TypeOK, PC, DonePC
<1>2. LockInv'
  BY DEF TypeOK, LockInv, LockedPC
<1>3. CallInv'
  BY DEF TypeOK, CallInv, SpawnPC, FilledPC, WaitPC
<1>4. ClaimInv'
  BY ClaimFrame DEF TypeOK, Filling, Waiting, FilledPC, WaitPC
<1>5. BodyInv'
  BY DEF TypeOK, BodyInv, Filling, Waiting, Alive, Running, FilledPC, WaitPC, Id
<1>6. ResultInv'
  BY ResultFrame DEF TypeOK, FilledPC, DonePC
<1>7. RefCountExact'
  <2>0. closure[home[k]] \in Closure /\ Running(k)
    BY DEF BodyInv, Running
  <2>1. \A d \in Closure \ {closure[home[k]]} : rc'[d] = rc[d] /\ HeldBy(d)' = HeldBy(d)
                                  /\ HandedBy(d)' = HandedBy(d) /\ RunBy(d)' = RunBy(d)
    BY <2>0 DEF HeldBy, HandedBy, RunBy, Handing, Running, TypeOK
  <2>2. HeldBy(closure[home[k]])' = HeldBy(closure[home[k]])
    BY <2>0 DEF HeldBy, HandedBy, RunBy, Handing, Running, TypeOK
  <2>3. HandedBy(closure[home[k]])' = HandedBy(closure[home[k]])
    BY <2>0 DEF HeldBy, HandedBy, RunBy, Handing, Running, TypeOK
  <2>4. RunBy(closure[home[k]])' = RunBy(closure[home[k]]) \ {k}
    BY <2>0 DEF HeldBy, HandedBy, RunBy, Handing, Running, TypeOK
  <2>5. k \in RunBy(closure[home[k]])
    BY <2>0 DEF HeldBy, HandedBy, RunBy, Handing, Running, TypeOK
  <2>6. Cardinality(RunBy(closure[home[k]])') = Cardinality(RunBy(closure[home[k]])) + -1
    BY <2>0, <2>4, <2>5, OneLess, HoldersFinite
  <2>7. rc'[closure[home[k]]] = rc[closure[home[k]]] + 0 + 0 + -1
    BY <2>0 DEF TypeOK
  <2>8. /\ rc'[closure[home[k]]] = rc[closure[home[k]]] + (Cardinality(HeldBy(closure[home[k]])') - Cardinality(HeldBy(closure[home[k]])))
             + (Cardinality(HandedBy(closure[home[k]])') - Cardinality(HandedBy(closure[home[k]])))
             + (Cardinality(RunBy(closure[home[k]])') - Cardinality(RunBy(closure[home[k]])))
        /\ Cardinality(HeldBy(closure[home[k]])') \in Int /\ Cardinality(HandedBy(closure[home[k]])') \in Int
        /\ Cardinality(RunBy(closure[home[k]])') \in Int
    BY <2>0, <2>1, <2>2, <2>3, <2>6, <2>7, HoldersFinite DEF TypeOK
  <2>9. QED
    BY <2>0, <2>1, <2>8, CountsStep
<1>8. QED
  BY <1>1, <1>2, <1>3, <1>4, <1>5, <1>6, <1>7

LEMMA ThreadExitStep ==
  ASSUME IInv, NEW k \in Body, ThreadExit(k)
  PROVE  IInv'
<1> USE Names DEF IInv, ThreadExit, Goto, slotVars, progVars, callVars
<1>1. TypeOK'
  BY DEF TypeOK, PC, SpawnPC, FilledPC, WaitPC, DonePC
<1>2. LockInv'
  BY DEF TypeOK, LockInv, LockedPC
<1>3. CallInv'
  BY DEF TypeOK, CallInv, SpawnPC, FilledPC, WaitPC
<1>4. ClaimInv'
  BY ClaimFrame DEF TypeOK, Filling, Waiting, FilledPC, WaitPC
<1>5. BodyInv'
  BY DEF TypeOK, BodyInv, Filling, Waiting, Alive, Running, FilledPC, WaitPC, Id
<1>6. ResultInv'
  BY ResultFrame DEF TypeOK, FilledPC, DonePC
<1>7. RefCountExact'
  <2>1. \A j \in Body : Running(j) => closure'[home[j]] = closure[home[j]]
    BY DEF TypeOK, BodyInv, Running, Alive
  <2>2. QED
    BY <2>1, CountsFrame DEF HeldBy, HandedBy, RunBy, Handing, Running, TypeOK
<1>8. QED
  BY <1>1, <1>2, <1>3, <1>4, <1>5, <1>6, <1>7

-----------------------------------------------------------------------------

LEMMA InitIInv == Init => IInv
<1> SUFFICES ASSUME Init PROVE IInv
  OBVIOUS
<1> USE Names DEF Init
<1>1. TypeOK
  BY ThreadsAssumption DEF TypeOK, PC
<1>2. LockInv /\ CallInv /\ ClaimInv
  BY DEF LockInv, LockedPC, CallInv, SpawnPC, FilledPC, WaitPC, ClaimInv, Filling, Waiting
<1>3. BodyInv /\ ResultInv
  BY DEF BodyInv, ResultInv, Alive, Running, Done, DonePC, Filling, Waiting, FilledPC, WaitPC
<1>4. RefCountExact
  <2> SUFFICES ASSUME NEW c \in Closure
               PROVE  rc[c] = Cardinality(HeldBy(c)) + Cardinality(HandedBy(c)) + Cardinality(RunBy(c))
    BY DEF RefCountExact
  <2>1. HeldBy(c) = {} /\ HandedBy(c) = {} /\ RunBy(c) = {}
    BY DEF HeldBy, HandedBy, RunBy, Handing, Running
  <2>2. Cardinality(HeldBy(c)) = 0 /\ Cardinality(HandedBy(c)) = 0 /\ Cardinality(RunBy(c)) = 0
    BY <2>1, FS_EmptySet
  <2>3. QED
    BY <2>2
<1>5. QED
  BY <1>1, <1>2, <1>3, <1>4 DEF IInv

LEMMA StutterIInv == IInv /\ UNCHANGED vars => IInv'
<1> SUFFICES ASSUME IInv, UNCHANGED vars PROVE IInv'
  OBVIOUS
<1> USE DEF IInv, vars, slotVars, progVars, callVars
<1>1. TypeOK' /\ LockInv' /\ CallInv'
  BY DEF TypeOK, LockInv, CallInv
<1>2. ClaimInv'
  BY DEF ClaimInv, Filling, Waiting
<1>3. BodyInv'
  BY DEF BodyInv, Filling, Waiting, Alive, Running
<1>4. ResultInv'
  BY DEF ResultInv, Filling, Waiting, Done
<1>5. RefCountExact'
  BY CountsFrame DEF HeldBy, HandedBy, RunBy, Handing, Running
<1>6. QED
  BY <1>1, <1>2, <1>3, <1>4, <1>5

LEMMA StepIInv == IInv /\ [Next]_vars => IInv'
<1> SUFFICES ASSUME IInv, Next PROVE IInv'
  BY StutterIInv
<1> PICK a \in Actor :
      \/ \E c \in Closure : Create(a, c) \/ Drop(a, c) \/ SpawnBegin(a, c)
      \/ \E h \in ids[a] : WaitBegin(a, h)
      \/ BodyReturn(a)
      \/ Continue(a)
  BY DEF Next
<1>1. CASE \E c \in Closure : Create(a, c) \/ Drop(a, c) \/ SpawnBegin(a, c)
  BY <1>1, CreateStep, DropStep, SpawnBeginStep
<1>2. CASE \E h \in ids[a] : WaitBegin(a, h)
  BY <1>2, WaitBeginStep
<1>3. CASE BodyReturn(a)
  <2>1. a \in Body
    BY <1>3, Names DEF BodyReturn
  <2>2. QED
    BY <1>3, <2>1, BodyReturnStep
<1>4. CASE Continue(a)
  <2>1. CASE a # Main /\ (BodyStart(a) \/ StoreResult(a) \/ DropClosure(a) \/ ThreadExit(a))
    <3>1. a \in Body
      BY <2>1, Names
    <3>2. QED
      BY <2>1, <3>1, BodyStartStep, StoreResultStep, DropClosureStep, ThreadExitStep
  <2>2. CASE \/ SpawnLock(a) \/ SpawnScan(a) \/ SpawnFull(a) \/ SpawnFill(a)
             \/ SpawnUnlock(a) \/ SpawnIncref(a) \/ SpawnCreate(a) \/ SpawnFail(a)
             \/ SpawnUndoRef(a) \/ SpawnUndoClosure(a) \/ SpawnUndoLive(a)
    BY <2>2, SpawnLockStep, SpawnScanStep, SpawnFullStep, SpawnFillStep, SpawnUnlockStep,
       SpawnIncrefStep, SpawnCreateStep, SpawnFailStep, SpawnUndoRefStep,
       SpawnUndoClosureStep, SpawnUndoLiveStep
  <2>3. CASE WaitJoin(a) \/ WaitTake(a) \/ WaitNull(a) \/ WaitFree(a)
    BY <2>3, WaitJoinStep, WaitTakeStep, WaitNullStep, WaitFreeStep
  <2>4. QED
    BY <1>4, <2>1, <2>2, <2>3 DEF Continue
<1>5. QED
  BY <1>1, <1>2, <1>3, <1>4

\* The inductive invariant holds in every state of every behaviour.
THEOREM InductiveInvariant == Spec => []IInv
BY InitIInv, StepIInv, PTL DEF Spec

\* Every variable of the thread table and of the calls keeps its type; in
\* particular no index leaves g_threads and no reference count goes below zero.
THEOREM TypeCorrect == Spec => []TypeOK
<1>1. IInv => TypeOK
  BY DEF IInv
<1>2. QED
  BY <1>1, InductiveInvariant, PTL

\* nv_thread_spawn and nv_thread_trampoline keep the count of a closure exact
\* whatever number of threads run it: nothing frees a closure a thread is inside
\* of, and a failed pthread_create gives back what it took.
THEOREM CountsExact == Spec => []RefCountExact
<1>1. IInv => RefCountExact
  BY DEF IInv
<1>2. QED
  BY <1>1, InductiveInvariant, PTL

\* The claims to a slot, one by one.
LEMMA ClaimsOfSlot ==
  ASSUME IInv, NEW s \in Slot
  PROVE  /\ \A x \in Claims(s), y \in Claims(s) : x = y
         /\ Claims(s) = {} <=> ~live[s]
<1> USE Names DEF IInv
<1> DEFINE User(a) == (Filling(a) \/ Waiting(a)) /\ at[a] = s
<1> DEFINE Named(h) == h.slot = s /\ \E b \in Actor : h \in ids[b]
<1>1. /\ \A a \in Actor : User(a) /\ Filling(a) => <<a, "spawn">> \in Claims(s)
      /\ \A a \in Actor : User(a) /\ Waiting(a) => <<a, "wait">> \in Claims(s)
      /\ \A h : Named(h) => <<h.body, "id">> \in Claims(s)
  BY DEF Claims, Filling, Waiting, FilledPC
<1>2. ASSUME NEW x \in Claims(s)
      PROVE  \/ \E a \in Actor : User(a) /\ Filling(a) /\ x = <<a, "spawn">>
             \/ \E a \in Actor : User(a) /\ Waiting(a) /\ x = <<a, "wait">>
             \/ \E h : Named(h) /\ x = <<h.body, "id">>
  BY <1>2 DEF Claims, Filling, Waiting, FilledPC
<1>3. \A a \in Actor, b \in Actor : User(a) /\ User(b) => a = b
  BY DEF ClaimInv
<1>4. \A a \in Actor : \A h : ~(User(a) /\ Named(h))
  BY DEF ClaimInv
<1>5. \A h, g : Named(h) /\ Named(g) => h = g
  BY DEF ClaimInv
<1>6. \A a \in Actor : ~(Filling(a) /\ Waiting(a))
  BY DEF Filling, Waiting, FilledPC, WaitPC
<1>7. \A x \in Claims(s), y \in Claims(s) : x = y
  BY <1>2, <1>3, <1>4, <1>5, <1>6
<1>8. Claims(s) # {} => live[s]
  <2>1. \A a \in Actor : User(a) => live[s]
    BY DEF ClaimInv
  <2>2. \A h : Named(h) => live[s]
    BY DEF ClaimInv
  <2>3. QED
    BY <1>2, <2>1, <2>2
<1>9. live[s] => Claims(s) # {}
  <2>1. live[s] => (\E a \in Actor : User(a)) \/ (\E h : Named(h))
    BY DEF ClaimInv
  <2>2. QED
    BY <1>1, <2>1
<1>10. QED
  BY <1>7, <1>8, <1>9

\* A slot of g_threads is in use exactly while one spawn call, one wait call or
\* one id accounts for it: nv_thread_join gives slots back without the lock, and
\* still none is lost and none is handed out twice.
THEOREM SlotsExact == Spec => []SlotsAccounted
<1>1. ASSUME IInv PROVE SlotsAccounted
  <2> SUFFICES ASSUME NEW s \in Slot
               PROVE  Cardinality(Claims(s)) = IF live[s] THEN 1 ELSE 0
    BY DEF SlotsAccounted
  <2>1. CASE ~live[s]
    BY <1>1, <2>1, ClaimsOfSlot, FS_EmptySet
  <2>2. CASE live[s]
    <3>1. PICK x : x \in Claims(s)
      BY <1>1, <2>2, ClaimsOfSlot
    <3>2. Claims(s) = {x}
      BY <1>1, <3>1, ClaimsOfSlot
    <3>3. QED
      BY <2>2, <3>2, FS_Singleton
  <2>3. QED
    BY <2>1, <2>2
<1>2. QED
  BY <1>1, InductiveInvariant, PTL

\* Until its wait gives the slot back, a body's slot holds its thread, its
\* closure while nv_thread_trampoline may still read it and its result once
\* there is one.
THEOREM SlotsOwned == Spec => []SlotBelongsToBody
<1>1. IInv => SlotBelongsToBody
  BY ThreadsAssumption DEF IInv, SlotBelongsToBody, BodyInv, ResultInv, Running, Alive
<1>2. QED
  BY <1>1, InductiveInvariant, PTL

-----------------------------------------------------------------------------
(* NvThreads implements Futures, its safety part: the first state maps to  *)
(* the first state; pthread_create, the store of the result, the entry of  *)
(* wait, its read of the result and its return map to the five abstract    *)
(* operations; every other step, those on the lock, the counts and the     *)
(* table, maps to a stutter.                                               *)

LEMMA InitAbstract == Init => Abstract!Init
<1> SUFFICES ASSUME Init PROVE Abstract!Init
  OBVIOUS
<1>1. \A k \in Body : Status(k) = "none"
  BY Names DEF Init, Status
<1>2. QED
  BY <1>1 DEF Init, Abstract!Init

-----------------------------------------------------------------------------
(* What a step leaves alone.                                               *)

\* A step that starts no body, moves none past its result and neither writes a
\* result nor reads one leaves every body as it is.
LEMMA StatusFrame ==
  ASSUME UNCHANGED <<result, home, got>>,
         \A k \in Body : /\ pc'[k] = "unborn" <=> pc[k] = "unborn"
                         /\ Done(k)' <=> Done(k),
         \A a \in Actor : pc'[a] = "w_null" <=> pc[a] = "w_null"
  PROVE  \A k \in Body : Status(k)' = Status(k)
<1> SUFFICES ASSUME NEW k \in Body PROVE Status(k)' = Status(k)
  OBVIOUS
<1>1. Taken(k)' <=> Taken(k)
  BY DEF Taken
<1>2. QED
  BY <1>1 DEF Status, Done, DonePC

LEMMA Stutter ==
  ASSUME UNCHANGED <<result, home, want, got>>,
         \A k \in Body : /\ pc'[k] = "unborn" <=> pc[k] = "unborn"
                         /\ Done(k)' <=> Done(k),
         \A a \in Actor : pc'[a] = "w_null" <=> pc[a] = "w_null"
  PROVE  UNCHANGED Abstract!vars
<1>1. \A k \in Body : Status(k)' = Status(k)
  BY StatusFrame
<1>2. QED
  BY <1>1 DEF Abstract!vars

\* The program between the calls, the lock, the table and the counts.
LEMMA ProgramStutters ==
  ASSUME IInv, NEW a \in Actor, NEW c \in Closure,
         Create(a, c) \/ Drop(a, c) \/ SpawnBegin(a, c)
  PROVE  UNCHANGED Abstract!vars
BY Stutter, Names DEF IInv, TypeOK, Create, Drop, SpawnBegin, Goto, slotVars, callVars, Done, DonePC

LEMMA LockStutters ==
  ASSUME IInv, NEW a \in Actor,
         SpawnLock(a) \/ SpawnScan(a) \/ SpawnFull(a) \/ SpawnUnlock(a)
  PROVE  UNCHANGED Abstract!vars
BY Stutter, Names
   DEF IInv, TypeOK, SpawnLock, SpawnScan, SpawnFull, SpawnUnlock, Goto, slotVars, callVars,
       Done, DonePC

LEMMA CountStutters ==
  ASSUME IInv, NEW a \in Actor,
         SpawnIncref(a) \/ SpawnFail(a) \/ SpawnUndoRef(a) \/ SpawnUndoClosure(a) \/ SpawnUndoLive(a)
  PROVE  UNCHANGED Abstract!vars
BY Stutter, Names
   DEF IInv, TypeOK, SpawnIncref, SpawnFail, SpawnUndoRef, SpawnUndoClosure, SpawnUndoLive,
       Goto, slotVars, callVars, Done, DonePC

\* The slot that is filled held no result: nothing is lost.
LEMMA SpawnFillStutters ==
  ASSUME IInv, NEW a \in Actor, SpawnFill(a)
  PROVE  UNCHANGED Abstract!vars
<1>1. result' = result
  BY DEF IInv, TypeOK, LockInv, ResultInv, SpawnFill, Goto
<1>2. QED
  BY <1>1, Stutter, Names DEF IInv, TypeOK, SpawnFill, Goto, callVars, Done, DonePC

LEMMA ThreadStutters ==
  ASSUME IInv, NEW k \in Body,
         BodyStart(k) \/ BodyReturn(k) \/ DropClosure(k) \/ ThreadExit(k)
  PROVE  UNCHANGED Abstract!vars
BY Stutter, Names
   DEF IInv, TypeOK, BodyStart, BodyReturn, DropClosure, ThreadExit, Goto, slotVars, callVars,
       Done, DonePC

LEMMA WaitJoinStutters ==
  ASSUME IInv, NEW a \in Actor, WaitJoin(a)
  PROVE  UNCHANGED Abstract!vars
BY Stutter, Names DEF IInv, TypeOK, WaitJoin, Goto, slotVars, callVars, Done, DonePC

\* Once the result has been read it does not matter when it leaves the slot.
LEMMA WaitNullStutters ==
  ASSUME IInv, NEW a \in Actor, WaitNull(a)
  PROVE  UNCHANGED Abstract!vars
<1> USE DEF IInv, WaitNull, Goto
<1>1. /\ at[a] \in Slot /\ want[a] \in Body /\ home[want[a]] = at[a]
      /\ pc[want[a]] = "exited" /\ want[a] # a
      /\ result[at[a]] = want[a] /\ got[a] = want[a]
  BY DEF ClaimInv, BodyInv, ResultInv, Waiting, WaitPC, Done, DonePC
<1>2. ASSUME NEW k \in Body PROVE Status(k)' = Status(k)
  <2>1. /\ pc'[k] = "unborn" <=> pc[k] = "unborn"
        /\ Done(k)' <=> Done(k)
    BY Names DEF TypeOK, Done, DonePC
  <2>2. CASE k = want[a]
    <3>1. Taken(k) /\ Taken(k)'
      BY <1>1, <2>2, Names DEF Taken, TypeOK, callVars
    <3>2. QED
      BY <2>1, <3>1 DEF Status, Done, DonePC
  <2>3. CASE k # want[a]
    <3>1. \A b \in Actor : pc'[b] = "w_null" /\ got'[b] = k <=> pc[b] = "w_null" /\ got[b] = k
      BY <1>1, <2>3 DEF TypeOK, callVars
    <3>2. Done(k) => (result'[home'[k]] # k <=> result[home[k]] # k)
      BY <1>1, <2>3, Names DEF TypeOK, callVars
    <3>3. Done(k) => (Taken(k)' <=> Taken(k))
      BY <3>1, <3>2 DEF Taken
    <3>4. QED
      BY <2>1, <3>3 DEF Status, Done, DonePC
  <2>4. QED
    BY <2>2, <2>3
<1>3. QED
  BY <1>2 DEF Abstract!vars, callVars

-----------------------------------------------------------------------------
(* The five steps that map to abstract operations.                         *)

\* A body whose result is still to be taken.
LEMMA FinishedBody ==
  ASSUME IInv, NEW k \in Body, pc[k] # "unborn",
         Done(k) => result[home[k]] = k,
         \A a \in Actor : pc[a] = "w_null" => want[a] # k
  PROVE  Status(k) = IF Done(k) THEN "finished" ELSE "running"
BY DEF IInv, ResultInv, Status, Taken, Done, DonePC

LEMMA SpawnCreateSpawns ==
  ASSUME IInv, NEW a \in Actor, SpawnCreate(a)
  PROVE  \E k \in Body : Abstract!Spawn(k)
<1> USE DEF IInv, SpawnCreate
<1> PICK k \in Body : k = call[a] /\ pc[k] = "unborn"
  BY DEF CallInv, SpawnPC, FilledPC
<1>1. /\ \A j \in Body : j # k => home'[j] = home[j]
      /\ UNCHANGED <<result, got, want>>
      /\ \A b \in Actor : b \notin {a, k} => pc'[b] = pc[b]
      /\ pc'[a] = "idle" /\ pc'[k] = "t_call"
  BY Names DEF TypeOK
<1>2. ASSUME NEW j \in Body, j # k PROVE Status(j)' = Status(j)
  <2>1. /\ pc'[j] = "unborn" <=> pc[j] = "unborn"
        /\ Done(j)' <=> Done(j)
    BY <1>1, <1>2, Names, ZenonT(60) DEF Done, DonePC
  <2>2. Taken(j)' <=> Taken(j)
    BY <1>1, <1>2, ZenonT(60) DEF Taken
  <2>3. QED
    BY <2>1, <2>2 DEF Status, Done, DonePC
<1>3. Status(k) = "none" /\ Status(k)' = "running"
  BY <1>1 DEF Status
<1>4. [j \in Body |-> Status(j)'] = [[j \in Body |-> Status(j)] EXCEPT ![k] = "running"]
  BY <1>2, <1>3
<1>5. QED
  BY <1>1, <1>3, <1>4 DEF Abstract!Spawn

LEMMA StoreResultFinishes ==
  ASSUME IInv, NEW k \in Body, StoreResult(k)
  PROVE  Abstract!Finish(k)
<1> USE DEF IInv, StoreResult, Goto, callVars
<1>1. /\ home[k] \in Slot
      /\ \A s \in Slot : result'[s] = IF s = home[k] THEN k ELSE result[s]
      /\ \A b \in Actor : b # k => pc'[b] = pc[b]
      /\ pc'[k] = "t_decref"
  BY Names DEF BodyInv, Alive, TypeOK
<1>2. ASSUME NEW j \in Body, j # k PROVE Status(j)' = Status(j)
  <2>1. /\ pc'[j] = pc[j]
        /\ \A b \in Actor : pc'[b] = "w_null" <=> pc[b] = "w_null"
    BY <1>1, <1>2, Names DEF TypeOK
  <2>2. Done(j) => (result'[home[j]] # j <=> result[home[j]] # j)
    <3>1. CASE home[j] = home[k]
      <4>1. tid[home[k]] = k
        BY DEF BodyInv, Alive
      <4>2. result[home[k]] # j
        <5> SUFFICES ASSUME result[home[k]] = j PROVE FALSE
          OBVIOUS
        <5>1. result[home[k]] # NoBody /\ home[k] \in Slot
          BY <1>1, Names
        <5>2. tid[home[k]] = j
          BY <5>1 DEF ResultInv
        <5>3. QED
          BY <1>2, <4>1, <5>2
      <4>3. QED
        BY <1>1, <1>2, <3>1, <4>2
    <3>2. CASE home[j] # home[k] /\ home[j] \in Slot
      BY <1>1, <3>2
    <3>3. CASE home[j] = NoSlot
      BY <3>3, Names DEF TypeOK
    <3>4. QED
      BY <3>1, <3>2, <3>3 DEF TypeOK
  <2>3. Done(j) => (Taken(j)' <=> Taken(j))
    BY <2>1, <2>2 DEF Taken
  <2>4. QED
    BY <2>1, <2>3 DEF Status, Done, DonePC
<1>3. Status(k) = "running"
  BY DEF Status
<1>4. \A b \in Actor : pc[b] = "w_null" => got[b] # k
  BY DEF ResultInv, BodyInv, Waiting, WaitPC
<1>5. Status(k)' = "finished"
  BY <1>1, <1>4, Names DEF Status, Taken, TypeOK
<1>6. [j \in Body |-> Status(j)'] = [[j \in Body |-> Status(j)] EXCEPT ![k] = "finished"]
  BY <1>2, <1>5
<1>7. QED
  BY <1>3, <1>6 DEF Abstract!Finish

LEMMA WaitBeginWaits ==
  ASSUME IInv, NEW a \in Actor, NEW h \in ids[a], WaitBegin(a, h)
  PROVE  \E k \in Body : Abstract!WaitFor(a, k)
<1> USE DEF IInv, WaitBegin, Goto
<1> PICK k \in Body : k = h.body
  BY DEF TypeOK, Id
<1>1. want[a] = NoBody
  BY DEF ResultInv, Waiting, WaitPC
<1>2. \A b \in Actor : want[b] # k
  BY Names, SMTT(60) DEF ResultInv, ClaimInv, BodyInv, TypeOK
<1>3. /\ pc[k] # "unborn" /\ home[k] = h.slot
      /\ Done(k) => result[home[k]] = k
  BY DEF BodyInv, ResultInv
<1>4. Status(k) \in {"running", "finished"}
  BY <1>2, <1>3, FinishedBody
<1>5. \A j \in Body : Status(j)' = Status(j)
  BY StatusFrame, Names DEF TypeOK, slotVars, Done, DonePC
<1>6. want' = [want EXCEPT ![a] = k] /\ got' = got
  OBVIOUS
<1>7. QED
  BY <1>1, <1>2, <1>4, <1>5, <1>6, ZenonT(60) DEF Abstract!WaitFor

LEMMA WaitTakeTakes ==
  ASSUME IInv, NEW a \in Actor, WaitTake(a)
  PROVE  Abstract!Take(a)
<1> USE DEF IInv, WaitTake, Goto
<1> PICK k \in Body : k = want[a]
  BY DEF BodyInv, Waiting, WaitPC
<1>1. /\ pc[k] = "exited" /\ a # k /\ home[k] = at[a] /\ result[at[a]] = k
      /\ tid[at[a]] = k /\ at[a] \in Slot
  BY DEF ClaimInv, BodyInv, ResultInv, Waiting, WaitPC, Done, DonePC
<1>2. got[a] = NoBody /\ want[a] # NoBody
  BY Names DEF ResultInv
<1>3. \A b \in Actor : pc[b] = "w_null" => want[b] # k
  <2> SUFFICES ASSUME NEW b \in Actor, pc[b] = "w_null", want[b] = k PROVE FALSE
    OBVIOUS
  <2>1. at[b] = at[a] /\ b # a
    BY <1>1 DEF BodyInv, Waiting, WaitPC
  <2>2. QED
    BY <2>1 DEF ClaimInv, Waiting, WaitPC
<1>4. Status(k) = "finished"
  BY <1>1, <1>3, FinishedBody DEF Done, DonePC
<1>5. got' = [got EXCEPT ![a] = k] /\ UNCHANGED <<result, home, want>>
  BY <1>1 DEF slotVars
<1>6. Status(k)' = "taken"
  BY <1>1, <1>5 DEF Status, Taken, TypeOK
<1>7. ASSUME NEW j \in Body, j # k PROVE Status(j)' = Status(j)
  <2>1. /\ pc'[j] = "unborn" <=> pc[j] = "unborn"
        /\ Done(j)' <=> Done(j)
    BY Names DEF TypeOK, Done, DonePC
  <2>2. \A b \in Actor : pc'[b] = "w_null" /\ got'[b] = j <=> pc[b] = "w_null" /\ got[b] = j
    BY <1>5, <1>7 DEF TypeOK
  <2>3. Taken(j)' <=> Taken(j)
    BY <1>5, <2>2 DEF Taken
  <2>4. QED
    BY <2>1, <2>3 DEF Status, Done, DonePC
<1>8. [j \in Body |-> Status(j)'] = [[j \in Body |-> Status(j)] EXCEPT ![want[a]] = "taken"]
  BY <1>6, <1>7
<1>9. QED
  BY <1>2, <1>4, <1>5, <1>8 DEF Abstract!Take

LEMMA WaitFreeReturns ==
  ASSUME IInv, NEW a \in Actor, WaitFree(a)
  PROVE  Abstract!Return(a)
<1> USE DEF IInv, WaitFree, Goto
<1>1. got[a] # NoBody
  BY Names DEF BodyInv, ResultInv, Waiting, WaitPC
<1>2. \A b \in Actor : pc'[b] = "w_null" <=> pc[b] = "w_null" /\ b # a
  BY DEF TypeOK
<1>3. ASSUME NEW j \in Body PROVE Status(j)' = Status(j)
  <2>1. /\ pc'[j] = "unborn" <=> pc[j] = "unborn"
        /\ Done(j)' <=> Done(j)
    BY Names DEF TypeOK, Done, DonePC
  <2>2. Taken(j)' <=> Taken(j)
    BY <1>2 DEF Taken, TypeOK
  <2>3. QED
    BY <2>1, <2>2 DEF Status, Done, DonePC
<1>4. QED
  BY <1>1, <1>3 DEF Abstract!Return

-----------------------------------------------------------------------------

LEMMA StepAbstract == IInv /\ [Next]_vars => [Abstract!Next]_(Abstract!vars)
<1> SUFFICES ASSUME IInv, [Next]_vars PROVE [Abstract!Next]_(Abstract!vars)
  OBVIOUS
<1>1. CASE UNCHANGED vars
  BY <1>1, Stutter DEF vars, slotVars, callVars, Done
<1>2. ASSUME NEW a \in Actor, NEW c \in Closure, Create(a, c) \/ Drop(a, c) \/ SpawnBegin(a, c)
      PROVE  UNCHANGED Abstract!vars
  BY <1>2, ProgramStutters
<1>3. ASSUME NEW a \in Actor, NEW h \in ids[a], WaitBegin(a, h) PROVE Abstract!Next
  BY <1>3, WaitBeginWaits DEF Abstract!Next
<1>4. ASSUME NEW a \in Actor, BodyReturn(a) PROVE UNCHANGED Abstract!vars
  BY <1>4, ThreadStutters, Names DEF BodyReturn
<1>5. ASSUME NEW a \in Actor, Continue(a) PROVE [Abstract!Next]_(Abstract!vars)
  <2>1. CASE SpawnCreate(a)
    BY <2>1, SpawnCreateSpawns DEF Abstract!Next
  <2>2. CASE WaitTake(a)
    BY <2>2, WaitTakeTakes DEF Abstract!Next
  <2>3. CASE WaitFree(a)
    BY <2>3, WaitFreeReturns DEF Abstract!Next
  <2>4. CASE a # Main /\ StoreResult(a)
    BY <2>4, StoreResultFinishes, Names DEF Abstract!Next
  <2>5. CASE a # Main /\ (BodyStart(a) \/ DropClosure(a) \/ ThreadExit(a))
    BY <2>5, ThreadStutters, Names
  <2>6. QED
    BY <1>5, <2>1, <2>2, <2>3, <2>4, <2>5, LockStutters, CountStutters, SpawnFillStutters,
       WaitJoinStutters, WaitNullStutters DEF Continue
<1>6. QED
  BY <1>1, <1>2, <1>3, <1>4, <1>5 DEF Next

\* Every behaviour of the thread table, seen as the stage of each body and what
\* each thread waits for, is one of Futures: a body that nv_thread_spawn started
\* finishes once, and nv_thread_join gives its result to one caller, once, and
\* the result of the body it was called for, however slots are reused.
THEOREM Refinement == Spec => ImplementsFutures
<1>1. IInv /\ [Next]_vars => [Abstract!Next]_(Abstract!vars)
  BY StepAbstract
<1>2. QED
  BY <1>1, InitAbstract, InductiveInvariant, PTL DEF Spec, ImplementsFutures, Abstract!Spec
=============================================================================
