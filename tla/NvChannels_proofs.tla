------------------------- MODULE NvChannels_proofs -------------------------
(***************************************************************************)
(* Proofs about NvChannels, for any number of threads, channels, nodes and *)
(* values.  IInv is the inductive invariant: the properties the model      *)
(* checker runs check, and LocalInv, which ties what a thread is doing to  *)
(* the mutexes and to the node in its hands.                               *)
(***************************************************************************)
EXTENDS NvChannels, FiniteSetTheorems, TLAPS

\* The program points between taking a channel's mutex and giving it back.
Critical == {"s_link", "s_tail", "s_signal", "s_unlock",
             "r_test", "r_head", "r_tail", "r_unlock"}

LocalInv ==
  /\ \A t \in Thread : pc[t] = "idle" <=> slot[t] = NoSlot
  /\ \A t \in Thread : slot[t] # NoSlot => live[slot[t]]
  /\ \A t \in Thread, c \in Chan : lock[c] = t <=> slot[t] = c /\ pc[t] \in Critical
  /\ \A t \in Thread : pc[t] = "r_head" => msg[t] = head[slot[t]] /\ msg[t] # NoCell
  /\ \A t \in Thread : pc[t] \in {"s_lock", "s_link", "s_tail"} => next[msg[t]] = NoCell
  /\ \A m \in heap : val[m] \in Value
  /\ \A c \in Chan : ~live[c] => fifo[c] = <<>>

IInv ==
  /\ TypeOK
  /\ LocalInv
  /\ RefCountExact
  /\ NodesAccounted
  /\ PointersMatchFifo

-----------------------------------------------------------------------------

\* The sets the counts are taken over are finite.
LEMMA HoldersFinite ==
  ASSUME TypeOK, NEW v \in Value
  PROVE  /\ IsFiniteSet(Owners(v)) /\ Cardinality(Owners(v)) \in Nat
         /\ IsFiniteSet(Carriers(v)) /\ Cardinality(Carriers(v)) \in Nat
<1>1. IsFiniteSet(Thread \X Reg)
  BY ChannelsAssumption, FS_Product
<1>2. Owners(v) \subseteq Thread \X Reg
  BY DEF Owners
<1>3. Carriers(v) \subseteq Cell
  BY DEF Carriers, TypeOK
<1>4. QED
  BY <1>1, <1>2, <1>3, FS_Subset, FS_CardinalityType, ChannelsAssumption

LEMMA InitIInv == Init => IInv
<1> SUFFICES ASSUME Init PROVE IInv
  OBVIOUS
<1>1. TypeOK
  BY ChannelsAssumption DEF Init, TypeOK, Chan, NoSlot, PC
<1>2. LocalInv
  BY ChannelsAssumption DEF Init, LocalInv, Chan, NoSlot, Critical
<1>3. RefCountExact
  <2> SUFFICES ASSUME NEW v \in Value
               PROVE  rc[v] = Cardinality(Owners(v)) + Cardinality(Carriers(v))
    BY DEF RefCountExact
  <2>1. Owners(v) = {} /\ Carriers(v) = {}
    BY ChannelsAssumption DEF Init, Owners, Carriers
  <2>2. QED
    BY <2>1, FS_EmptySet DEF Init
<1>4. NodesAccounted
  BY DEF Init, NodesAccounted, InHand, Listed
<1>5. PointersMatchFifo
  BY DEF Init, PointersMatchFifo, QueueInPointers, Arriving, Departing
<1>6. QED
  BY <1>1, <1>2, <1>3, <1>4, <1>5 DEF IInv

\* A step that leaves variables, counts and nodes alone keeps the counts.
LEMMA CountsFrame ==
  ASSUME RefCountExact, UNCHANGED <<reg, rc, heap, val>>
  PROVE  RefCountExact'
BY DEF RefCountExact, Owners, Carriers

\* A step after which the same threads hold the same nodes keeps the nodes
\* accounted for.
LEMMA NodesFrame ==
  ASSUME NodesAccounted, UNCHANGED <<heap, fifo>>,
         \A t \in Thread : InHand(t)' <=> InHand(t),
         \A t \in Thread : InHand(t) => msg'[t] = msg[t]
  PROVE  NodesAccounted'
BY DEF NodesAccounted, Listed

\* A step that writes no pointer and moves no thread into or out of the two
\* half-written states keeps the pointers in order.
LEMMA PointersFrame ==
  ASSUME PointersMatchFifo, UNCHANGED <<head, tail, next, fifo>>,
         \A c \in Chan : Arriving(c)' = Arriving(c) /\ Departing(c)' = Departing(c)
  PROVE  PointersMatchFifo'
BY DEF PointersMatchFifo, QueueInPointers

LEMMA SendLockStep ==
  ASSUME IInv, NEW t \in Thread, SendLock(t)
  PROVE  IInv'
<1> USE DEF IInv, SendLock, Goto, chanVars, nodeVars, valueVars, threadVars
<1>1. TypeOK'
  BY DEF TypeOK, LocalInv, PC, SendPC, RecvPC, Acquire, Release
<1>2. LocalInv'
  BY ChannelsAssumption DEF TypeOK, LocalInv, Critical, PC, SendPC, RecvPC, Chan, NoSlot, Acquire, Release
<1>3. RefCountExact'
  BY CountsFrame
<1>4. NodesAccounted'
  BY NodesFrame DEF InHand, TypeOK
<1>5. PointersMatchFifo'
  <2>1. \A c \in Chan : Arriving(c)' = Arriving(c) /\ Departing(c)' = Departing(c)
    BY ChannelsAssumption DEF Arriving, Departing, TypeOK, LocalInv, Critical, Acquire, Release
  <2>2. QED
    BY <2>1, PointersFrame
<1>6. QED
  BY <1>1, <1>2, <1>3, <1>4, <1>5

LEMMA SendSignalStep ==
  ASSUME IInv, NEW t \in Thread, SendSignal(t)
  PROVE  IInv'
<1> USE DEF IInv, SendSignal, Goto, chanVars, nodeVars, valueVars, threadVars
<1>1. TypeOK'
  <2>1. waiting' \in [Chan -> SUBSET Thread]
    <3>1. CASE UNCHANGED waiting
      BY <3>1 DEF TypeOK
    <3>2. ASSUME NEW w \in waiting[slot[t]],
                 waiting' = [waiting EXCEPT ![slot[t]] = @ \ {w}]
          PROVE  waiting' \in [Chan -> SUBSET Thread]
      BY <3>2 DEF TypeOK
    <3>3. QED
      BY <3>1, <3>2
  <2>2. QED
    BY <2>1 DEF TypeOK, PC, SendPC, RecvPC
<1>2. LocalInv'
  BY ChannelsAssumption DEF TypeOK, LocalInv, Critical, PC, SendPC, RecvPC, Chan, NoSlot, Acquire, Release
<1>3. RefCountExact'
  BY CountsFrame
<1>4. NodesAccounted'
  BY NodesFrame DEF InHand, TypeOK
<1>5. PointersMatchFifo'
  <2>1. \A c \in Chan : Arriving(c)' = Arriving(c) /\ Departing(c)' = Departing(c)
    BY ChannelsAssumption DEF Arriving, Departing, TypeOK, LocalInv, Critical, Acquire, Release
  <2>2. QED
    BY <2>1, PointersFrame
<1>6. QED
  BY <1>1, <1>2, <1>3, <1>4, <1>5

LEMMA SendUnlockStep ==
  ASSUME IInv, NEW t \in Thread, SendUnlock(t)
  PROVE  IInv'
<1> USE DEF IInv, SendUnlock, Goto, chanVars, nodeVars, valueVars, threadVars
<1>1. TypeOK'
  BY DEF TypeOK, LocalInv, PC, SendPC, RecvPC, Acquire, Release
<1>2. LocalInv'
  BY ChannelsAssumption DEF TypeOK, LocalInv, Critical, PC, SendPC, RecvPC, Chan, NoSlot, Acquire, Release
<1>3. RefCountExact'
  BY CountsFrame
<1>4. NodesAccounted'
  BY NodesFrame DEF InHand, TypeOK
<1>5. PointersMatchFifo'
  <2>1. \A c \in Chan : Arriving(c)' = Arriving(c) /\ Departing(c)' = Departing(c)
    BY ChannelsAssumption DEF Arriving, Departing, TypeOK, LocalInv, Critical, Acquire, Release
  <2>2. QED
    BY <2>1, PointersFrame
<1>6. QED
  BY <1>1, <1>2, <1>3, <1>4, <1>5

LEMMA RecvLockStep ==
  ASSUME IInv, NEW t \in Thread, RecvLock(t)
  PROVE  IInv'
<1> USE DEF IInv, RecvLock, Goto, chanVars, nodeVars, valueVars, threadVars
<1>1. TypeOK'
  BY DEF TypeOK, LocalInv, PC, SendPC, RecvPC, Acquire, Release
<1>2. LocalInv'
  BY ChannelsAssumption DEF TypeOK, LocalInv, Critical, PC, SendPC, RecvPC, Chan, NoSlot, Acquire, Release
<1>3. RefCountExact'
  BY CountsFrame
<1>4. NodesAccounted'
  BY NodesFrame DEF InHand, TypeOK
<1>5. PointersMatchFifo'
  <2>1. \A c \in Chan : Arriving(c)' = Arriving(c) /\ Departing(c)' = Departing(c)
    BY ChannelsAssumption DEF Arriving, Departing, TypeOK, LocalInv, Critical, Acquire, Release
  <2>2. QED
    BY <2>1, PointersFrame
<1>6. QED
  BY <1>1, <1>2, <1>3, <1>4, <1>5

LEMMA RecvSleepStep ==
  ASSUME IInv, NEW t \in Thread, RecvSleep(t)
  PROVE  IInv'
<1> USE DEF IInv, RecvSleep, Goto, chanVars, nodeVars, valueVars, threadVars
<1>1. TypeOK'
  BY DEF TypeOK, LocalInv, PC, SendPC, RecvPC, Acquire, Release
<1>2. LocalInv'
  BY ChannelsAssumption DEF TypeOK, LocalInv, Critical, PC, SendPC, RecvPC, Chan, NoSlot, Acquire, Release
<1>3. RefCountExact'
  BY CountsFrame
<1>4. NodesAccounted'
  BY NodesFrame DEF InHand, TypeOK
<1>5. PointersMatchFifo'
  <2>1. \A c \in Chan : Arriving(c)' = Arriving(c) /\ Departing(c)' = Departing(c)
    BY ChannelsAssumption DEF Arriving, Departing, TypeOK, LocalInv, Critical, Acquire, Release
  <2>2. QED
    BY <2>1, PointersFrame
<1>6. QED
  BY <1>1, <1>2, <1>3, <1>4, <1>5

LEMMA SpuriousWakeupStep ==
  ASSUME IInv, NEW t \in Thread, SpuriousWakeup(t)
  PROVE  IInv'
<1> USE DEF IInv, SpuriousWakeup, Goto, chanVars, nodeVars, valueVars, threadVars
<1>1. TypeOK'
  BY DEF TypeOK, LocalInv, PC, SendPC, RecvPC, Acquire, Release
<1>2. LocalInv'
  BY ChannelsAssumption DEF TypeOK, LocalInv, Critical, PC, SendPC, RecvPC, Chan, NoSlot, Acquire, Release
<1>3. RefCountExact'
  BY CountsFrame
<1>4. NodesAccounted'
  BY NodesFrame DEF InHand, TypeOK
<1>5. PointersMatchFifo'
  <2>1. \A c \in Chan : Arriving(c)' = Arriving(c) /\ Departing(c)' = Departing(c)
    BY ChannelsAssumption DEF Arriving, Departing, TypeOK, LocalInv, Critical, Acquire, Release
  <2>2. QED
    BY <2>1, PointersFrame
<1>6. QED
  BY <1>1, <1>2, <1>3, <1>4, <1>5

LEMMA RecvWakeStep ==
  ASSUME IInv, NEW t \in Thread, RecvWake(t)
  PROVE  IInv'
<1> USE DEF IInv, RecvWake, Goto, chanVars, nodeVars, valueVars, threadVars
<1>1. TypeOK'
  BY DEF TypeOK, LocalInv, PC, SendPC, RecvPC, Acquire, Release
<1>2. LocalInv'
  BY ChannelsAssumption DEF TypeOK, LocalInv, Critical, PC, SendPC, RecvPC, Chan, NoSlot, Acquire, Release
<1>3. RefCountExact'
  BY CountsFrame
<1>4. NodesAccounted'
  BY NodesFrame DEF InHand, TypeOK
<1>5. PointersMatchFifo'
  <2>1. \A c \in Chan : Arriving(c)' = Arriving(c) /\ Departing(c)' = Departing(c)
    BY ChannelsAssumption DEF Arriving, Departing, TypeOK, LocalInv, Critical, Acquire, Release
  <2>2. QED
    BY <2>1, PointersFrame
<1>6. QED
  BY <1>1, <1>2, <1>3, <1>4, <1>5

LEMMA RecvTakeStep ==
  ASSUME IInv, NEW t \in Thread, RecvTake(t)
  PROVE  IInv'
<1> USE DEF IInv, RecvTake, Goto, chanVars, nodeVars, valueVars, threadVars
<1>1. TypeOK'
  BY DEF TypeOK, LocalInv, PC, SendPC, RecvPC, Acquire, Release
<1>2. LocalInv'
  BY ChannelsAssumption DEF TypeOK, LocalInv, Critical, PC, SendPC, RecvPC, Chan, NoSlot, Acquire, Release
<1>3. RefCountExact'
  BY CountsFrame
<1>4. NodesAccounted'
  BY NodesFrame DEF InHand, TypeOK
<1>5. PointersMatchFifo'
  <2>1. \A c \in Chan : Arriving(c)' = Arriving(c) /\ Departing(c)' = Departing(c)
    BY ChannelsAssumption DEF Arriving, Departing, TypeOK, LocalInv, Critical, Acquire, Release
  <2>2. QED
    BY <2>1, PointersFrame
<1>6. QED
  BY <1>1, <1>2, <1>3, <1>4, <1>5

LEMMA RecvUnlockStep ==
  ASSUME IInv, NEW t \in Thread, RecvUnlock(t)
  PROVE  IInv'
<1> USE DEF IInv, RecvUnlock, Goto, chanVars, nodeVars, valueVars, threadVars
<1>1. TypeOK'
  BY DEF TypeOK, LocalInv, PC, SendPC, RecvPC, Acquire, Release
<1>2. LocalInv'
  BY ChannelsAssumption DEF TypeOK, LocalInv, Critical, PC, SendPC, RecvPC, Chan, NoSlot, Acquire, Release
<1>3. RefCountExact'
  BY CountsFrame
<1>4. NodesAccounted'
  BY NodesFrame DEF InHand, TypeOK
<1>5. PointersMatchFifo'
  <2>1. \A c \in Chan : Arriving(c)' = Arriving(c) /\ Departing(c)' = Departing(c)
    BY ChannelsAssumption DEF Arriving, Departing, TypeOK, LocalInv, Critical, Acquire, Release
  <2>2. QED
    BY <2>1, PointersFrame
<1>6. QED
  BY <1>1, <1>2, <1>3, <1>4, <1>5

LEMMA RecvBeginStep ==
  ASSUME IInv, NEW t \in Thread, NEW c \in Chan, RecvBegin(t, c)
  PROVE  IInv'
<1> USE DEF IInv, RecvBegin, Goto, chanVars, nodeVars, valueVars, threadVars
<1>1. TypeOK'
  BY DEF TypeOK, LocalInv, PC, SendPC, RecvPC, Acquire, Release
<1>2. LocalInv'
  BY ChannelsAssumption DEF TypeOK, LocalInv, Critical, PC, SendPC, RecvPC, Chan, NoSlot, Acquire, Release
<1>3. RefCountExact'
  BY CountsFrame
<1>4. NodesAccounted'
  BY NodesFrame DEF InHand, TypeOK
<1>5. PointersMatchFifo'
  <2>1. \A d \in Chan : Arriving(d)' = Arriving(d) /\ Departing(d)' = Departing(d)
    BY ChannelsAssumption DEF Arriving, Departing, TypeOK, LocalInv, Critical, Acquire, Release
  <2>2. QED
    BY <2>1, PointersFrame
<1>6. QED
  BY <1>1, <1>2, <1>3, <1>4, <1>5

-----------------------------------------------------------------------------
(* How the counts move: a variable gains or loses a reference, a node with *)
(* a reference is allocated or freed.                                      *)

LEMMA OwnersGain ==
  ASSUME TypeOK, NEW t \in Thread, NEW r \in Reg, NEW v \in Value,
         reg[t][r] = NoValue, reg' = [reg EXCEPT ![t][r] = v], NEW w \in Value
  PROVE  Cardinality(Owners(w)') = Cardinality(Owners(w)) + (IF w = v THEN 1 ELSE 0)
<1>1. <<t, r>> \notin Owners(w)
  BY ChannelsAssumption DEF Owners
<1>2. Owners(w)' = IF w = v THEN Owners(w) \cup {<<t, r>>} ELSE Owners(w)
  BY ChannelsAssumption DEF Owners, TypeOK
<1>3. IsFiniteSet(Owners(w)) /\ Cardinality(Owners(w)) \in Nat
  BY HoldersFinite
<1>4. CASE w = v
  <2>1. Cardinality(Owners(w) \cup {<<t, r>>}) = Cardinality(Owners(w)) + 1
    BY <1>1, <1>3, <1>4, FS_AddElement
  <2>2. QED
    BY <1>2, <1>4, <2>1
<1>5. CASE w # v
  BY <1>2, <1>3, <1>5
<1>6. QED
  BY <1>4, <1>5

LEMMA OwnersLose ==
  ASSUME TypeOK, NEW t \in Thread, NEW r \in Reg, NEW v \in Value,
         reg[t][r] = v, reg' = [reg EXCEPT ![t][r] = NoValue], NEW w \in Value
  PROVE  Cardinality(Owners(w)') = Cardinality(Owners(w)) - (IF w = v THEN 1 ELSE 0)
<1>1. v = w <=> <<t, r>> \in Owners(w)
  BY DEF Owners
<1>2. Owners(w)' = IF w = v THEN Owners(w) \ {<<t, r>>} ELSE Owners(w)
  BY ChannelsAssumption DEF Owners, TypeOK
<1>3. IsFiniteSet(Owners(w)) /\ Cardinality(Owners(w)) \in Nat
  BY HoldersFinite
<1>4. CASE w = v
  <2>1. Cardinality(Owners(w) \ {<<t, r>>}) = Cardinality(Owners(w)) - 1
    BY <1>1, <1>3, <1>4, FS_RemoveElement
  <2>2. QED
    BY <1>2, <1>4, <2>1
<1>5. CASE w # v
  BY <1>2, <1>3, <1>5
<1>6. QED
  BY <1>4, <1>5

LEMMA CarriersGain ==
  ASSUME TypeOK, NEW m \in Cell \ heap, NEW v \in Value,
         heap' = heap \cup {m}, val' = [val EXCEPT ![m] = v], NEW w \in Value
  PROVE  Cardinality(Carriers(w)') = Cardinality(Carriers(w)) + (IF w = v THEN 1 ELSE 0)
<1>1. m \notin Carriers(w)
  BY DEF Carriers
<1>2. Carriers(w)' = IF w = v THEN Carriers(w) \cup {m} ELSE Carriers(w)
  BY DEF Carriers, TypeOK
<1>3. IsFiniteSet(Carriers(w)) /\ Cardinality(Carriers(w)) \in Nat
  BY HoldersFinite
<1>4. CASE w = v
  <2>1. Cardinality(Carriers(w) \cup {m}) = Cardinality(Carriers(w)) + 1
    BY <1>1, <1>3, <1>4, FS_AddElement
  <2>2. QED
    BY <1>2, <1>4, <2>1
<1>5. CASE w # v
  BY <1>2, <1>3, <1>5
<1>6. QED
  BY <1>4, <1>5

LEMMA CarriersLose ==
  ASSUME TypeOK, NEW m \in heap,
         heap' = heap \ {m}, val' = [val EXCEPT ![m] = NoValue], NEW w \in Value
  PROVE  Cardinality(Carriers(w)') = Cardinality(Carriers(w)) - (IF w = val[m] THEN 1 ELSE 0)
<1>1. w = val[m] <=> m \in Carriers(w)
  BY DEF Carriers
<1>2. Carriers(w)' = IF w = val[m] THEN Carriers(w) \ {m} ELSE Carriers(w)
  BY DEF Carriers, TypeOK
<1>3. IsFiniteSet(Carriers(w)) /\ Cardinality(Carriers(w)) \in Nat
  BY HoldersFinite
<1>4. CASE w = val[m]
  <2>1. Cardinality(Carriers(w) \ {m}) = Cardinality(Carriers(w)) - 1
    BY <1>1, <1>3, <1>4, FS_RemoveElement
  <2>2. QED
    BY <1>2, <1>4, <2>1
<1>5. CASE w # val[m]
  BY <1>2, <1>3, <1>5
<1>6. QED
  BY <1>4, <1>5

LEMMA CreateStep ==
  ASSUME IInv, NEW t \in Thread, NEW r \in Reg, NEW v \in Value, Create(t, r, v)
  PROVE  IInv'
<1> USE DEF IInv, Create, chanVars, nodeVars, threadVars
<1>1. TypeOK'
  BY DEF TypeOK
<1>2. LocalInv'
  BY DEF LocalInv
<1>3. RefCountExact'
  <2> SUFFICES ASSUME NEW w \in Value
               PROVE  rc'[w] = Cardinality(Owners(w)') + Cardinality(Carriers(w)')
    BY DEF RefCountExact
  <2>1. Cardinality(Owners(w)') = Cardinality(Owners(w)) + (IF w = v THEN 1 ELSE 0)
    BY OwnersGain
  <2>2. Carriers(w)' = Carriers(w)
    BY DEF Carriers
  <2>3. QED
    BY <2>1, <2>2, HoldersFinite DEF RefCountExact, TypeOK
<1>4. NodesAccounted'
  BY NodesFrame DEF InHand
<1>5. PointersMatchFifo'
  BY PointersFrame DEF Arriving, Departing
<1>6. QED
  BY <1>1, <1>2, <1>3, <1>4, <1>5

LEMMA DropStep ==
  ASSUME IInv, NEW t \in Thread, NEW r \in Reg, Drop(t, r)
  PROVE  IInv'
<1> USE DEF IInv, Drop, chanVars, nodeVars, threadVars
<1> DEFINE v == reg[t][r]
<1>0. v \in Value
  BY DEF TypeOK
<1>3. RefCountExact' /\ rc' \in [Value -> Nat]
  <2>0. ASSUME NEW w \in Value
        PROVE  /\ rc'[w] = Cardinality(Owners(w)') + Cardinality(Carriers(w)')
               /\ rc'[w] \in Nat
    <3>1. Cardinality(Owners(w)') = Cardinality(Owners(w)) - (IF w = v THEN 1 ELSE 0)
      BY <1>0, OwnersLose, ZenonT(60)
    <3>2. Carriers(w)' = Carriers(w)
      BY DEF Carriers
    <3>3. IsFiniteSet(Owners(w)) /\ (w = v => <<t, r>> \in Owners(w))
      BY HoldersFinite DEF Owners
    <3>4. w = v => Cardinality(Owners(w)) # 0
      BY <3>3, FS_EmptySet
    <3>5. rc[w] = Cardinality(Owners(w)) + Cardinality(Carriers(w)) /\ rc[w] \in Nat
      BY DEF RefCountExact, TypeOK
    <3>6. rc'[w] = rc[w] - (IF w = v THEN 1 ELSE 0)
      BY <1>0 DEF TypeOK
    <3>7. QED
      BY <3>1, <3>2, <3>4, <3>5, <3>6, HoldersFinite
  <2>1. RefCountExact'
    BY <2>0 DEF RefCountExact
  <2>2. rc' = [w \in Value |-> rc'[w]]
    BY <1>0 DEF TypeOK
  <2>3. QED
    BY <2>0, <2>1, <2>2
<1>1. TypeOK'
  BY <1>3 DEF TypeOK
<1>2. LocalInv'
  BY DEF LocalInv
<1>4. NodesAccounted'
  BY NodesFrame DEF InHand
<1>5. PointersMatchFifo'
  BY PointersFrame DEF Arriving, Departing
<1>6. QED
  BY <1>1, <1>2, <1>3, <1>4, <1>5

LEMMA NewStep ==
  ASSUME IInv, NEW t \in Thread, NEW c \in Chan, New(t, c)
  PROVE  IInv'
<1> USE DEF IInv, New, nodeVars, threadVars, valueVars
<1>1. TypeOK'
  BY DEF TypeOK
<1>2. LocalInv'
  BY DEF LocalInv, TypeOK, NoSlot, Chan
<1>3. RefCountExact'
  BY CountsFrame
<1>4. NodesAccounted'
  BY NodesFrame DEF InHand
<1>5. PointersMatchFifo'
  <2>1. \A d \in Chan : Arriving(d)' = Arriving(d) /\ Departing(d)' = Departing(d)
    BY DEF Arriving, Departing
  <2>2. fifo[c] = <<>> /\ lock[c] = NoThread
    <3>1. \A u \in Thread : slot[u] # c
      BY DEF LocalInv, NoSlot, Chan
    <3>2. lock[c] \notin Thread
      BY <3>1 DEF LocalInv
    <3>3. QED
      BY <3>2 DEF LocalInv, TypeOK
  <2>3. Arriving(c) = NoCell /\ Departing(c) = NoCell
    BY <2>2 DEF Arriving, Departing
  <2>4. head[c] = NoCell /\ tail[c] = NoCell
    BY <2>2, <2>3 DEF PointersMatchFifo, QueueInPointers
  <2>5. UNCHANGED <<head, tail, next, fifo>>
    BY <2>4 DEF TypeOK
  <2>6. QED
    BY <2>1, <2>5, PointersFrame
<1>6. QED
  BY <1>1, <1>2, <1>3, <1>4, <1>5

LEMMA SendBeginStep ==
  ASSUME IInv, NEW t \in Thread, NEW c \in Chan, NEW r \in Reg, NEW m \in Cell,
         SendBegin(t, c, r, m)
  PROVE  IInv'
<1> USE DEF IInv, SendBegin, Goto, chanVars
<1> DEFINE v == reg[t][r]
<1>0. v \in Value /\ m \notin heap
  BY DEF TypeOK
<1>1. TypeOK'
  BY DEF TypeOK, PC, SendPC
<1>2. LocalInv'
  <2>1. \A u \in Thread \ {t} : InHand(u) => msg[u] # m
    BY <1>0 DEF NodesAccounted
  <2>2. QED
    BY <1>0, <2>1, ChannelsAssumption
       DEF TypeOK, LocalInv, Critical, Chan, NoSlot, InHand
<1>3. RefCountExact'
  <2> SUFFICES ASSUME NEW w \in Value
               PROVE  rc'[w] = Cardinality(Owners(w)') + Cardinality(Carriers(w)')
    BY DEF RefCountExact
  <2>1. Cardinality(Carriers(w)') = Cardinality(Carriers(w)) + (IF w = v THEN 1 ELSE 0)
    BY <1>0, CarriersGain
  <2>2. Owners(w)' = Owners(w)
    BY DEF Owners
  <2>3. rc'[w] = rc[w] + (IF w = v THEN 1 ELSE 0)
    BY <1>0 DEF TypeOK
  <2>4. QED
    BY <2>1, <2>2, <2>3, HoldersFinite DEF RefCountExact, TypeOK
<1>4. NodesAccounted'
  <2>1. \A u \in Thread : /\ InHand(u)' <=> InHand(u) \/ u = t
                          /\ u # t => msg'[u] = msg[u]
    BY DEF InHand, TypeOK
  <2>2. msg'[t] = m /\ ~InHand(t)
    BY DEF TypeOK, InHand
  <2>3. \A d \in Chan : Listed(d)' = Listed(d) /\ m \notin Listed(d)
    BY <1>0 DEF Listed, NodesAccounted
  <2>4. \A u \in Thread : InHand(u) => msg[u] # m
    BY <1>0 DEF NodesAccounted
  <2>5. \A u \in Thread : InHand(u)' =>
          /\ msg'[u] \in heap'
          /\ \A w \in Thread : InHand(w)' /\ msg'[w] = msg'[u] => u = w
          /\ \A d \in Chan : msg'[u] \notin Listed(d)'
    BY <2>1, <2>2, <2>3, <2>4 DEF NodesAccounted
  <2>6. \A x \in heap' : \/ \E u \in Thread : InHand(u)' /\ msg'[u] = x
                         \/ \E d \in Chan : x \in Listed(d)'
    <3> SUFFICES ASSUME NEW x \in heap'
                 PROVE  \/ \E u \in Thread : InHand(u)' /\ msg'[u] = x
                        \/ \E d \in Chan : x \in Listed(d)'
      OBVIOUS
    <3>1. CASE x = m
      BY <2>1, <2>2, <3>1
    <3>2. CASE x \in heap
      BY <2>1, <2>2, <2>3, <3>2 DEF NodesAccounted
    <3>3. QED
      BY <3>1, <3>2
  <2>7. QED
    BY <2>3, <2>5, <2>6 DEF NodesAccounted
<1>5. PointersMatchFifo'
  <2>1. \A d \in Chan : Arriving(d)' = Arriving(d) /\ Departing(d)' = Departing(d)
    BY ChannelsAssumption DEF Arriving, Departing, TypeOK, LocalInv, Critical
  <2>2. \A d \in Chan : \A n \in DOMAIN fifo[d] : fifo[d][n] # m
    BY <1>0 DEF NodesAccounted, Listed
  <2>3. QED
    BY <2>1, <2>2 DEF PointersMatchFifo, QueueInPointers, TypeOK
<1>6. QED
  BY <1>1, <1>2, <1>3, <1>4, <1>5

LEMMA SendLinkStep ==
  ASSUME IInv, NEW t \in Thread, SendLink(t)
  PROVE  IInv'
<1> USE DEF IInv, SendLink, Goto, valueVars
<1> DEFINE c == slot[t]
<1>0. c \in Chan /\ lock[c] = t /\ InHand(t) /\ msg[t] \in heap /\ heap \subseteq Cell
  BY DEF TypeOK, LocalInv, Critical, NoSlot, Chan, NodesAccounted, InHand
<1>1. TypeOK'
  BY <1>0 DEF TypeOK, PC, SendPC
<1>2. LocalInv'
  <2>1. \A u \in Thread : InHand(u) => next'[msg[u]] = next[msg[u]]
    <3>1. Departing(c) = NoCell
      BY <1>0 DEF Departing
    <3>2. fifo[c] # <<>> => Len(fifo[c]) \in DOMAIN fifo[c]
      BY <1>0 DEF TypeOK
    <3>3. tail[c] # NoCell => tail[c] \in Listed(c)
      BY <1>0, <3>1, <3>2, SMTT(60) DEF PointersMatchFifo, QueueInPointers, Listed
    <3>4. QED
      BY <1>0, <3>3 DEF NodesAccounted, TypeOK
  <2>2. \A u \in Thread : pc'[u] \in {"s_lock", "s_link", "s_tail"} =>
          InHand(u) /\ pc[u] \in {"s_lock", "s_link", "s_tail"}
    BY DEF TypeOK, InHand
  <2>3. \A u \in Thread : pc'[u] \in {"s_lock", "s_link", "s_tail"} => next'[msg'[u]] = NoCell
    BY <2>1, <2>2 DEF LocalInv
  <2>4. QED
    BY <1>0, <2>3, ChannelsAssumption, SMTT(60) DEF TypeOK, LocalInv, Critical, Chan, NoSlot
<1>3. RefCountExact'
  BY CountsFrame
<1>4. NodesAccounted'
  BY NodesFrame DEF InHand, TypeOK
<1>5. PointersMatchFifo'
  <2>1. \A d \in Chan \ {c} : Arriving(d)' = Arriving(d) /\ Departing(d)' = Departing(d)
    BY <1>0, ChannelsAssumption DEF Arriving, Departing, TypeOK, LocalInv, Critical
  <2>2. Arriving(c) = NoCell /\ Departing(c) = NoCell
    BY <1>0 DEF Arriving, Departing
  <2>3. Arriving(c)' = msg[t] /\ Departing(c)' = NoCell
    BY <1>0, ChannelsAssumption DEF Arriving, Departing, TypeOK
  <2>4. CASE fifo[c] = <<>>
    <3>1. tail[c] = NoCell
      BY <1>0, <2>2, <2>4 DEF PointersMatchFifo, QueueInPointers
    <3>2. head' = [head EXCEPT ![c] = msg[t]] /\ UNCHANGED <<tail, next, fifo>>
      BY <3>1
    <3>3. QED
      BY <1>0, <2>1, <2>2, <2>3, <2>4, <3>2 DEF PointersMatchFifo, QueueInPointers, TypeOK
  <2>5. CASE fifo[c] # <<>>
    <3> DEFINE q == fifo[c]
               last == q[Len(q)]
    <3>0. q \in Seq(Cell) /\ Len(q) \in DOMAIN q /\ Len(q) \in Nat /\ Len(q) > 0
      BY <1>0, <2>5 DEF TypeOK
    <3>1. tail[c] = last /\ last \in Cell
      BY <1>0, <2>5, <3>0 DEF PointersMatchFifo, QueueInPointers
    <3>2. next' = [next EXCEPT ![last] = msg[t]] /\ UNCHANGED <<head, tail, fifo>>
      BY <1>0, <3>1, ChannelsAssumption
    <3>3. \A d \in Chan : \A n \in DOMAIN fifo[d] :
            next'[fifo[d][n]] = IF d = c /\ n = Len(q) THEN msg[t] ELSE next[fifo[d][n]]
      BY <1>0, <3>0, <3>1, <3>2 DEF NodesAccounted, TypeOK
    <3>4. QED
      BY <1>0, <2>1, <2>2, <2>3, <2>5, <3>0, <3>2, <3>3 DEF PointersMatchFifo, QueueInPointers
  <2>6. QED
    BY <2>4, <2>5
<1>6. QED
  BY <1>1, <1>2, <1>3, <1>4, <1>5

LEMMA SendTailStep ==
  ASSUME IInv, NEW t \in Thread, SendTail(t)
  PROVE  IInv'
<1> USE DEF IInv, SendTail, Goto, valueVars, nodeVars
<1>s. PICK c \in Chan : slot[t] = c
  BY DEF TypeOK, LocalInv
<1> USE <1>s
<1> DEFINE q == fifo[c]
<1>0. /\ c \in Chan /\ lock[c] = t /\ InHand(t) /\ msg[t] \in heap /\ heap \subseteq Cell
      /\ live[c] /\ q \in Seq(Cell) /\ msg[t] \in Cell
  BY DEF TypeOK, LocalInv, Critical, NoSlot, Chan, NodesAccounted, InHand
<1>a. /\ fifo'[c] = Append(q, msg[t])
      /\ \A d \in Chan \ {c} : fifo'[d] = fifo[d]
      /\ fifo' \in [Chan -> Seq(Cell)]
  BY <1>0 DEF TypeOK
<1>b. /\ DOMAIN fifo'[c] = 1 .. Len(q) + 1
      /\ Len(fifo'[c]) = Len(q) + 1 /\ Len(q) \in Nat /\ DOMAIN q = 1 .. Len(q)
      /\ \A n \in DOMAIN q : fifo'[c][n] = q[n]
      /\ fifo'[c][Len(q) + 1] = msg[t]
      /\ fifo'[c] # <<>>
  BY <1>0, <1>a
<1>c. \A d \in Chan : Listed(d)' = IF d = c THEN Listed(c) \cup {msg[t]} ELSE Listed(d)
  <2>1. Listed(c)' = Listed(c) \cup {msg[t]}
    BY <1>b DEF Listed
  <2>2. QED
    BY <1>a, <2>1, SMTT(60) DEF Listed
<1>1. TypeOK'
  BY <1>0, <1>a DEF TypeOK, PC, SendPC
<1>2. LocalInv'
  BY <1>0, <1>a, ChannelsAssumption DEF TypeOK, LocalInv, Critical, Chan, NoSlot
<1>3. RefCountExact'
  BY CountsFrame
<1>4. NodesAccounted'
  <2>1. \A u \in Thread : /\ InHand(u)' <=> InHand(u) /\ u # t
                          /\ u # t => msg'[u] = msg[u]
    BY <1>0 DEF InHand, TypeOK
  <2>2. \A u \in Thread : InHand(u)' =>
          /\ msg'[u] \in heap'
          /\ \A w \in Thread : InHand(w)' /\ msg'[w] = msg'[u] => u = w
          /\ \A d \in Chan : msg'[u] \notin Listed(d)'
    BY <1>0, <1>c, <2>1 DEF NodesAccounted
  <2>3. \A d, e \in Chan : \A i \in DOMAIN fifo'[d], j \in DOMAIN fifo'[e] :
          fifo'[d][i] = fifo'[e][j] => d = e /\ i = j
    <3>1. \A d \in Chan : \A i \in DOMAIN fifo[d] : fifo[d][i] # msg[t]
      BY <1>0 DEF NodesAccounted, Listed
    <3>2. QED
      BY <1>0, <1>a, <1>b, <3>1 DEF NodesAccounted
  <2>4. \A m \in heap' : \/ \E u \in Thread : InHand(u)' /\ msg'[u] = m
                         \/ \E d \in Chan : m \in Listed(d)'
    <3> SUFFICES ASSUME NEW m \in heap
                 PROVE  \/ \E u \in Thread : InHand(u)' /\ msg'[u] = m
                        \/ \E d \in Chan : m \in Listed(d)'
      OBVIOUS
    <3>1. CASE m = msg[t]
      BY <1>0, <1>c, <3>1
    <3>2. CASE \E u \in Thread \ {t} : InHand(u) /\ msg[u] = m
      BY <2>1, <3>2
    <3>3. CASE \E d \in Chan : m \in Listed(d)
      BY <1>0, <1>c, <3>3
    <3>4. QED
      BY <3>1, <3>2, <3>3 DEF NodesAccounted
  <2>5. \A d \in Chan : Listed(d)' \subseteq heap'
    BY <1>0, <1>c DEF NodesAccounted
  <2>6. QED
    BY <2>2, <2>3, <2>4, <2>5 DEF NodesAccounted
<1>5. PointersMatchFifo'
  <2>1. \A d \in Chan \ {c} : Arriving(d)' = Arriving(d) /\ Departing(d)' = Departing(d)
    BY <1>0, ChannelsAssumption DEF Arriving, Departing, TypeOK, LocalInv, Critical
  <2>2. Arriving(c) = msg[t] /\ Departing(c) = NoCell
    BY <1>0, ChannelsAssumption DEF Arriving, Departing
  <2>3. Arriving(c)' = NoCell /\ Departing(c)' = NoCell
    BY <1>0, ChannelsAssumption DEF Arriving, Departing, TypeOK
  <2>4. tail'[c] = msg[t] /\ \A d \in Chan \ {c} : tail'[d] = tail[d]
    BY <1>0 DEF TypeOK
  <2>5. ASSUME NEW d \in Chan \ {c}
        PROVE  QueueInPointers(d)'
    BY <1>a, <2>1, <2>4 DEF PointersMatchFifo, QueueInPointers
  <2>6. LET p == fifo'[c] IN
        /\ head'[c] = p[1]
        /\ tail'[c] = p[Len(p)]
        /\ \A n \in DOMAIN p : next'[p[n]] = IF n = Len(p) THEN NoCell ELSE p[n + 1]
    <3>1. head[c] = IF q = <<>> THEN msg[t] ELSE q[1]
      BY <1>0, <2>2 DEF PointersMatchFifo, QueueInPointers
    <3>2. q # <<>> => Len(q) \in 1 .. Len(q) /\ 1 \in 1 .. Len(q)
      BY <1>0
    <3>3. head'[c] = fifo'[c][1]
      BY <1>0, <1>b, <3>1, <3>2
    <3>4. \A n \in DOMAIN q : next[q[n]] = IF n = Len(q) THEN msg[t] ELSE q[n + 1]
      BY <1>0, <2>2 DEF PointersMatchFifo, QueueInPointers
    <3>5. next[msg[t]] = NoCell
      BY DEF LocalInv
    <3>6. \A n \in 1 .. Len(q) + 1 :
            next[fifo'[c][n]] = IF n = Len(q) + 1 THEN NoCell ELSE fifo'[c][n + 1]
      BY <1>b, <3>4, <3>5, SMTT(60)
    <3>7. QED
      BY <1>b, <2>4, <3>3, <3>6, SMTT(60)
  <2>7. /\ head'[c] = IF fifo'[c] = <<>> THEN Arriving(c)' ELSE fifo'[c][1]
        /\ tail'[c] = IF fifo'[c] = <<>> THEN Departing(c)' ELSE fifo'[c][Len(fifo'[c])]
    BY <1>b, <2>6
  <2>8. \A n \in DOMAIN fifo'[c] :
          next'[fifo'[c][n]] = IF n = Len(fifo'[c]) THEN Arriving(c)' ELSE fifo'[c][n + 1]
    BY <2>3, <2>6
  <2>9. QueueInPointers(c)'
    BY <2>7, <2>8 DEF QueueInPointers
  <2>10. QED
    BY <2>5, <2>9 DEF PointersMatchFifo
<1>6. QED
  BY <1>1, <1>2, <1>3, <1>4, <1>5

LEMMA RecvHeadStep ==
  ASSUME IInv, NEW t \in Thread, RecvHead(t)
  PROVE  IInv'
<1> USE DEF IInv, RecvHead, Goto, valueVars, nodeVars
<1>s. PICK c \in Chan : slot[t] = c
  BY DEF TypeOK, LocalInv
<1> USE <1>s
<1> DEFINE q == fifo[c]
<1>0. /\ c \in Chan /\ lock[c] = t /\ ~InHand(t) /\ live[c] /\ q \in Seq(Cell)
      /\ msg[t] = head[c] /\ msg[t] \in Cell
  BY DEF TypeOK, LocalInv, Critical, NoSlot, Chan, InHand
<1>q. q # <<>> /\ msg[t] = q[1] /\ Len(q) \in Nat \ {0}
  <2>1. Arriving(c) = NoCell
    BY <1>0 DEF Arriving
  <2>2. q # <<>> /\ msg[t] = q[1]
    BY <1>0, <2>1 DEF PointersMatchFifo, QueueInPointers, LocalInv
  <2>3. QED
    BY <1>0, <2>2
<1>a. /\ fifo'[c] = Tail(q)
      /\ \A d \in Chan \ {c} : fifo'[d] = fifo[d]
      /\ fifo' \in [Chan -> Seq(Cell)]
  BY <1>0, <1>q DEF TypeOK
<1>b. /\ DOMAIN fifo'[c] = 1 .. Len(q) - 1 /\ DOMAIN q = 1 .. Len(q)
      /\ Len(fifo'[c]) = Len(q) - 1
      /\ \A n \in 1 .. Len(q) - 1 : fifo'[c][n] = q[n + 1]
      /\ fifo'[c] = <<>> <=> Len(q) = 1
  <2> DEFINE p == fifo'[c]
  <2>1. q \in Seq(Cell) /\ q # <<>> /\ p = Tail(q) /\ Len(q) \in Nat \ {0}
    BY <1>0, <1>q, <1>a
  <2> HIDE DEF p, q
  <2>2. /\ DOMAIN p = 1 .. Len(q) - 1 /\ DOMAIN q = 1 .. Len(q)
        /\ Len(p) = Len(q) - 1
        /\ \A n \in 1 .. Len(q) - 1 : p[n] = q[n + 1]
    BY <2>1
  <2>3. p \in Seq(Cell)
    BY <2>1
  <2>4. p = <<>> <=> Len(p) = 0
    BY <2>3
  <2>5. p = <<>> <=> Len(q) = 1
    BY <2>1, <2>2, <2>4
  <2>6. QED
    BY <2>2, <2>5 DEF p, q
<1>c. /\ Listed(c)' = Listed(c) \ {msg[t]}
      /\ msg[t] \in Listed(c)
      /\ \A d \in Chan \ {c} : Listed(d)' = Listed(d) /\ msg[t] \notin Listed(d)
  <2>1. \A d \in Chan \ {c} : Listed(d)' = Listed(d)
    BY <1>a DEF Listed
  <2>2. msg[t] \in Listed(c)
    <3>1. 1 \in DOMAIN q
      BY <1>q, <1>b
    <3>2. QED
      BY <1>q, <3>1 DEF Listed
  <2>3. \A d \in Chan \ {c} : msg[t] \notin Listed(d)
    BY <1>0, <1>q, <1>b DEF NodesAccounted, Listed
  <2>4. Listed(c)' = {q[n + 1] : n \in 1 .. Len(q) - 1}
    BY <1>b, ZenonT(60) DEF Listed
  <2>5. \A n \in 1 .. Len(q) : q[n] = msg[t] <=> n = 1
    BY <1>0, <1>q, <1>b DEF NodesAccounted
  <2>6. Listed(c) = {q[n] : n \in 1 .. Len(q)}
    BY <1>b DEF Listed
  <2>7. Listed(c)' \subseteq Listed(c) \ {msg[t]}
    BY <1>q, <2>4, <2>5, <2>6
  <2>8. ASSUME NEW n \in 1 .. Len(q), q[n] # msg[t] PROVE q[n] \in Listed(c)'
    <3>1. n - 1 \in 1 .. Len(q) - 1 /\ q[n] = q[(n - 1) + 1]
      BY <1>q, <2>5, <2>8
    <3>2. QED
      BY <2>4, <3>1
  <2>9. QED
    BY <2>1, <2>2, <2>3, <2>6, <2>7, <2>8
<1>1. TypeOK'
  BY <1>0, <1>a DEF TypeOK, PC, RecvPC
<1>2. LocalInv'
  <2>1. \A u \in Thread : pc'[u] = "r_head" => slot[u] # c
    BY <1>0 DEF TypeOK, LocalInv, Critical
  <2>2. QED
    BY <1>0, <1>a, <2>1, ChannelsAssumption DEF TypeOK, LocalInv, Critical, Chan, NoSlot
<1>3. RefCountExact'
  BY CountsFrame
<1>4. NodesAccounted'
  <2>1. \A u \in Thread : InHand(u)' <=> InHand(u) \/ u = t
    BY DEF InHand, TypeOK
  <2>2. \A u \in Thread : InHand(u) => msg[u] # msg[t]
    BY <1>0, <1>c DEF NodesAccounted
  <2>3. \A u \in Thread : InHand(u)' =>
          /\ msg'[u] \in heap'
          /\ \A w \in Thread : InHand(w)' /\ msg'[w] = msg'[u] => u = w
          /\ \A d \in Chan : msg'[u] \notin Listed(d)'
    BY <1>0, <1>c, <2>1, <2>2 DEF NodesAccounted
  <2>4. \A d, e \in Chan : \A i \in DOMAIN fifo'[d], j \in DOMAIN fifo'[e] :
          fifo'[d][i] = fifo'[e][j] => d = e /\ i = j
    <3>1. \A d \in Chan : \A i \in DOMAIN fifo'[d] :
            LET k == IF d = c THEN i + 1 ELSE i IN
            k \in DOMAIN fifo[d] /\ fifo'[d][i] = fifo[d][k]
      BY <1>0, <1>q, <1>a, <1>b
    <3>2. \A d \in Chan : DOMAIN fifo'[d] \subseteq Int
      BY <1>a
    <3> SUFFICES ASSUME NEW d \in Chan, NEW e \in Chan,
                        NEW i \in DOMAIN fifo'[d], NEW j \in DOMAIN fifo'[e],
                        fifo'[d][i] = fifo'[e][j]
                 PROVE  d = e /\ i = j
      OBVIOUS
    <3> DEFINE k == IF d = c THEN i + 1 ELSE i
               l == IF e = c THEN j + 1 ELSE j
    <3>3. k \in DOMAIN fifo[d] /\ l \in DOMAIN fifo[e] /\ fifo[d][k] = fifo[e][l]
      BY <3>1
    <3>4. d = e /\ k = l
      BY <3>3 DEF NodesAccounted
    <3>5. QED
      BY <3>2, <3>4
  <2>5. \A m \in heap' : \/ \E u \in Thread : InHand(u)' /\ msg'[u] = m
                         \/ \E d \in Chan : m \in Listed(d)'
    <3> SUFFICES ASSUME NEW m \in heap
                 PROVE  \/ \E u \in Thread : InHand(u)' /\ msg'[u] = m
                        \/ \E d \in Chan : m \in Listed(d)'
      OBVIOUS
    <3>1. CASE m = msg[t]
      BY <2>1, <3>1
    <3>2. CASE \E u \in Thread : InHand(u) /\ msg[u] = m
      BY <2>1, <3>2
    <3>3. CASE m # msg[t] /\ \E d \in Chan : m \in Listed(d)
      BY <1>0, <1>c, <3>3
    <3>4. QED
      BY <3>1, <3>2, <3>3 DEF NodesAccounted
  <2>6. \A d \in Chan : Listed(d)' \subseteq heap'
    BY <1>0, <1>c DEF NodesAccounted
  <2>7. QED
    BY <2>3, <2>4, <2>5, <2>6 DEF NodesAccounted
<1>5. PointersMatchFifo'
  <2>1. \A d \in Chan \ {c} : Arriving(d)' = Arriving(d) /\ Departing(d)' = Departing(d)
    BY <1>0, ChannelsAssumption DEF Arriving, Departing, TypeOK, LocalInv, Critical
  <2>2. Arriving(c) = NoCell /\ Departing(c) = NoCell
    BY <1>0, ChannelsAssumption DEF Arriving, Departing
  <2>3. Arriving(c)' = NoCell /\ Departing(c)' = msg[t]
    BY <1>0, ChannelsAssumption DEF Arriving, Departing, TypeOK
  <2>4. head'[c] = next[msg[t]] /\ \A d \in Chan \ {c} : head'[d] = head[d]
    BY <1>0 DEF TypeOK
  <2>5. ASSUME NEW d \in Chan \ {c}
        PROVE  QueueInPointers(d)'
    BY <1>a, <2>1, <2>4 DEF PointersMatchFifo, QueueInPointers
  <2>6. \A n \in 1 .. Len(q) : next[q[n]] = IF n = Len(q) THEN NoCell ELSE q[n + 1]
    BY <1>0, <1>b, <2>2, SMTT(60) DEF PointersMatchFifo, QueueInPointers
  <2>7. head'[c] = IF fifo'[c] = <<>> THEN Arriving(c)' ELSE fifo'[c][1]
    <3>1. 1 \in 1 .. Len(q) /\ 1 + 1 = 2
      BY <1>q
    <3>2. next[q[1]] = IF 1 = Len(q) THEN NoCell ELSE q[2]
      BY <2>6, <3>1
    <3>3. Len(q) # 1 => fifo'[c][1] = q[2]
      BY <1>q, <1>b
    <3>4. QED
      BY <1>q, <1>b, <2>3, <2>4, <3>2, <3>3
  <2>8. tail'[c] = IF fifo'[c] = <<>> THEN Departing(c)' ELSE fifo'[c][Len(fifo'[c])]
    <3>1. tail'[c] = q[Len(q)]
      BY <1>0, <1>q DEF PointersMatchFifo, QueueInPointers
    <3>2. Len(q) # 1 => fifo'[c][Len(q) - 1] = q[Len(q)]
      BY <1>q, <1>b
    <3>3. QED
      BY <1>q, <1>b, <2>3, <3>1, <3>2
  <2>9. ASSUME NEW n \in DOMAIN fifo'[c]
        PROVE  next'[fifo'[c][n]] = IF n = Len(fifo'[c]) THEN Arriving(c)' ELSE fifo'[c][n + 1]
    <3>1. n \in 1 .. Len(q) - 1 /\ n + 1 \in 1 .. Len(q) /\ fifo'[c][n] = q[n + 1]
      BY <1>q, <1>b
    <3>2. next[q[n + 1]] = IF n + 1 = Len(q) THEN NoCell ELSE q[(n + 1) + 1]
      BY <2>6, <3>1
    <3>3. n + 1 # Len(q) => fifo'[c][n + 1] = q[(n + 1) + 1]
      BY <1>q, <1>b, <3>1
    <3>4. n = Len(fifo'[c]) <=> n + 1 = Len(q)
      BY <1>q, <1>b, <3>1
    <3>5. next' = next
      OBVIOUS
    <3>6. QED
      BY <2>3, <3>1, <3>2, <3>3, <3>4, <3>5
  <2>10. QueueInPointers(c)'
    BY <2>7, <2>8, <2>9 DEF QueueInPointers
  <2>11. QED
    BY <2>5, <2>10 DEF PointersMatchFifo
<1>6. QED
  BY <1>1, <1>2, <1>3, <1>4, <1>5

LEMMA RecvTailStep ==
  ASSUME IInv, NEW t \in Thread, RecvTail(t)
  PROVE  IInv'
<1> USE DEF IInv, RecvTail, Goto, valueVars, nodeVars
<1> DEFINE c == slot[t]
<1>0. c \in Chan /\ lock[c] = t /\ InHand(t)
  BY DEF TypeOK, LocalInv, Critical, NoSlot, Chan, InHand
<1>1. TypeOK'
  BY DEF TypeOK, PC, RecvPC
<1>2. LocalInv'
  BY ChannelsAssumption DEF TypeOK, LocalInv, Critical, Chan, NoSlot
<1>3. RefCountExact'
  BY CountsFrame
<1>4. NodesAccounted'
  BY NodesFrame DEF InHand, TypeOK
<1>5. PointersMatchFifo'
  <2>1. \A d \in Chan \ {c} : Arriving(d)' = Arriving(d) /\ Departing(d)' = Departing(d)
    BY <1>0, ChannelsAssumption DEF Arriving, Departing, TypeOK, LocalInv, Critical
  <2>2. Arriving(c) = NoCell /\ Arriving(c)' = NoCell /\ Departing(c)' = NoCell
    BY <1>0, ChannelsAssumption DEF Arriving, Departing, TypeOK
  <2>3. head[c] = NoCell <=> fifo[c] = <<>>
    <3>1. fifo[c] # <<>> => fifo[c][1] \in Cell
      BY <1>0 DEF TypeOK
    <3>2. QED
      BY <1>0, <2>2, <3>1, ChannelsAssumption DEF PointersMatchFifo, QueueInPointers
  <2>4. /\ \A d \in Chan \ {c} : tail'[d] = tail[d]
        /\ tail'[c] = IF fifo[c] = <<>> THEN NoCell ELSE tail[c]
    BY <1>0, <2>3 DEF TypeOK
  <2>5. QED
    BY <1>0, <2>1, <2>2, <2>4 DEF PointersMatchFifo, QueueInPointers
<1>6. QED
  BY <1>1, <1>2, <1>3, <1>4, <1>5

LEMMA RecvFreeStep ==
  ASSUME IInv, NEW t \in Thread, NEW r \in Reg, RecvFree(t, r)
  PROVE  IInv'
<1> USE DEF IInv, RecvFree, Goto, chanVars
<1> DEFINE m == msg[t]
           v == val[m]
<1>0. InHand(t) /\ m \in heap /\ m \in Cell /\ v \in Value /\ heap \subseteq Cell
  BY DEF TypeOK, LocalInv, NodesAccounted, InHand
<1>1. TypeOK'
  BY <1>0 DEF TypeOK, PC
<1>a. \A u \in Thread : /\ InHand(u)' <=> InHand(u) /\ u # t
                        /\ u # t => msg'[u] = msg[u]
                        /\ InHand(u) /\ u # t => msg[u] # m
  BY <1>0 DEF InHand, TypeOK, NodesAccounted
<1>2. LocalInv'
  <2>1. \A u \in Thread : pc'[u] \in {"s_lock", "s_link", "s_tail"} =>
          pc[u] = pc'[u] /\ InHand(u)' /\ next'[msg'[u]] = next[msg[u]]
    BY <1>0, <1>a DEF InHand, TypeOK
  <2>2. QED
    BY <1>0, <2>1, ChannelsAssumption DEF TypeOK, LocalInv, Critical, Chan, NoSlot
<1>3. RefCountExact'
  <2> SUFFICES ASSUME NEW w \in Value
               PROVE  rc'[w] = Cardinality(Owners(w)') + Cardinality(Carriers(w)')
    BY DEF RefCountExact
  <2>1. Cardinality(Carriers(w)') = Cardinality(Carriers(w)) - (IF w = v THEN 1 ELSE 0)
    BY <1>0, CarriersLose
  <2>2. Cardinality(Owners(w)') = Cardinality(Owners(w)) + (IF w = v THEN 1 ELSE 0)
    BY <1>0, OwnersGain, ZenonT(60)
  <2>3. QED
    BY <2>1, <2>2, HoldersFinite DEF RefCountExact, TypeOK
<1>b. \A c \in Chan : Listed(c)' = Listed(c) /\ m \notin Listed(c)
  BY <1>0 DEF Listed, NodesAccounted
<1>4. NodesAccounted'
  <2>1. \A u \in Thread : InHand(u)' =>
          /\ msg'[u] \in heap'
          /\ \A w \in Thread : InHand(w)' /\ msg'[w] = msg'[u] => u = w
          /\ \A d \in Chan : msg'[u] \notin Listed(d)'
    BY <1>a, <1>b DEF NodesAccounted
  <2>2. \A x \in heap' : \/ \E u \in Thread : InHand(u)' /\ msg'[u] = x
                         \/ \E d \in Chan : x \in Listed(d)'
    <3> SUFFICES ASSUME NEW x \in heap, x # m
                 PROVE  \/ \E u \in Thread : InHand(u)' /\ msg'[u] = x
                        \/ \E d \in Chan : x \in Listed(d)'
      OBVIOUS
    <3>1. QED
      BY <1>a, <1>b DEF NodesAccounted
  <2>3. \A d \in Chan : Listed(d)' \subseteq heap'
    BY <1>b DEF NodesAccounted
  <2>4. QED
    BY <2>1, <2>2, <2>3 DEF NodesAccounted
<1>5. PointersMatchFifo'
  <2>1. \A d \in Chan : Arriving(d)' = Arriving(d) /\ Departing(d)' = Departing(d)
    BY ChannelsAssumption DEF Arriving, Departing, TypeOK, LocalInv, Critical
  <2>2. \A d \in Chan : \A n \in DOMAIN fifo[d] : next'[fifo[d][n]] = next[fifo[d][n]]
    BY <1>0, <1>b DEF Listed, TypeOK
  <2>3. QED
    BY <2>1, <2>2 DEF PointersMatchFifo, QueueInPointers
<1>6. QED
  BY <1>1, <1>2, <1>3, <1>4, <1>5

-----------------------------------------------------------------------------

LEMMA StepIInv == IInv /\ [Next]_vars => IInv'
<1> SUFFICES ASSUME IInv, [Next]_vars PROVE IInv'
  OBVIOUS
<1>1. CASE UNCHANGED vars
  <2>1. TypeOK' /\ LocalInv'
    BY <1>1 DEF IInv, TypeOK, LocalInv, vars, chanVars, nodeVars, threadVars, valueVars
  <2>2. RefCountExact'
    BY <1>1, CountsFrame DEF IInv, vars, nodeVars, valueVars
  <2>3. NodesAccounted'
    BY <1>1, NodesFrame DEF IInv, vars, nodeVars, threadVars, InHand
  <2>4. PointersMatchFifo'
    BY <1>1, PointersFrame DEF IInv, vars, chanVars, nodeVars, threadVars, Arriving, Departing
  <2>5. QED
    BY <2>1, <2>2, <2>3, <2>4 DEF IInv
<1>2. CASE Next
  <2> PICK t \in Thread :
        \/ \E r \in Reg, v \in Value : Create(t, r, v)
        \/ \E r \in Reg : Drop(t, r)
        \/ \E c \in Chan : New(t, c)
        \/ \E c \in Chan, r \in Reg, m \in Cell : SendBegin(t, c, r, m)
        \/ \E c \in Chan : RecvBegin(t, c)
        \/ SpuriousWakeup(t)
        \/ Continue(t)
    BY <1>2 DEF Next
  <2>1. CASE Continue(t)
    BY <2>1, SendLockStep, SendLinkStep, SendTailStep, SendSignalStep, SendUnlockStep,
       RecvLockStep, RecvSleepStep, RecvWakeStep, RecvTakeStep, RecvHeadStep,
       RecvTailStep, RecvUnlockStep, RecvFreeStep DEF Continue
  <2>2. QED
    BY <2>1, CreateStep, DropStep, NewStep, SendBeginStep, RecvBeginStep, SpuriousWakeupStep
<1>3. QED
  BY <1>1, <1>2

\* The inductive invariant holds in every state of every behaviour.
THEOREM InductiveInvariant == Spec => []IInv
BY InitIInv, StepIInv, PTL DEF Spec

\* Every variable of the channels keeps its type; in particular no reference
\* count (nv_arc_dec) ever goes below zero.
THEOREM TypeCorrect == Spec => []TypeOK
<1>1. IInv => TypeOK
  BY DEF IInv
<1>2. QED
  BY <1>1, InductiveInvariant, PTL

\* nv_channel_send takes exactly the one reference that nv_channel_recv hands
\* over: every count equals the number of variables and messages holding it.
THEOREM CountsExact == Spec => []RefCountExact
<1>1. IInv => RefCountExact
  BY DEF IInv
<1>2. QED
  BY <1>1, InductiveInvariant, PTL

\* A message node is in one list or in one thread's hands, never in two places
\* and never in a list after nv_channel_recv freed it.
THEOREM NodesInOnePlace == Spec => []NodesAccounted
<1>1. IInv => NodesAccounted
  BY DEF IInv
<1>2. QED
  BY <1>1, InductiveInvariant, PTL

\* head, tail and next describe the messages sent and not received, in order,
\* also while one thread is halfway through moving a node.
THEOREM PointersFollowFifo == Spec => []PointersMatchFifo
<1>1. IInv => PointersMatchFifo
  BY DEF IInv
<1>2. QED
  BY <1>1, InductiveInvariant, PTL
=============================================================================
