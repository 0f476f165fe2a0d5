---------------------------- MODULE NvChannels ----------------------------
(***************************************************************************)
(* The channels of the Narval runtime: nv_channel_new, nv_channel_send and *)
(* nv_channel_recv of src/backend/runtime/nir_bridge.c, called by any      *)
(* number of threads, together with the atomic reference counts            *)
(* (nv_arc_inc / nv_arc_dec) of the values that travel.                    *)
(*                                                                         *)
(* A channel is a slot of a fixed table with a mutex, a condition variable *)
(* and a singly linked list with a head and a tail pointer.  One step of   *)
(* the model is one access to state another thread can see: taking the     *)
(* mutex, writing one pointer, signalling, releasing, testing the head...  *)
(* so nothing but the mutex keeps two threads out of a half-written list.  *)
(* fifo is a history variable: the nodes in the order they were sent.      *)
(***************************************************************************)
EXTENDS Integers, Sequences, FiniteSets

CONSTANTS
  Thread,        \* pthreads that run Narval code
  Reg,           \* the variables of one thread that may own a value
  Value,         \* the heap objects that are sent (addresses, reusable)
  Cell,          \* the NvChanMsg nodes malloc can return (addresses)
  MaxChannels,   \* NV_MAX_CHANNELS
  NoThread,      \* an unlocked mutex
  NoCell,        \* the NULL node
  NoValue        \* an empty variable

ASSUME ChannelsAssumption ==
  /\ MaxChannels \in Nat \ {0}
  /\ IsFiniteSet(Thread) /\ IsFiniteSet(Reg) /\ IsFiniteSet(Cell)
  /\ NoThread \notin Thread
  /\ NoCell \notin Cell
  /\ NoValue \notin Value

Chan == 0 .. MaxChannels - 1
NoSlot == -1

VARIABLES
  live,      \* g_channels[c].live
  lock,      \* the holder of g_channels[c].lock
  waiting,   \* the threads asleep on g_channels[c].not_empty
  head,      \* g_channels[c].head
  tail,      \* g_channels[c].tail
  heap,      \* the nodes malloc has handed out and free has not taken back
  next,      \* msg->next
  val,       \* msg->value
  pc,        \* where each thread is
  slot,      \* the channel a call in progress works on
  msg,       \* the local variable msg of a call in progress
  reg,       \* the values a thread's variables own, one reference each
  rc,        \* ob_base.ref_count of each value; 0 once it is freed
  fifo       \* history: the nodes sent on each channel and not yet received

chanVars == <<live, lock, waiting, head, tail>>
nodeVars == <<heap, next, val>>
threadVars == <<pc, slot, msg>>
valueVars == <<reg, rc>>
vars == <<chanVars, nodeVars, threadVars, valueVars, fifo>>

SendPC == {"s_lock", "s_link", "s_tail", "s_signal", "s_unlock"}
RecvPC == {"r_lock", "r_test", "r_wait", "r_head", "r_tail", "r_unlock", "r_free"}
PC == {"idle"} \cup SendPC \cup RecvPC

TypeOK ==
  /\ live \in [Chan -> BOOLEAN]
  /\ lock \in [Chan -> Thread \cup {NoThread}]
  /\ waiting \in [Chan -> SUBSET Thread]
  /\ head \in [Chan -> Cell \cup {NoCell}]
  /\ tail \in [Chan -> Cell \cup {NoCell}]
  /\ heap \subseteq Cell
  /\ next \in [Cell -> Cell \cup {NoCell}]
  /\ val \in [Cell -> Value \cup {NoValue}]
  /\ pc \in [Thread -> PC]
  /\ slot \in [Thread -> Chan \cup {NoSlot}]
  /\ msg \in [Thread -> Cell \cup {NoCell}]
  /\ reg \in [Thread -> [Reg -> Value \cup {NoValue}]]
  /\ rc \in [Value -> Nat]
  /\ fifo \in [Chan -> Seq(Cell)]

Init ==
  /\ live = [c \in Chan |-> FALSE]
  /\ lock = [c \in Chan |-> NoThread]
  /\ waiting = [c \in Chan |-> {}]
  /\ head = [c \in Chan |-> NoCell]
  /\ tail = [c \in Chan |-> NoCell]
  /\ heap = {}
  /\ next = [m \in Cell |-> NoCell]
  /\ val = [m \in Cell |-> NoValue]
  /\ pc = [t \in Thread |-> "idle"]
  /\ slot = [t \in Thread |-> NoSlot]
  /\ msg = [t \in Thread |-> NoCell]
  /\ reg = [t \in Thread |-> [r \in Reg |-> NoValue]]
  /\ rc = [v \in Value |-> 0]
  /\ fifo = [c \in Chan |-> <<>>]

Goto(t, from, to) ==
  /\ pc[t] = from
  /\ pc' = [pc EXCEPT ![t] = to]

Acquire(t, c) ==
  /\ lock[c] = NoThread
  /\ lock' = [lock EXCEPT ![c] = t]

Release(t, c) ==
  /\ lock[c] = t
  /\ lock' = [lock EXCEPT ![c] = NoThread]

-----------------------------------------------------------------------------
(* The program around the calls: a variable is bound to a fresh object     *)
(* (count 1) or dropped (nv_decref, which frees the object at zero).       *)

Create(t, r, v) ==
  /\ pc[t] = "idle"
  /\ reg[t][r] = NoValue
  /\ rc[v] = 0
  /\ reg' = [reg EXCEPT ![t][r] = v]
  /\ rc' = [rc EXCEPT ![v] = 1]
  /\ UNCHANGED <<chanVars, nodeVars, threadVars, fifo>>

Drop(t, r) ==
  /\ pc[t] = "idle"
  /\ reg[t][r] # NoValue
  /\ rc' = [rc EXCEPT ![reg[t][r]] = @ - 1]
  /\ reg' = [reg EXCEPT ![t][r] = NoValue]
  /\ UNCHANGED <<chanVars, nodeVars, threadVars, fifo>>

-----------------------------------------------------------------------------
(* chan(): the first free slot of the table, initialised under             *)
(* g_channels_lock.  A slot is never given back.                           *)

New(t, c) ==
  /\ pc[t] = "idle"
  /\ ~live[c]
  /\ \A d \in Chan : d < c => live[d]
  /\ live' = [live EXCEPT ![c] = TRUE]
  /\ head' = [head EXCEPT ![c] = NoCell]
  /\ tail' = [tail EXCEPT ![c] = NoCell]
  /\ UNCHANGED <<lock, waiting, nodeVars, threadVars, valueVars, fifo>>

-----------------------------------------------------------------------------
(* send(c, v): a dead or bad id and a failed malloc (no free node here)    *)
(* return at once and change nothing.                                      *)

\* Mutant of SendBegin: send forgets nv_incref.
SendBeginNoIncref(t, c, r, m) ==
  /\ Goto(t, "idle", "s_lock")
  /\ live[c]
  /\ reg[t][r] # NoValue
  /\ m \in Cell \ heap
  /\ heap' = heap \cup {m}
  /\ val' = [val EXCEPT ![m] = reg[t][r]]
  /\ next' = [next EXCEPT ![m] = NoCell]
  /\ slot' = [slot EXCEPT ![t] = c]
  /\ msg' = [msg EXCEPT ![t] = m]
  /\ UNCHANGED <<chanVars, reg, rc, fifo>>

SendBegin(t, c, r, m) ==
  /\ Goto(t, "idle", "s_lock")
  /\ live[c]
  /\ reg[t][r] # NoValue
  /\ m \in Cell \ heap
  /\ heap' = heap \cup {m}
  /\ val' = [val EXCEPT ![m] = reg[t][r]]
  /\ next' = [next EXCEPT ![m] = NoCell]
  /\ rc' = [rc EXCEPT ![reg[t][r]] = @ + 1]
  /\ slot' = [slot EXCEPT ![t] = c]
  /\ msg' = [msg EXCEPT ![t] = m]
  /\ UNCHANGED <<chanVars, reg, fifo>>

SendLock(t) ==
  /\ Goto(t, "s_lock", "s_link")
  /\ Acquire(t, slot[t])
  /\ UNCHANGED <<live, waiting, head, tail, nodeVars, slot, msg, valueVars, fifo>>

\* Mutant of SendLink: the new node goes in front of the list.
SendLinkInFront(t) ==
  LET c == slot[t] IN
  /\ Goto(t, "s_link", "s_tail")
  /\ head' = [head EXCEPT ![c] = msg[t]]
  /\ next' = [next EXCEPT ![msg[t]] = head[c]]
  /\ UNCHANGED <<live, lock, waiting, tail, heap, val, slot, msg, valueVars, fifo>>

\* if (c->tail) c->tail->next = msg; else c->head = msg;
SendLink(t) ==
  LET c == slot[t] IN
  /\ Goto(t, "s_link", "s_tail")
  /\ \/ /\ tail[c] # NoCell
        /\ next' = [next EXCEPT ![tail[c]] = msg[t]]
        /\ UNCHANGED head
     \/ /\ tail[c] = NoCell
        /\ head' = [head EXCEPT ![c] = msg[t]]
        /\ UNCHANGED next
  /\ UNCHANGED <<live, lock, waiting, tail, heap, val, slot, msg, valueVars, fifo>>

SendTail(t) ==
  LET c == slot[t] IN
  /\ Goto(t, "s_tail", "s_signal")
  /\ tail' = [tail EXCEPT ![c] = msg[t]]
  /\ fifo' = [fifo EXCEPT ![c] = Append(@, msg[t])]
  /\ msg' = [msg EXCEPT ![t] = NoCell]
  /\ UNCHANGED <<live, lock, waiting, head, nodeVars, slot, valueVars>>

\* Mutant of SendSignal: signals only when the list was empty before the send.
SendSignalIfWasEmpty(t) ==
  LET c == slot[t] IN
  /\ Goto(t, "s_signal", "s_unlock")
  /\ \/ (waiting[c] = {} \/ head[c] # tail[c]) /\ UNCHANGED waiting
     \/ /\ head[c] = tail[c]
        /\ \E w \in waiting[c] : waiting' = [waiting EXCEPT ![c] = @ \ {w}]
  /\ UNCHANGED <<live, lock, head, tail, nodeVars, slot, msg, valueVars, fifo>>

\* pthread_cond_signal wakes one sleeper, if there is one.
SendSignal(t) ==
  LET c == slot[t] IN
  /\ Goto(t, "s_signal", "s_unlock")
  /\ \/ waiting[c] = {} /\ UNCHANGED waiting
     \/ \E w \in waiting[c] : waiting' = [waiting EXCEPT ![c] = @ \ {w}]
  /\ UNCHANGED <<live, lock, head, tail, nodeVars, slot, msg, valueVars, fifo>>

SendUnlock(t) ==
  /\ Goto(t, "s_unlock", "idle")
  /\ Release(t, slot[t])
  /\ slot' = [slot EXCEPT ![t] = NoSlot]
  /\ UNCHANGED <<live, waiting, head, tail, nodeVars, msg, valueVars, fifo>>

-----------------------------------------------------------------------------
(* recv(c): sleeps while the list is empty and hands over the reference    *)
(* the channel was holding.                                                *)

RecvBegin(t, c) ==
  /\ Goto(t, "idle", "r_lock")
  /\ live[c]
  /\ \E r \in Reg : reg[t][r] = NoValue
  /\ slot' = [slot EXCEPT ![t] = c]
  /\ UNCHANGED <<chanVars, nodeVars, msg, valueVars, fifo>>

RecvLock(t) ==
  /\ Goto(t, "r_lock", "r_test")
  /\ Acquire(t, slot[t])
  /\ UNCHANGED <<live, waiting, head, tail, nodeVars, slot, msg, valueVars, fifo>>

\* pthread_cond_wait: falls asleep and releases the mutex in one step.
RecvSleep(t) ==
  LET c == slot[t] IN
  /\ Goto(t, "r_test", "r_wait")
  /\ head[c] = NoCell
  /\ Release(t, c)
  /\ waiting' = [waiting EXCEPT ![c] = @ \cup {t}]
  /\ UNCHANGED <<live, head, tail, nodeVars, slot, msg, valueVars, fifo>>

\* pthread_cond_wait may also return without a signal.
SpuriousWakeup(t) ==
  /\ pc[t] = "r_wait"
  /\ t \in waiting[slot[t]]
  /\ waiting' = [waiting EXCEPT ![slot[t]] = @ \ {t}]
  /\ UNCHANGED <<live, lock, head, tail, nodeVars, threadVars, valueVars, fifo>>

\* A thread that is awake takes the mutex again before it looks at the list.
RecvWake(t) ==
  /\ Goto(t, "r_wait", "r_test")
  /\ t \notin waiting[slot[t]]
  /\ Acquire(t, slot[t])
  /\ UNCHANGED <<live, waiting, head, tail, nodeVars, slot, msg, valueVars, fifo>>

RecvTake(t) ==
  /\ Goto(t, "r_test", "r_head")
  /\ head[slot[t]] # NoCell
  /\ msg' = [msg EXCEPT ![t] = head[slot[t]]]
  /\ UNCHANGED <<chanVars, nodeVars, slot, valueVars, fifo>>

RecvHead(t) ==
  LET c == slot[t] IN
  /\ Goto(t, "r_head", "r_tail")
  /\ head' = [head EXCEPT ![c] = next[msg[t]]]
  /\ fifo' = [fifo EXCEPT ![c] = Tail(@)]
  /\ UNCHANGED <<live, lock, waiting, tail, nodeVars, slot, msg, valueVars>>

\* Mutant of RecvTail: the tail is left behind when the list becomes empty.
RecvTailForgotten(t) ==
  /\ Goto(t, "r_tail", "r_unlock")
  /\ UNCHANGED <<chanVars, nodeVars, slot, msg, valueVars, fifo>>

\* if (!c->head) c->tail = NULL;
RecvTail(t) ==
  LET c == slot[t] IN
  /\ Goto(t, "r_tail", "r_unlock")
  /\ tail' = IF head[c] = NoCell THEN [tail EXCEPT ![c] = NoCell] ELSE tail
  /\ UNCHANGED <<live, lock, waiting, head, nodeVars, slot, msg, valueVars, fifo>>

RecvUnlock(t) ==
  /\ Goto(t, "r_unlock", "r_free")
  /\ Release(t, slot[t])
  /\ UNCHANGED <<live, waiting, head, tail, nodeVars, slot, msg, valueVars, fifo>>

\* Mutant of RecvFree: the node is not freed.
RecvFreeForgotten(t, r) ==
  /\ Goto(t, "r_free", "idle")
  /\ reg[t][r] = NoValue
  /\ reg' = [reg EXCEPT ![t][r] = val[msg[t]]]
  /\ slot' = [slot EXCEPT ![t] = NoSlot]
  /\ msg' = [msg EXCEPT ![t] = NoCell]
  /\ UNCHANGED <<chanVars, nodeVars, rc, fifo>>

\* free(msg) and the return: the caller's variable r takes the reference.
RecvFree(t, r) ==
  /\ Goto(t, "r_free", "idle")
  /\ reg[t][r] = NoValue
  /\ reg' = [reg EXCEPT ![t][r] = val[msg[t]]]
  /\ heap' = heap \ {msg[t]}
  /\ next' = [next EXCEPT ![msg[t]] = NoCell]
  /\ val' = [val EXCEPT ![msg[t]] = NoValue]
  /\ slot' = [slot EXCEPT ![t] = NoSlot]
  /\ msg' = [msg EXCEPT ![t] = NoCell]
  /\ UNCHANGED <<chanVars, rc, fifo>>

-----------------------------------------------------------------------------

\* The steps of a call in progress: what the scheduler owes every thread.
Continue(t) ==
  \/ SendLock(t) \/ SendLink(t) \/ SendTail(t) \/ SendSignal(t) \/ SendUnlock(t)
  \/ RecvLock(t) \/ RecvSleep(t) \/ RecvWake(t)
  \/ RecvTake(t) \/ RecvHead(t) \/ RecvTail(t) \/ RecvUnlock(t)
  \/ \E r \in Reg : RecvFree(t, r)

Next ==
  \E t \in Thread :
    \/ \E r \in Reg, v \in Value : Create(t, r, v)
    \/ \E r \in Reg : Drop(t, r)
    \/ \E c \in Chan : New(t, c)
    \/ \E c \in Chan, r \in Reg, m \in Cell : SendBegin(t, c, r, m)
    \/ \E c \in Chan : RecvBegin(t, c)
    \/ SpuriousWakeup(t)
    \/ Continue(t)

Spec == Init /\ [][Next]_vars

FairSpec == Spec /\ \A t \in Thread : WF_vars(Continue(t))

-----------------------------------------------------------------------------
(* Safety.                                                                 *)

\* The variables that own a reference to v, and the nodes, queued or in a
\* thread's hands, that carry one.
Owners(v) == {x \in Thread \X Reg : reg[x[1]][x[2]] = v}
Carriers(v) == {m \in heap : val[m] = v}

\* Every count is exact, whatever the threads are doing: send takes one
\* reference, recv hands over that one, so no object is freed while a message
\* or a variable still points at it and none outlives its last reference.
RefCountExact ==
  \A v \in Value : rc[v] = Cardinality(Owners(v)) + Cardinality(Carriers(v))

\* The threads that have a node of their own: one not yet in a list, or one
\* already taken off its list.
InHand(t) == pc[t] \in {"s_lock", "s_link", "s_tail", "r_tail", "r_unlock", "r_free"}

Listed(c) == {fifo[c][n] : n \in DOMAIN fifo[c]}

\* Every node malloc handed out is in exactly one place, once in one list or
\* in the hands of one thread, and no list holds a node that was freed: the
\* ground for "every message is received exactly once".
NodesAccounted ==
  /\ \A t \in Thread : InHand(t) =>
       /\ msg[t] \in heap
       /\ \A u \in Thread : InHand(u) /\ msg[u] = msg[t] => u = t
       /\ \A c \in Chan : msg[t] \notin Listed(c)
  /\ \A c, d \in Chan : \A i \in DOMAIN fifo[c], j \in DOMAIN fifo[d] :
       fifo[c][i] = fifo[d][j] => c = d /\ i = j
  /\ \A m \in heap :
       \/ \E t \in Thread : InHand(t) /\ msg[t] = m
       \/ \E c \in Chan : m \in Listed(c)
  /\ \A c \in Chan : Listed(c) \subseteq heap

\* The node that the thread inside channel c's critical section has written
\* into the list but not yet made its tail, and the one that a receiver has
\* taken off the head but not yet cleared from the tail.
Arriving(c) ==
  IF lock[c] # NoThread /\ pc[lock[c]] = "s_tail" THEN msg[lock[c]] ELSE NoCell
Departing(c) ==
  IF lock[c] # NoThread /\ pc[lock[c]] = "r_tail" THEN msg[lock[c]] ELSE NoCell

QueueInPointers(c) ==
  LET q == fifo[c] IN
  /\ head[c] = IF q = <<>> THEN Arriving(c) ELSE q[1]
  /\ tail[c] = IF q = <<>> THEN Departing(c) ELSE q[Len(q)]
  /\ \A n \in DOMAIN q : next[q[n]] = IF n = Len(q) THEN Arriving(c) ELSE q[n + 1]

\* The pointers describe the queue of messages at every moment, up to the one
\* node the holder of the mutex is moving.
PointersMatchFifo == \A c \in Chan : QueueInPointers(c)

-----------------------------------------------------------------------------
(* The channels implement FifoChannels: a send takes effect when its node  *)
(* becomes the tail, a receive when the head moves past its node.          *)

NoMessage == [chan |-> NoSlot, value |-> NoValue]

InFlight(t) == [chan |-> slot[t], value |-> val[msg[t]]]
Sending(t) == pc[t] \in {"s_lock", "s_link", "s_tail"}
Receiving(t) == pc[t] \in {"r_tail", "r_unlock", "r_free"}

Queue(c) == [n \in 1 .. Len(fifo[c]) |-> val[fifo[c][n]]]
Outbox(t) == IF Sending(t) THEN InFlight(t) ELSE NoMessage
Inbox(t) == IF Receiving(t) THEN InFlight(t) ELSE NoMessage

Abstract == INSTANCE FifoChannels WITH
  open   <- {c \in Chan : live[c]},
  queue  <- [c \in Chan |-> Queue(c)],
  outbox <- [t \in Thread |-> Outbox(t)],
  inbox  <- [t \in Thread |-> Inbox(t)]

\* "A channel is an unbounded FIFO ... every message is received exactly
\* once, whatever order the threads finish in" (nir_bridge.c).
ImplementsFifo == Abstract!Spec

-----------------------------------------------------------------------------
(* Liveness.                                                               *)

\* No wakeup is lost: a channel does not stay non-empty for ever while a
\* receiver sleeps on it, although a send signals only one sleeper and another
\* receiver may take the message first.
NoLostWakeup ==
  \A c \in Chan :
    (head[c] # NoCell /\ waiting[c] # {}) ~> (head[c] = NoCell \/ waiting[c] = {})
=============================================================================
