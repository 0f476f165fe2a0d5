----------------------- MODULE NvChannels_refinement -----------------------
(***************************************************************************)
(* The proof that NvChannels implements FifoChannels: the first state maps *)
(* to a first state, chan, the start of a send, the store to the tail, the *)
(* store to the head and the return of a recv map to the five abstract     *)
(* operations, and every other step to a stutter.                          *)
(***************************************************************************)
EXTENDS NvChannels_proofs

LEMMA InitAbstract == Init => Abstract!Init
<1> SUFFICES ASSUME Init PROVE Abstract!Init
  OBVIOUS
<1>1. {c \in Chan : live[c]} = {}
  BY DEF Init
<1>2. \A c \in Chan : Queue(c) = <<>>
  BY DEF Init, Queue
<1>3. \A t \in Thread : Outbox(t) = NoMessage /\ Inbox(t) = NoMessage
  BY DEF Init, Outbox, Inbox, Sending, Receiving
<1>4. QED
  BY <1>1, <1>2, <1>3 DEF Abstract!Init

-----------------------------------------------------------------------------
(* What a step leaves alone.                                               *)

\* A message in flight is named by its channel, so it is never NoMessage.
LEMMA InFlightIsMessage ==
  ASSUME TypeOK, NEW t \in Thread, slot[t] \in Chan
  PROVE  InFlight(t) # NoMessage
<1>1. InFlight(t).chan # NoMessage.chan
  BY DEF InFlight, NoMessage, NoSlot, Chan
<1>2. QED
  BY <1>1

\* Nodes that keep their value leave the queue as it is.
LEMMA QueueFrame ==
  ASSUME TypeOK, NEW c \in Chan, fifo'[c] = fifo[c],
         \A m \in Listed(c) : val'[m] = val[m]
  PROVE  Queue(c)' = Queue(c)
<1>1. DOMAIN fifo[c] = 1 .. Len(fifo[c])
  BY DEF TypeOK
<1>2. \A n \in 1 .. Len(fifo[c]) : val'[fifo[c][n]] = val[fifo[c][n]]
  BY <1>1 DEF Listed
<1>3. QED
  BY <1>2 DEF Queue

\* A step that changes no channel, queue or value, and starts or ends no
\* message's flight, is a stutter.
LEMMA Stutter ==
  ASSUME UNCHANGED <<live, fifo, val>>,
         \A u \in Thread : /\ Sending(u)' = Sending(u) /\ Receiving(u)' = Receiving(u)
                           /\ Sending(u) \/ Receiving(u) =>
                                slot'[u] = slot[u] /\ msg'[u] = msg[u]
  PROVE  UNCHANGED Abstract!vars
<1>1. \A c \in Chan : Queue(c)' = Queue(c)
  BY DEF Queue
<1>2. \A u \in Thread : Outbox(u)' = Outbox(u) /\ Inbox(u)' = Inbox(u)
  BY DEF Outbox, Inbox, InFlight
<1>3. QED
  BY <1>1, <1>2 DEF Abstract!vars

LEMMA CreateStutters ==
  ASSUME IInv, NEW t \in Thread, NEW r \in Reg, NEW v \in Value, Create(t, r, v)
  PROVE  UNCHANGED Abstract!vars
BY Stutter DEF Create, chanVars, nodeVars, threadVars, Sending, Receiving

LEMMA DropStutters ==
  ASSUME IInv, NEW t \in Thread, NEW r \in Reg, Drop(t, r)
  PROVE  UNCHANGED Abstract!vars
BY Stutter DEF Drop, chanVars, nodeVars, threadVars, Sending, Receiving

LEMMA SendStutters ==
  ASSUME IInv, NEW t \in Thread,
         SendLock(t) \/ SendLink(t) \/ SendSignal(t) \/ SendUnlock(t)
  PROVE  UNCHANGED Abstract!vars
<1> USE DEF IInv, TypeOK, Goto, chanVars, nodeVars, valueVars, Sending, Receiving
<1>1. CASE SendLock(t)
  BY <1>1, Stutter DEF SendLock
<1>2. CASE SendLink(t)
  BY <1>2, Stutter DEF SendLink
<1>3. CASE SendSignal(t)
  BY <1>3, Stutter DEF SendSignal
<1>4. CASE SendUnlock(t)
  BY <1>4, Stutter DEF SendUnlock
<1>5. QED
  BY <1>1, <1>2, <1>3, <1>4

LEMMA RecvStutters ==
  ASSUME IInv, NEW t \in Thread,
         \/ \E c \in Chan : RecvBegin(t, c)
         \/ RecvLock(t) \/ RecvSleep(t) \/ SpuriousWakeup(t) \/ RecvWake(t)
         \/ RecvTake(t) \/ RecvTail(t) \/ RecvUnlock(t)
  PROVE  UNCHANGED Abstract!vars
<1> USE DEF IInv, TypeOK, Goto, chanVars, nodeVars, valueVars, threadVars, Sending, Receiving
<1>1. ASSUME NEW c \in Chan, RecvBegin(t, c) PROVE UNCHANGED Abstract!vars
  BY <1>1, Stutter DEF RecvBegin
<1>2. CASE RecvLock(t)
  BY <1>2, Stutter DEF RecvLock
<1>3. CASE RecvSleep(t)
  BY <1>3, Stutter DEF RecvSleep
<1>4. CASE SpuriousWakeup(t)
  BY <1>4, Stutter DEF SpuriousWakeup
<1>5. CASE RecvWake(t)
  BY <1>5, Stutter DEF RecvWake
<1>6. CASE RecvTake(t)
  BY <1>6, Stutter DEF RecvTake
<1>7. CASE RecvTail(t)
  BY <1>7, Stutter DEF RecvTail
<1>8. CASE RecvUnlock(t)
  BY <1>8, Stutter DEF RecvUnlock
<1>9. QED
  BY <1>1, <1>2, <1>3, <1>4, <1>5, <1>6, <1>7, <1>8

-----------------------------------------------------------------------------
(* The steps that take effect.                                             *)

\* A thread with a node in its hands works on a channel.
LEMMA CallHasChannel ==
  ASSUME IInv, NEW t \in Thread, pc[t] # "idle"
  PROVE  slot[t] \in Chan
BY DEF IInv, TypeOK, LocalInv

LEMMA NewOpens ==
  ASSUME IInv, NEW t \in Thread, NEW c \in Chan, New(t, c)
  PROVE  Abstract!Open(c)
<1> USE DEF New, nodeVars, threadVars
<1>1. \A d \in Chan : Queue(d)' = Queue(d)
  BY DEF Queue
<1>2. \A u \in Thread : Outbox(u)' = Outbox(u) /\ Inbox(u)' = Inbox(u)
  BY DEF Outbox, Inbox, InFlight, Sending, Receiving
<1>3. {d \in Chan : live'[d]} = {d \in Chan : live[d]} \cup {c}
  BY DEF IInv, TypeOK
<1>4. QED
  BY <1>1, <1>2, <1>3 DEF Abstract!Open

LEMMA SendBeginOffers ==
  ASSUME IInv, NEW t \in Thread, NEW c \in Chan, NEW r \in Reg, NEW m \in Cell,
         SendBegin(t, c, r, m)
  PROVE  \E v \in Value : Abstract!Offer(t, c, v)
<1> USE DEF SendBegin, Goto, chanVars
<1> DEFINE v == reg[t][r]
<1>1. v \in Value /\ m \notin heap
  BY DEF IInv, TypeOK
<1>2. \A x \in Cell : x # m => val'[x] = val[x]
  BY DEF IInv, TypeOK
<1>3. ASSUME NEW d \in Chan PROVE Queue(d)' = Queue(d)
  <2>1. \A x \in Listed(d) : x \in Cell /\ x # m
    BY <1>1 DEF IInv, NodesAccounted, TypeOK
  <2>2. QED
    BY <1>2, <2>1, QueueFrame DEF IInv
<1>4. ASSUME NEW u \in Thread, u # t
      PROVE  Outbox(u)' = Outbox(u) /\ Inbox(u)' = Inbox(u)
  <2>1. pc'[u] = pc[u] /\ slot'[u] = slot[u] /\ msg'[u] = msg[u]
    BY <1>4 DEF IInv, TypeOK
  <2>2. InHand(u) => msg[u] \in Cell /\ msg[u] # m
    BY <1>1 DEF IInv, NodesAccounted, TypeOK
  <2>3. Sending(u) \/ Receiving(u) => InHand(u)
    BY DEF Sending, Receiving, InHand
  <2>4. InHand(u) => InFlight(u)' = InFlight(u)
    BY <1>2, <2>1, <2>2 DEF InFlight
  <2>5. QED
    BY <2>1, <2>3, <2>4 DEF Outbox, Inbox, Sending, Receiving
<1>5. Outbox(t) = NoMessage /\ Inbox(t) = NoMessage /\ Inbox(t)' = NoMessage
  BY DEF Outbox, Inbox, Sending, Receiving, IInv, TypeOK
<1>6. Outbox(t)' = [chan |-> c, value |-> v]
  BY DEF Outbox, InFlight, Sending, IInv, TypeOK
<1> HIDE DEF v
<1>7. [u \in Thread |-> Outbox(u)'] =
        [[u \in Thread |-> Outbox(u)] EXCEPT ![t] = [chan |-> c, value |-> v]]
  BY <1>4, <1>6
<1>8. [u \in Thread |-> Inbox(u)'] = [u \in Thread |-> Inbox(u)]
  BY <1>4, <1>5
<1>9. Abstract!Offer(t, c, v)
  BY <1>3, <1>5, <1>7, <1>8 DEF Abstract!Offer
<1>10. QED
  BY <1>1, <1>9

LEMMA SendTailEnqueues ==
  ASSUME IInv, NEW t \in Thread, SendTail(t)
  PROVE  Abstract!Enqueue(t)
<1> USE DEF SendTail, Goto, nodeVars
<1>1. PICK c \in Chan : slot[t] = c
  BY CallHasChannel
<1>2. PICK m \in Cell : msg[t] = m
  BY DEF IInv, NodesAccounted, InHand, TypeOK
<1>3. Outbox(t) = [chan |-> c, value |-> val[m]] /\ Outbox(t) # NoMessage
  BY <1>1, <1>2, InFlightIsMessage DEF Outbox, InFlight, Sending, IInv
<1>4. Outbox(t)' = NoMessage /\ Inbox(t)' = NoMessage /\ Inbox(t) = NoMessage
  BY DEF Outbox, Inbox, Sending, Receiving, IInv, TypeOK
<1>5. ASSUME NEW u \in Thread, u # t
      PROVE  Outbox(u)' = Outbox(u) /\ Inbox(u)' = Inbox(u)
  BY <1>5 DEF Outbox, Inbox, InFlight, Sending, Receiving, IInv, TypeOK
<1>6. ASSUME NEW d \in Chan, d # c PROVE Queue(d)' = Queue(d)
  BY <1>1, <1>6 DEF Queue, IInv, TypeOK
<1>7. Queue(c)' = Append(Queue(c), val[m])
  <2>1. fifo'[c] = Append(fifo[c], m) /\ fifo[c] \in Seq(Cell)
    BY <1>1, <1>2 DEF IInv, TypeOK
  <2> DEFINE q == fifo[c]
  <2>2. Len(Append(q, m)) = Len(q) + 1 /\ Len(q) \in Nat
    BY <2>1
  <2>3. \A n \in 1 .. Len(q) + 1 : Append(q, m)[n] = IF n = Len(q) + 1 THEN m ELSE q[n]
    BY <2>1
  <2> HIDE DEF q
  <2>4. Queue(c)' = [n \in 1 .. Len(q) + 1 |-> IF n = Len(q) + 1 THEN val[m] ELSE val[q[n]]]
    BY <2>1, <2>2, <2>3 DEF Queue, q
  <2>5. Queue(c) = [n \in 1 .. Len(q) |-> val[q[n]]]
    BY DEF Queue, q
  <2>6. Len(Queue(c)) = Len(q)
    BY <2>2, <2>5
  <2>7. QED
    BY <2>2, <2>4, <2>5, <2>6
<1>8. [u \in Thread |-> Outbox(u)'] = [[u \in Thread |-> Outbox(u)] EXCEPT ![t] = NoMessage]
  BY <1>4, <1>5
<1>9. [u \in Thread |-> Inbox(u)'] = [u \in Thread |-> Inbox(u)]
  BY <1>4, <1>5
<1>10. [d \in Chan |-> Queue(d)'] =
         [[d \in Chan |-> Queue(d)] EXCEPT ![c] = Append(Queue(c), val[m])]
  BY <1>6, <1>7
<1>11. [u \in Thread |-> Outbox(u)][t] = [chan |-> c, value |-> val[m]]
  BY <1>3
<1>12. [d \in Chan |-> Queue(d)][c] = Queue(c) /\ live' = live
  OBVIOUS
<1> DEFINE outbox == [u \in Thread |-> Outbox(u)]
           queue == [d \in Chan |-> Queue(d)]
<1>13. outbox[t].chan = c /\ outbox[t].value = val[m] /\ outbox[t] # NoMessage
  BY <1>3, <1>11
<1>14. [d \in Chan |-> Queue(d)'] =
         [queue EXCEPT ![outbox[t].chan] = Append(@, outbox[t].value)]
  <2> HIDE DEF outbox
  <2>1. QED
    BY <1>10, <1>12, <1>13
<1>15. QED
  BY <1>8, <1>9, <1>12, <1>13, <1>14 DEF Abstract!Enqueue

LEMMA RecvHeadDequeues ==
  ASSUME IInv, NEW t \in Thread, RecvHead(t)
  PROVE  \E c \in Chan : Abstract!Dequeue(t, c)
<1> USE DEF RecvHead, Goto, nodeVars
<1>1. PICK c \in Chan : slot[t] = c
  BY CallHasChannel
<1>2. PICK m \in Cell : msg[t] = m /\ head[c] = m
  BY <1>1, ChannelsAssumption DEF IInv, LocalInv, TypeOK
<1>3. fifo[c] # <<>> /\ fifo[c][1] = m
  <2>1. lock[c] = t
    BY <1>1 DEF IInv, LocalInv, Critical
  <2>2. Arriving(c) = NoCell
    BY <2>1 DEF Arriving
  <2>3. head[c] = IF fifo[c] = <<>> THEN Arriving(c) ELSE fifo[c][1]
    BY DEF IInv, PointersMatchFifo, QueueInPointers
  <2>4. QED
    BY <1>2, <2>2, <2>3, ChannelsAssumption
<1> DEFINE q == fifo[c]
<1>4. q \in Seq(Cell) /\ Len(q) \in Nat /\ Len(q) > 0
  BY <1>3 DEF IInv, TypeOK
<1>5. Queue(c) = [n \in 1 .. Len(q) |-> val[q[n]]]
  BY DEF Queue
<1>6. Len(Queue(c)) = Len(q) /\ Queue(c) # <<>> /\ Head(Queue(c)) = val[m]
  <2> HIDE DEF q
  <2>1. Len(Queue(c)) = Len(q) /\ Queue(c)[1] = val[q[1]]
    BY <1>4, <1>5
  <2>2. QED
    BY <1>3, <1>4, <2>1 DEF q
<1>7. Queue(c)' = Tail(Queue(c))
  <2>1. fifo'[c] = Tail(q)
    BY <1>1 DEF IInv, TypeOK
  <2> HIDE DEF q
  <2>2. Len(Tail(q)) = Len(q) - 1 /\ \A n \in 1 .. Len(q) - 1 : Tail(q)[n] = q[n + 1]
    BY <1>4
  <2>3. Queue(c)' = [n \in 1 .. Len(q) - 1 |-> val[q[n + 1]]]
    BY <2>1, <2>2, SMTT(60) DEF Queue
  <2>4. QED
    BY <1>4, <1>5, <1>6, <2>3
<1>8. ASSUME NEW d \in Chan, d # c PROVE Queue(d)' = Queue(d)
  BY <1>1, <1>8 DEF Queue, IInv, TypeOK
<1>9. ASSUME NEW u \in Thread, u # t
      PROVE  Outbox(u)' = Outbox(u) /\ Inbox(u)' = Inbox(u)
  BY <1>9 DEF Outbox, Inbox, InFlight, Sending, Receiving, IInv, TypeOK
<1>10. Outbox(t) = NoMessage /\ Outbox(t)' = NoMessage /\ Inbox(t) = NoMessage
  BY DEF Outbox, Inbox, Sending, Receiving, IInv, TypeOK
<1>11. Inbox(t)' = [chan |-> c, value |-> val[m]]
  BY <1>1, <1>2 DEF Inbox, InFlight, Receiving, IInv, TypeOK
<1> HIDE DEF q
<1>12. [u \in Thread |-> Outbox(u)'] = [u \in Thread |-> Outbox(u)]
  BY <1>9, <1>10
<1>13. [u \in Thread |-> Inbox(u)'] =
         [[u \in Thread |-> Inbox(u)] EXCEPT ![t] = [chan |-> c, value |-> val[m]]]
  BY <1>9, <1>11
<1>14. [d \in Chan |-> Queue(d)'] =
         [[d \in Chan |-> Queue(d)] EXCEPT ![c] = Tail(Queue(c))]
  BY <1>7, <1>8
<1>15. [d \in Chan |-> Queue(d)][c] = Queue(c) /\ live' = live
  OBVIOUS
<1>16. Abstract!Dequeue(t, c)
  BY <1>6, <1>10, <1>12, <1>13, <1>14, <1>15, ZenonT(60) DEF Abstract!Dequeue
<1>17. QED
  BY <1>16

LEMMA RecvFreeReturns ==
  ASSUME IInv, NEW t \in Thread, NEW r \in Reg, RecvFree(t, r)
  PROVE  Abstract!Return(t)
<1> USE DEF RecvFree, Goto, chanVars
<1>1. PICK m \in Cell : msg[t] = m
  BY DEF IInv, NodesAccounted, InHand, TypeOK
<1>2. \A x \in Cell : x # m => val'[x] = val[x]
  BY <1>1 DEF IInv, TypeOK
<1>3. InHand(t)
  BY DEF InHand
<1>4. ASSUME NEW d \in Chan PROVE Queue(d)' = Queue(d)
  <2>1. \A x \in Listed(d) : x \in Cell /\ x # m
    BY <1>1, <1>3 DEF IInv, NodesAccounted, TypeOK
  <2>2. QED
    BY <1>2, <2>1, QueueFrame DEF IInv
<1>5. ASSUME NEW u \in Thread, u # t
      PROVE  Outbox(u)' = Outbox(u) /\ Inbox(u)' = Inbox(u)
  <2>1. pc'[u] = pc[u] /\ slot'[u] = slot[u] /\ msg'[u] = msg[u]
    BY <1>5 DEF IInv, TypeOK
  <2>2. InHand(u) => msg[u] \in Cell /\ msg[u] # m
    BY <1>1, <1>3, <1>5 DEF IInv, NodesAccounted, TypeOK
  <2>3. Sending(u) \/ Receiving(u) => InHand(u)
    BY DEF Sending, Receiving, InHand
  <2>4. InHand(u) => InFlight(u)' = InFlight(u)
    BY <1>2, <2>1, <2>2 DEF InFlight
  <2>5. QED
    BY <2>1, <2>3, <2>4 DEF Outbox, Inbox, Sending, Receiving
<1>6. Inbox(t) # NoMessage
  BY CallHasChannel, InFlightIsMessage DEF Inbox, Receiving, IInv
<1>7. Outbox(t) = NoMessage /\ Outbox(t)' = NoMessage /\ Inbox(t)' = NoMessage
  BY DEF Outbox, Inbox, Sending, Receiving, IInv, TypeOK
<1>8. [u \in Thread |-> Outbox(u)'] = [u \in Thread |-> Outbox(u)]
  BY <1>5, <1>7
<1>9. [u \in Thread |-> Inbox(u)'] = [[u \in Thread |-> Inbox(u)] EXCEPT ![t] = NoMessage]
  BY <1>5, <1>7
<1>10. [d \in Chan |-> Queue(d)'] = [d \in Chan |-> Queue(d)] /\ live' = live
  BY <1>4
<1>11. QED
  BY <1>6, <1>8, <1>9, <1>10 DEF Abstract!Return

-----------------------------------------------------------------------------

LEMMA StepAbstract == IInv /\ [Next]_vars => [Abstract!Next]_(Abstract!vars)
<1> SUFFICES ASSUME IInv, [Next]_vars PROVE [Abstract!Next]_(Abstract!vars)
  OBVIOUS
<1>1. CASE UNCHANGED vars
  BY <1>1, Stutter
     DEF vars, chanVars, nodeVars, threadVars, valueVars, Sending, Receiving
<1>2. ASSUME NEW t \in Thread, NEW r \in Reg, NEW v \in Value, Create(t, r, v)
      PROVE  UNCHANGED Abstract!vars
  BY <1>2, CreateStutters
<1>3. ASSUME NEW t \in Thread, NEW r \in Reg, Drop(t, r) PROVE UNCHANGED Abstract!vars
  BY <1>3, DropStutters
<1>4. ASSUME NEW t \in Thread, NEW c \in Chan, New(t, c) PROVE Abstract!Next
  BY <1>4, NewOpens DEF Abstract!Next
<1>5. ASSUME NEW t \in Thread, NEW c \in Chan, NEW r \in Reg, NEW m \in Cell,
             SendBegin(t, c, r, m)
      PROVE  Abstract!Next
  BY <1>5, SendBeginOffers DEF Abstract!Next
<1>6. ASSUME NEW t \in Thread, SendTail(t) PROVE Abstract!Next
  BY <1>6, SendTailEnqueues DEF Abstract!Next
<1>7. ASSUME NEW t \in Thread, RecvHead(t) PROVE Abstract!Next
  BY <1>7, RecvHeadDequeues DEF Abstract!Next
<1>8. ASSUME NEW t \in Thread, NEW r \in Reg, RecvFree(t, r) PROVE Abstract!Next
  BY <1>8, RecvFreeReturns DEF Abstract!Next
<1>9. QED
  BY <1>1, <1>2, <1>3, <1>4, <1>5, <1>6, <1>7, <1>8, SendStutters, RecvStutters
     DEF Next, Continue

\* Every behaviour of the runtime's channels, seen as open channels, queues of
\* values and messages in hand, is one of FifoChannels: messages leave a channel
\* in the order they were queued, each in the hands of one receiver, however
\* nv_channel_send and nv_channel_recv interleave.
THEOREM Refinement == Spec => ImplementsFifo
<1>1. IInv /\ [Next]_vars => [Abstract!Next]_(Abstract!vars)
  BY StepAbstract
<1>2. QED
  BY <1>1, InitAbstract, InductiveInvariant, PTL DEF Spec, ImplementsFifo, Abstract!Spec
=============================================================================
