--------------------------- MODULE FifoChannels ---------------------------
(***************************************************************************)
(* What the channels of the Narval runtime promise, with no lock, no       *)
(* condition variable and no linked list: every open channel is a FIFO of  *)
(* values; a send that has been accepted is appended once, and a message   *)
(* leaves the channel in the hands of exactly one receiver.                *)
(***************************************************************************)
EXTENDS Integers, Sequences

CONSTANTS
  Thread,     \* the threads of the program
  Chan,       \* the channel ids
  Value,      \* the objects that travel
  NoMessage   \* "no message in hand"

VARIABLES
  open,       \* the channels that chan() has handed out
  queue,      \* the messages of each channel, oldest first
  outbox,     \* the message a thread has offered to a channel, not yet queued
  inbox       \* the message a thread has been given, not yet returned to it

vars == <<open, queue, outbox, inbox>>

Message == [chan: Chan, value: Value]

Init ==
  /\ open = {}
  /\ queue = [c \in Chan |-> <<>>]
  /\ outbox = [t \in Thread |-> NoMessage]
  /\ inbox = [t \in Thread |-> NoMessage]

Open(c) ==
  /\ c \notin open
  /\ open' = open \cup {c}
  /\ UNCHANGED <<queue, outbox, inbox>>

Offer(t, c, v) ==
  /\ c \in open
  /\ outbox[t] = NoMessage
  /\ inbox[t] = NoMessage
  /\ outbox' = [outbox EXCEPT ![t] = [chan |-> c, value |-> v]]
  /\ UNCHANGED <<open, queue, inbox>>

Enqueue(t) ==
  /\ outbox[t] # NoMessage
  /\ queue' = [queue EXCEPT ![outbox[t].chan] = Append(@, outbox[t].value)]
  /\ outbox' = [outbox EXCEPT ![t] = NoMessage]
  /\ UNCHANGED <<open, inbox>>

Dequeue(t, c) ==
  /\ outbox[t] = NoMessage
  /\ inbox[t] = NoMessage
  /\ queue[c] # <<>>
  /\ inbox' = [inbox EXCEPT ![t] = [chan |-> c, value |-> Head(queue[c])]]
  /\ queue' = [queue EXCEPT ![c] = Tail(@)]
  /\ UNCHANGED <<open, outbox>>

Return(t) ==
  /\ inbox[t] # NoMessage
  /\ inbox' = [inbox EXCEPT ![t] = NoMessage]
  /\ UNCHANGED <<open, queue, outbox>>

Next ==
  \/ \E c \in Chan : Open(c)
  \/ \E t \in Thread :
       \/ \E c \in Chan, v \in Value : Offer(t, c, v)
       \/ Enqueue(t)
       \/ \E c \in Chan : Dequeue(t, c)
       \/ Return(t)

Spec == Init /\ [][Next]_vars
=============================================================================
