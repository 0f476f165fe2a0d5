------------------------------ MODULE NvSockets ------------------------------
(* The sockets of the runtime (backend/runtime/net/net_socket.c): the table of *)
(* handles, and for each stream the bytes that were read from the kernel but    *)
(* not yet handed to the program (the slot's pend).  One thread of the program  *)
(* makes the calls, one at a time; the peers act between any two reads from the *)
(* kernel.  A byte is named by its position in what the peer wrote, so what a   *)
(* call hands out, keeps or throws away can be compared with the stream.        *)
(* Datagram sockets take room in the table; their contents are left out.        *)
EXTENDS Integers, FiniteSets, SequencesExt

CONSTANTS
  Conn,          \* connections that may be made, in either direction
  NoConn,        \* the connection of a slot that has none
  MaxSlots,      \* NV_NET_MAX
  PendMax,       \* NV_NET_PEND_MAX
  DelimLen,      \* length of the delimiter of recv_until: that many marks
  RecvSizes, UntilSizes, ExactSizes,   \* sizes the program asks for
  Talker,        \* bound: the connections whose peers write or end
  MaxSent        \* bound: bytes such a peer writes

ASSUME SocketsAssumption ==
  /\ NoConn \notin Conn
  /\ {MaxSlots, DelimLen} \cup RecvSizes \cup UntilSizes \cup ExactSizes \subseteq Nat \ {0}
  /\ {PendMax, MaxSent} \subseteq Nat

VARIABLES
  slot,          \* g_slots
  net,           \* the kernel's side of each connection
  call,          \* the read call in progress
  done,          \* history: the bytes of each connection that were handed to the
                 \* program or thrown away by a recv_exact that failed
  lost,          \* history: those for which recv_until had no room
  frames         \* history: the ends of the frames recv_until found, while it
                 \* alone read the connection and found a delimiter each time
vars == <<slot, net, call, done, lost, frames>>

Handle == 0 .. MaxSlots - 1
Status == {"OK", "TIMEOUT", "CLOSED", "ERROR"}
Free == [kind |-> "free", conn |-> NoConn, status |-> "OK",
         impatient |-> FALSE, pend |-> <<>>]
Idle == [op |-> "none", h |-> 0, want |-> 0, buf |-> <<>>, phase |-> "read"]
Untouched == [state |-> "none", at |-> 0, sent |-> <<>>, taken |-> 0,
              eof |-> "no"]
NoFrames == [whole |-> TRUE, ends |-> {}]

Init ==
  /\ slot = [h \in Handle |-> Free]
  /\ net = [c \in Conn |-> Untouched]
  /\ call = Idle
  /\ done = [c \in Conn |-> <<>>]
  /\ lost = [c \in Conn |-> {}]
  /\ frames = [c \in Conn |-> NoFrames]

-------------------------------------------------------------------------------
(* The peers.                                                                  *)

PeerConnects(c) ==
  /\ net[c].state = "none"
  /\ \E l \in Handle : /\ slot[l].kind = "listener"
                       /\ net' = [net EXCEPT ![c].state = "backlog", ![c].at = l]
  /\ UNCHANGED <<slot, call, done, lost, frames>>

(* A byte is a mark of the delimiter or it is not.                             *)
PeerWrites(c, mark) ==
  /\ net[c].state \in {"backlog", "open"} /\ net[c].eof \in {"no", "shut"}
  /\ Len(net[c].sent) < MaxSent
  /\ net' = [net EXCEPT ![c].sent = Append(@, mark)]
  /\ UNCHANGED <<slot, call, done, lost, frames>>

PeerEnds(c, how) ==
  /\ net[c].state \in {"backlog", "open"} /\ net[c].eof = "no"
  /\ net' = [net EXCEPT ![c].eof = how]
  /\ UNCHANGED <<slot, call, done, lost, frames>>

-------------------------------------------------------------------------------
(* The table of handles.                                                       *)

Vacant == {h \in Handle : slot[h].kind = "free"}
FirstVacant == CHOOSE h \in Vacant : \A k \in Vacant : h <= k

(* alloc_slot: the first free slot; with none the new descriptor is closed.    *)
AllocSlot(s, n, kind, c) ==
  IF Vacant = {}
  THEN /\ slot' = s
       /\ net' = IF c = NoConn THEN n ELSE [n EXCEPT ![c].state = "closed"]
  ELSE /\ slot' = [s EXCEPT ![FirstVacant] = [Free EXCEPT !.kind = kind, !.conn = c]]
       /\ net' = n

(* create_bound; any step before alloc_slot may fail and closes what it opened. *)
Bind(kind) ==
  /\ call = Idle
  /\ AllocSlot(slot, net, kind, NoConn)
  /\ UNCHANGED <<call, done, lost, frames>>

(* A connect that is refused, resolves nothing or times out changes nothing:   *)
(* the descriptor is closed on every such path.                                *)
Connect(c) ==
  /\ call = Idle
  /\ net[c].state = "none"
  /\ AllocSlot(slot, [net EXCEPT ![c].state = "open"], "stream", c)
  /\ UNCHANGED <<call, done, lost, frames>>

SetStatus(h, status) == [slot EXCEPT ![h].status = status]

Accept(l, c) ==
  /\ call = Idle
  /\ slot[l].kind = "listener" /\ net[c].state = "backlog" /\ net[c].at = l
  /\ AllocSlot(SetStatus(l, IF Vacant = {} THEN "ERROR" ELSE "OK"),
               [net EXCEPT ![c].state = "open"], "stream", c)
  /\ UNCHANGED <<call, done, lost, frames>>

(* No connection in time (or a signal: EINTR counts as that), or the kernel's  *)
(* accept or poll failed.                                                      *)
AcceptNothing(l, status) ==
  /\ call = Idle
  /\ slot[l].kind = "listener"
  /\ slot' = SetStatus(l, status)
  /\ UNCHANGED <<net, call, done, lost, frames>>

(* nv_net_close: a closed listener takes its backlog with it, a closed stream   *)
(* what was kept of it; its history ends here too.                             *)
Close(h) ==
  /\ call = Idle
  /\ slot[h].kind # "free"
  /\ LET ended == {c \in Conn : \/ c = slot[h].conn
                                \/ net[c].state = "backlog" /\ net[c].at = h}
     IN /\ net' = [c \in Conn |-> IF c \in ended
                                  THEN [Untouched EXCEPT !.state = "closed"] ELSE net[c]]
        /\ done' = [c \in Conn |-> IF c \in ended THEN <<>> ELSE done[c]]
        /\ lost' = [c \in Conn |-> IF c \in ended THEN {} ELSE lost[c]]
        /\ frames' = [c \in Conn |-> IF c \in ended THEN NoFrames ELSE frames[c]]
  /\ slot' = [slot EXCEPT ![h] = Free]
  /\ UNCHANGED call

(* A receiving side that was shut down reads as ended when nothing is there,   *)
(* though more may still arrive.                                               *)
Shutdown(h) ==
  /\ call = Idle
  /\ slot[h].kind = "stream" /\ net[slot[h].conn].eof = "no"
  /\ net' = [net EXCEPT ![slot[h].conn].eof = "shut"]
  /\ UNCHANGED <<slot, call, done, lost, frames>>

(* A receive timeout and the nonblocking mode both make the kernel answer a    *)
(* read that finds nothing; the other options do not matter here.              *)
SetOption(h, impatient) ==
  /\ call = Idle
  /\ slot[h].kind = "stream"
  /\ slot' = [slot EXCEPT ![h].impatient = impatient]
  /\ UNCHANGED <<net, call, done, lost, frames>>

(* send, send_hex, udp_send_to, udp_recv_from: what they move is left out.     *)
Transfer(h, status) ==
  /\ call = Idle
  /\ slot[h].kind \in {"stream", "udp"}
  /\ status = "TIMEOUT" => slot[h].kind = "udp"
  /\ slot' = SetStatus(h, status)
  /\ UNCHANGED <<net, call, done, lost, frames>>

-------------------------------------------------------------------------------
(* Reading a stream.                                                           *)

Sizes(op) == CASE op = "recv" -> RecvSizes [] op = "until" -> UntilSizes
               [] op = "exact" -> ExactSizes

Begin(op, h, size) ==
  /\ call = Idle
  /\ slot[h].kind = "stream"
  /\ size \in Sizes(op)
  /\ call' = [Idle EXCEPT !.op = op, !.h = h, !.want = size]
  /\ UNCHANGED <<slot, net, done, lost, frames>>

(* The kernel refuses to read from a listening socket.                         *)
ReadRefused(h) ==
  /\ call = Idle
  /\ slot[h].kind = "listener"
  /\ slot' = SetStatus(h, "ERROR")
  /\ UNCHANGED <<net, call, done, lost, frames>>

Pend == slot[call.h].pend
Peer == slot[call.h].conn
Missing == call.want - Len(call.buf)
Arrived == Len(net[Peer].sent) - net[Peer].taken
AtMost(n, m) == IF n < m THEN n ELSE m
Reading(phase) == call # Idle /\ call.phase = phase

(* The bytes n + 1, n + 2 ... of a stream.                                     *)
After(n, many) == [i \in 1 .. many |-> n + i]

(* read_some takes what an earlier recv_until kept ...                         *)
TakeKept ==
  /\ Reading("read")
  /\ Pend # <<>>
  /\ LET n == AtMost(Len(Pend), Missing)
     IN /\ call' = [call EXCEPT !.buf = @ \o SubSeq(Pend, 1, n), !.phase = "look"]
        /\ slot' = [slot EXCEPT ![call.h].pend = SubSeq(@, n + 1, Len(@))]
  /\ UNCHANGED <<net, done, lost, frames>>

(* ... and only when there is none what has arrived.                           *)
TakeArrived ==
  /\ Reading("read")
  /\ Pend = <<>> /\ Arrived > 0
  /\ LET n == AtMost(Arrived, Missing)
     IN /\ call' = [call EXCEPT !.buf = @ \o After(net[Peer].taken, n),
                                !.phase = "look"]
        /\ net' = [net EXCEPT ![Peer].taken = @ + n]
  /\ UNCHANGED <<slot, done, lost, frames>>

(* History: a frame ends where recv_until stopped at a delimiter.              *)
Framed(f, bytes, frame) ==
  IF bytes = <<>> THEN f
  ELSE IF frame /\ f.whole THEN [f EXCEPT !.ends = @ \cup {Last(bytes)}]
  ELSE [NoFrames EXCEPT !.whole = FALSE]

(* The call ends with `bytes` handed out or thrown away and `kept` left in the *)
(* slot.  `frame` says that it stopped at a delimiter.                         *)
Return(bytes, kept, status, frame) ==
  /\ call' = Idle
  /\ slot' = [slot EXCEPT ![call.h].status = status, ![call.h].pend = kept]
  /\ done' = [done EXCEPT ![Peer] = @ \o bytes]
  /\ frames' = [frames EXCEPT ![Peer] = Framed(@, bytes, frame)]

(* read_some has nothing: the peer is done (0), the connection is broken, or   *)
(* the timeout or the nonblocking mode ends the wait (-1).  What recv_until    *)
(* has is still returned; what recv_exact has is not.                          *)
Nothing(status) ==
  CASE status = "CLOSED"  -> net[Peer].eof \in {"fin", "shut"}
    [] status = "ERROR"   -> net[Peer].eof = "reset"
    [] status = "TIMEOUT" -> net[Peer].eof = "no" /\ slot[call.h].impatient

\* Mutant of ReadNothing: the kernel is asked before what was kept is looked at.
ReadNothingFirst(status) ==
  /\ Reading("read")
  /\ Arrived = 0
  /\ Nothing(status)
  /\ Return(call.buf, Pend, status, FALSE)
  /\ net' = IF status = "ERROR" THEN [net EXCEPT ![Peer].eof = "fin"] ELSE net
  /\ UNCHANGED lost

\* Mutant of ReadNothing: recv_exact takes the end of the stream for a short read.
ReadNothingRetries(status) ==
  /\ Reading("read")
  /\ Pend = <<>> /\ Arrived = 0
  /\ Nothing(status)
  /\ call.op = "exact" => status # "CLOSED"
  /\ Return(call.buf, <<>>, status, FALSE)
  /\ net' = IF status = "ERROR" THEN [net EXCEPT ![Peer].eof = "fin"] ELSE net
  /\ UNCHANGED lost

ReadNothing(status) ==
  /\ Reading("read")
  /\ Pend = <<>> /\ Arrived = 0
  /\ Nothing(status)
  /\ Return(call.buf, <<>>, status, FALSE)
  /\ net' = IF status = "ERROR" THEN [net EXCEPT ![Peer].eof = "fin"] ELSE net
  /\ UNCHANGED lost

(* Where a delimiter ends in the buffer of recv_until; the whole of it is      *)
(* searched again after each read, from its start.                             *)
DelimiterEnds(buf) ==
  {e \in DelimLen .. Len(buf) :
     \A i \in e - DelimLen + 1 .. e : net[Peer].sent[buf[i]]}

\* Mutant of KeepPast: a full buffer counts as too small.
KeepPastBelow(extra) ==
  IF extra # <<>> /\ Len(extra) < PendMax THEN extra ELSE Pend

(* What is past the delimiter is kept if it fits, in place of what is there.   *)
KeepPast(extra) ==
  IF extra # <<>> /\ Len(extra) <= PendMax THEN extra ELSE Pend

(* History: what is past the delimiter is lost if there is more than the slot   *)
(* has room for; else what an earlier call kept and this one did not read.     *)
NoRoomFor(extra) ==
  IF Len(extra) > PendMax THEN ToSet(extra)
  ELSE IF extra # <<>> THEN ToSet(Pend) ELSE {}

\* Mutant of FoundDelimiter: the last delimiter in the buffer.
FoundLastDelimiter ==
  /\ Reading("look") /\ call.op = "until"
  /\ DelimiterEnds(call.buf) # {}
  /\ LET e == CHOOSE e \in DelimiterEnds(call.buf) :
                \A k \in DelimiterEnds(call.buf) : e >= k
         extra == SubSeq(call.buf, e + 1, Len(call.buf))
     IN /\ Return(SubSeq(call.buf, 1, e), KeepPast(extra), "OK", TRUE)
        /\ lost' = [lost EXCEPT ![Peer] = @ \cup NoRoomFor(extra)]
  /\ UNCHANGED net

FoundDelimiter ==
  /\ Reading("look") /\ call.op = "until"
  /\ DelimiterEnds(call.buf) # {}
  /\ LET e == CHOOSE e \in DelimiterEnds(call.buf) :
                \A k \in DelimiterEnds(call.buf) : e <= k
         extra == SubSeq(call.buf, e + 1, Len(call.buf))
     IN /\ Return(SubSeq(call.buf, 1, e), KeepPast(extra), "OK", TRUE)
        /\ lost' = [lost EXCEPT ![Peer] = @ \cup NoRoomFor(extra)]
  /\ UNCHANGED net

Undelimited == call.op # "until" \/ DelimiterEnds(call.buf) = {}

(* recv returns after one read, the others with what was asked for.            *)
ReadEnough ==
  /\ Reading("look")
  /\ Undelimited
  /\ call.op = "recv" \/ Missing = 0
  /\ Return(call.buf, Pend, "OK", FALSE)
  /\ UNCHANGED <<net, lost>>

ReadMore ==
  /\ Reading("look")
  /\ Undelimited
  /\ call.op # "recv" /\ Missing > 0
  /\ call' = [call EXCEPT !.phase = "read"]
  /\ UNCHANGED <<slot, net, done, lost, frames>>

-------------------------------------------------------------------------------
Peers ==
  \E c \in Conn :
    \/ PeerConnects(c)
    \/ c \in Talker /\ \E mark \in BOOLEAN : PeerWrites(c, mark)
    \/ c \in Talker /\ \E how \in {"fin", "reset"} : PeerEnds(c, how)

Program ==
  \/ \E kind \in {"listener", "udp"} : Bind(kind)
  \/ \E c \in Conn : Connect(c)
  \/ \E h \in Handle :
       \/ \E c \in Conn : Accept(h, c)
       \/ \E status \in {"TIMEOUT", "ERROR"} : AcceptNothing(h, status)
       \/ Close(h) \/ Shutdown(h) \/ ReadRefused(h)
       \/ \E impatient \in BOOLEAN : SetOption(h, impatient)
       \/ \E status \in {"OK", "TIMEOUT", "ERROR"} : Transfer(h, status)
       \/ \E op \in {"recv", "until", "exact"} :
            \E size \in Sizes(op) : Begin(op, h, size)

Runtime ==
  \/ TakeKept \/ TakeArrived
  \/ \E status \in {"CLOSED", "ERROR", "TIMEOUT"} : ReadNothing(status)
  \/ FoundDelimiter \/ ReadEnough \/ ReadMore

Next == Peers \/ Program \/ Runtime

Spec == Init /\ [][Next]_vars

(* The runtime's thread runs on, and a timeout that was set expires.           *)
FairSpec == Spec /\ WF_vars(Runtime)

-------------------------------------------------------------------------------
(* The bytes of a connection in the order they go to the program: those handed *)
(* out or thrown away by a recv_exact that failed, those in the buffer of the   *)
(* call, and those kept for the next read.                                     *)
Stream(c) ==
  LET inCall == IF call # Idle /\ Peer = c THEN call.buf ELSE <<>>
      kept == IF \E h \in Handle : slot[h].conn = c
              THEN slot[CHOOSE h \in Handle : slot[h].conn = c].pend ELSE <<>>
  IN done[c] \o inCall \o kept

Ascending(s) == \A i, j \in DOMAIN s : i < j => s[i] < s[j]

(* Whatever sizes the calls ask for and however they are mixed, the bytes taken *)
(* from the kernel reach the program in the peer's order, none twice, and none  *)
(* is missing but those recv_until had no room for past a delimiter.            *)
BytesAccounted ==
  \A c \in Conn :
    Ascending(Stream(c)) /\ ToSet(Stream(c)) = (1 .. net[c].taken) \ lost[c]

(* "Everything past the delimiter is kept for the next read" (recv_until): no   *)
(* byte taken from the kernel is missing at all.                               *)
PastDelimiterKept ==
  \A c \in Conn : Stream(c) = After(0, net[c].taken)

(* A handle says CLOSED only when all that the peer wrote has been handed out: *)
(* what was buffered comes before the end of the stream (read_some).           *)
ClosedMeansDrained ==
  \A h \in Handle :
    slot[h].kind = "stream" /\ slot[h].status = "CLOSED" =>
      /\ slot[h].pend = <<>>
      /\ net[slot[h].conn].taken = Len(net[slot[h].conn].sent) \/ net[slot[h].conn].eof = "shut"

(* The frames in the first n bytes of a stream: one ends with each delimiter of *)
(* which no byte belongs to the delimiter of an earlier one.  Only one set of   *)
(* places is like that: whether e is in it depends on the places before e.      *)
FramesEndAt(ends, stream, n) ==
  ends = {e \in DelimLen .. n : /\ \A i \in e - DelimLen + 1 .. e : stream[i]
                               /\ ends \cap (e - DelimLen + 1 .. e - 1) = {}}

(* However the stream was cut up by the kernel and by earlier calls, a program *)
(* that reads with recv_until gets the frames the peer wrote, each of them,    *)
(* also when a delimiter arrives in two pieces, as long as none of the stream  *)
(* was lost.                                                                   *)
FramesAsWritten ==
  \A c \in Conn :
    frames[c].whole /\ lost[c] = {} =>
      FramesEndAt(frames[c].ends, net[c].sent, Len(done[c]))

(* A read returns if the handle has a timeout or is nonblocking, or once the   *)
(* peer has closed or broken the connection.                                   *)
ReadReturns ==
  call # Idle /\ (slot[call.h].impatient \/ net[Peer].eof # "no") ~> call = Idle

=============================================================================
