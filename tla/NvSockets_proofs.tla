--------------------------- MODULE NvSockets_proofs ---------------------------
(* Proofs about NvSockets, for any number of connections and handles, any      *)
(* buffer, delimiter and sizes. IInv says which slot holds which connection and *)
(* what a handle that says CLOSED means. BytesInv adds where the bytes of a     *)
(* stream are and which of them are lost, PlacesInv and FramesInv where the     *)
(* frames end. Together they are inductive.                                     *)
EXTENDS NvSockets, SequenceTheorems, WellFoundedInduction, TLAPS

SlotRec == [kind : {"free", "listener", "udp", "stream"}, conn : Conn \cup {NoConn},
            status : Status, impatient : BOOLEAN, pend : Seq(Nat)]
NetRec == [state : {"none", "backlog", "open", "closed"}, at : Handle,
           sent : Seq(BOOLEAN), taken : Nat, eof : {"no", "shut", "fin", "reset"}]
CallRec == [op : {"none", "recv", "until", "exact"}, h : Handle, want : Nat,
            buf : Seq(Nat), phase : {"read", "look"}]

TypeOK ==
  /\ slot \in [Handle -> SlotRec]
  /\ net \in [Conn -> NetRec]
  /\ call \in CallRec
  /\ done \in [Conn -> Seq(Nat)]
  /\ lost \in [Conn -> SUBSET Nat]
  /\ frames \in [Conn -> [whole : BOOLEAN, ends : SUBSET Nat]]

Unread(c) == net[c].taken = 0 /\ done[c] = <<>> /\ lost[c] = {}

\* A stream has a connection to itself, which is open; nothing of a connection
\* that no handle has was ever taken.
SlotInv ==
  /\ \A h \in Handle :
       /\ slot[h].kind = "stream" <=> slot[h].conn # NoConn
       /\ slot[h].kind = "stream" => net[slot[h].conn].state = "open"
       /\ slot[h].kind # "stream" => slot[h].pend = <<>>
  /\ \A h, k \in Handle : slot[h].kind = "stream" /\ slot[k].conn = slot[h].conn => k = h
  /\ \A c \in Conn : (\A h \in Handle : slot[h].conn # c) => Unread(c)

\* A read is of a stream and has not more than was asked for.
CallInv ==
  call # Idle =>
    /\ slot[call.h].kind = "stream"
    /\ call.want \in Sizes(call.op) /\ call.op # "none"
    /\ Len(call.buf) <= call.want

\* What was kept fits the slot.
KeptInv == \A h \in Handle : Len(slot[h].pend) <= PendMax

ClosedInv ==
  \A h \in Handle :
    slot[h].kind = "stream" /\ slot[h].status = "CLOSED" =>
      /\ slot[h].pend = <<>>
      /\ \/ net[slot[h].conn].eof = "shut"
         \/ /\ net[slot[h].conn].eof = "fin"
            /\ net[slot[h].conn].taken = Len(net[slot[h].conn].sent)

IInv == TypeOK /\ SlotInv /\ CallInv /\ KeptInv /\ ClosedInv

\* The bytes of q are those that come after the first n of the stream.
Follows(q, n) == \A i \in 1 .. Len(q) : q[i] = n + i
InCall(h) == IF call # Idle /\ call.h = h THEN call.buf ELSE <<>>

\* A stream of which t bytes were taken and those in l are lost.
InOrder(s, t, l) ==
  /\ Ascending(s) /\ l \subseteq 1 .. t /\ ToSet(s) = (1 .. t) \ l
  /\ l = {} => Follows(s, 0) /\ Len(s) = t

BytesInv ==
  \A h \in Handle :
    slot[h].kind = "stream" =>
      InOrder(done[slot[h].conn] \o (InCall(h) \o slot[h].pend),
              net[slot[h].conn].taken, lost[slot[h].conn])

\* What was taken had arrived.
PlacesInv == \A c \in Conn : net[c].taken <= Len(net[c].sent)

\* recv_until, alone on a stream of which none is lost, goes from the end of a
\* frame to that of the next.
FramesInv ==
  \A c \in Conn :
    frames[c].whole /\ lost[c] = {} =>
      /\ FramesEndAt(frames[c].ends, net[c].sent, Len(done[c]))
      /\ done[c] = <<>> \/ Len(done[c]) \in frames[c].ends

FirstDelimiter ==
  CHOOSE e \in DelimiterEnds(call.buf) : \A k \in DelimiterEnds(call.buf) : e <= k

-------------------------------------------------------------------------------
(* Sequences of bytes.                                                         *)

LEMMA Cut ==
  ASSUME NEW q \in Seq(Nat), NEW n \in 0 .. Len(q)
  PROVE  /\ SubSeq(q, 1, n) \in Seq(Nat) /\ Len(SubSeq(q, 1, n)) = n
         /\ \A i \in 1 .. n : SubSeq(q, 1, n)[i] = q[i]
         /\ SubSeq(q, n + 1, Len(q)) \in Seq(Nat) /\ Len(SubSeq(q, n + 1, Len(q))) = Len(q) - n
         /\ \A i \in 1 .. Len(q) - n : SubSeq(q, n + 1, Len(q))[i] = q[n + i]
<1>1. Len(q) \in Nat /\ n \in Nat /\ n <= Len(q)
  OBVIOUS
<1>2. /\ SubSeq(q, 1, n) \in Seq(Nat) /\ Len(SubSeq(q, 1, n)) = n
      /\ \A i \in 1 .. n : SubSeq(q, 1, n)[i] = q[i]
  BY <1>1
<1>3. SubSeq(q, n + 1, Len(q)) \in Seq(Nat)
  BY <1>1
<1>4. Len(SubSeq(q, n + 1, Len(q))) = Len(q) - n
  BY <1>1
<1>5. \A i \in 1 .. Len(q) - n : SubSeq(q, n + 1, Len(q))[i] = q[n + i]
  BY <1>1
<1>6. QED
  BY <1>2, <1>3, <1>4, <1>5

LEMMA Join ==
  ASSUME NEW q \in Seq(Nat), NEW r \in Seq(Nat)
  PROVE  /\ q \o r \in Seq(Nat) /\ Len(q \o r) = Len(q) + Len(r)
         /\ Len(q) \in Nat /\ Len(r) \in Nat
         /\ \A i \in 1 .. Len(q) : (q \o r)[i] = q[i]
         /\ \A i \in 1 .. Len(r) : (q \o r)[Len(q) + i] = r[i]
         /\ \A i \in 1 .. Len(q \o r) :
              i > Len(q) => i - Len(q) \in 1 .. Len(r) /\ (q \o r)[i] = r[i - Len(q)]
OBVIOUS

LEMMA AfterBytes ==
  ASSUME NEW n \in Nat, NEW many \in Nat
  PROVE  /\ After(n, many) \in Seq(Nat) /\ Len(After(n, many)) = many
         /\ Follows(After(n, many), n)
BY DEF After, Follows

LEMMA LastFollows ==
  ASSUME NEW q \in Seq(Nat), NEW n \in Nat, Follows(q, n), Len(q) # 0
  PROVE  Last(q) = n + Len(q)
<1>1. Len(q) \in 1 .. Len(q)
  OBVIOUS
<1>2. q[Len(q)] = n + Len(q)
  BY <1>1 DEF Follows
<1>3. QED
  BY <1>2 DEF Last

\* The elements of a sequence by their places.
LEMMA Elements ==
  ASSUME NEW q \in Seq(Nat)
  PROVE  /\ DOMAIN q = 1 .. Len(q) /\ Len(q) \in Nat
         /\ \A i \in 1 .. Len(q) : q[i] \in ToSet(q) /\ q[i] \in Nat
         /\ \A v \in ToSet(q) : \E i \in 1 .. Len(q) : v = q[i]
BY DEF ToSet

LEMMA JoinElements ==
  ASSUME NEW q \in Seq(Nat), NEW r \in Seq(Nat)
  PROVE  ToSet(q \o r) = ToSet(q) \cup ToSet(r)
<1>1. q \o r \in Seq(Nat)
  BY Join
<1>2. ASSUME NEW v \in ToSet(q \o r) PROVE v \in ToSet(q) \cup ToSet(r)
  <2>1. PICK i \in 1 .. Len(q \o r) : v = (q \o r)[i]
    BY <1>1, Elements
  <2>2. CASE i \in 1 .. Len(q)
    BY <2>1, <2>2, Join, Elements
  <2>3. CASE i > Len(q)
    BY <2>1, <2>3, Join, Elements
  <2>4. QED
    BY <2>1, <2>2, <2>3, Join
<1>3. ASSUME NEW v \in ToSet(q) PROVE v \in ToSet(q \o r)
  <2>1. PICK i \in 1 .. Len(q) : v = q[i]
    BY Elements
  <2>2. i \in 1 .. Len(q \o r) /\ (q \o r)[i] = v
    BY <2>1, Join
  <2>3. QED
    BY <1>1, <2>2, Elements
<1>4. ASSUME NEW v \in ToSet(r) PROVE v \in ToSet(q \o r)
  <2>1. PICK i \in 1 .. Len(r) : v = r[i]
    BY Elements
  <2>2. Len(q) + i \in 1 .. Len(q \o r) /\ (q \o r)[Len(q) + i] = v
    BY <2>1, Join
  <2>3. QED
    BY <1>1, <2>2, Elements
<1>5. QED
  BY <1>2, <1>3, <1>4

\* The next bytes of the stream come after those that were taken.
LEMMA Extended ==
  ASSUME NEW s \in Seq(Nat), NEW t \in Nat, NEW n \in Nat, NEW l, InOrder(s, t, l)
  PROVE  InOrder(s \o After(t, n), t + n, l)
<1> DEFINE new == After(t, n)
           u == s \o new
<1>1. new \in Seq(Nat) /\ Len(new) = n /\ \A i \in 1 .. n : new[i] = t + i
  BY AfterBytes DEF Follows
<1> HIDE DEF new
<1>2. /\ u \in Seq(Nat) /\ Len(u) = Len(s) + n /\ Len(s) \in Nat
      /\ \A i \in 1 .. Len(s) : u[i] = s[i]
      /\ \A i \in 1 .. Len(u) : i > Len(s) => u[i] = t + (i - Len(s))
  BY <1>1, Join
<1>3. ToSet(u) = ToSet(s) \cup ToSet(new)
  BY <1>1, JoinElements
<1>4. \A i \in 1 .. Len(s) : s[i] \in 1 .. t
  BY Elements DEF InOrder
<1> HIDE DEF u
<1>5. Ascending(u)
  <2>1. ASSUME NEW i \in 1 .. Len(u), NEW j \in 1 .. Len(u), i < j PROVE u[i] < u[j]
    <3>1. CASE j <= Len(s)
      <4>1. i \in 1 .. Len(s) /\ j \in 1 .. Len(s)
        BY <1>2, <2>1, <3>1
      <4>2. s[i] < s[j]
        BY <2>1, <4>1, Elements DEF InOrder, Ascending
      <4>3. QED
        BY <1>2, <4>1, <4>2
    <3>2. CASE i <= Len(s) /\ j > Len(s)
      <4>1. i \in 1 .. Len(s) /\ u[j] = t + (j - Len(s)) /\ j - Len(s) > 0
        BY <1>2, <3>2
      <4>2. u[i] \in 1 .. t
        BY <1>2, <1>4, <4>1
      <4>3. QED
        BY <1>2, <4>1, <4>2
    <3>3. CASE i > Len(s)
      BY <1>2, <2>1, <3>3
    <3>4. QED
      BY <1>2, <2>1, <3>1, <3>2, <3>3
  <2>2. QED
    BY <1>2, <2>1, Elements DEF Ascending
<1>6. ToSet(u) = (1 .. t + n) \ l
  <2>1. l \subseteq 1 .. t /\ ToSet(s) = (1 .. t) \ l
    BY DEF InOrder
  <2>2. ToSet(new) = t + 1 .. t + n
    <3>1. ASSUME NEW v \in ToSet(new) PROVE v \in t + 1 .. t + n
      BY <1>1, Elements
    <3>2. ASSUME NEW v \in t + 1 .. t + n PROVE v \in ToSet(new)
      <4>1. v - t \in 1 .. n /\ t + (v - t) = v
        OBVIOUS
      <4>2. new[v - t] = v
        BY <1>1, <4>1
      <4>3. QED
        BY <1>1, <4>1, <4>2, Elements
    <3>3. QED
      BY <3>1, <3>2
  <2>3. QED
    BY <1>3, <2>1, <2>2
<1>7. l \subseteq 1 .. t + n
  BY DEF InOrder
<1>8. ASSUME l = {} PROVE Follows(u, 0) /\ Len(u) = t + n
  <2>1. Follows(s, 0) /\ Len(s) = t
    BY <1>8 DEF InOrder
  <2>2. Len(u) = t + n
    BY <1>2, <2>1
  <2>3. ASSUME NEW i \in 1 .. Len(u) PROVE u[i] = 0 + i
    <3>1. CASE i <= Len(s)
      BY <1>2, <2>1, <3>1 DEF Follows
    <3>2. CASE i > Len(s)
      BY <1>2, <2>1, <3>2
    <3>3. QED
      BY <1>2, <3>1, <3>2
  <2>4. QED
    BY <2>2, <2>3 DEF Follows
<1>9. QED
  BY <1>5, <1>6, <1>7, <1>8 DEF InOrder, u, new

\* Without some of its bytes a stream is in order, and they are lost.
LEMMA Dropped ==
  ASSUME NEW a \in Seq(Nat), NEW b \in Seq(Nat), NEW c \in Seq(Nat), NEW t \in Nat, NEW l,
         InOrder(a \o (b \o c), t, l)
  PROVE  InOrder(a \o c, t, l \cup ToSet(b))
<1> DEFINE s == a \o (b \o c)
           u == a \o c
           la == Len(a)
           lb == Len(b)
           lc == Len(c)
           f(i) == IF i <= la THEN i ELSE i + lb
<1>1. /\ s \in Seq(Nat) /\ Len(s) = la + lb + lc /\ la \in Nat /\ lb \in Nat /\ lc \in Nat
      /\ u \in Seq(Nat) /\ Len(u) = la + lc
  BY Join
<1>2. /\ \A i \in 1 .. la : s[i] = a[i] /\ u[i] = a[i]
      /\ \A i \in 1 .. lb : s[la + i] = b[i]
  <2>1. b \o c \in Seq(Nat) /\ \A i \in 1 .. lb : (b \o c)[i] = b[i] /\ i \in 1 .. Len(b \o c)
    BY Join
  <2>2. QED
    BY <2>1, Join
<1>3. \A i \in 1 .. lc : s[la + lb + i] = c[i] /\ u[la + i] = c[i]
  <2>1. b \o c \in Seq(Nat)
        /\ \A i \in 1 .. lc : (b \o c)[lb + i] = c[i] /\ lb + i \in 1 .. Len(b \o c)
    BY Join
  <2>2. \A i \in 1 .. lc : s[la + (lb + i)] = c[i]
    BY <2>1, Join
  <2>3. \A i \in 1 .. lc : la + (lb + i) = la + lb + i
    BY <1>1
  <2>4. QED
    BY <2>2, <2>3, Join
<1>4. ToSet(s) = ToSet(u) \cup ToSet(b)
  <2>1. b \o c \in Seq(Nat) /\ ToSet(b \o c) = ToSet(b) \cup ToSet(c)
    BY Join, JoinElements
  <2>2. ToSet(a \o (b \o c)) = ToSet(a) \cup ToSet(b \o c) /\ ToSet(a \o c) = ToSet(a) \cup ToSet(c)
    BY <2>1, JoinElements
  <2>3. QED
    BY <2>1, <2>2
<1>5. l \subseteq 1 .. t /\ ToSet(s) = (1 .. t) \ l /\ Ascending(s)
  BY DEF InOrder
<1>6. l = {} => Follows(s, 0) /\ Len(s) = t
  BY DEF InOrder
<1> HIDE DEF s, u, la, lb, lc
<1>7. ASSUME NEW i \in 1 .. Len(u) PROVE f(i) \in 1 .. Len(s) /\ u[i] = s[f(i)]
  <2>1. CASE i <= la
    BY <1>1, <1>2, <2>1
  <2>2. CASE i > la
    <3>1. i - la \in 1 .. lc /\ la + (i - la) = i /\ la + lb + (i - la) = i + lb
      BY <1>1, <2>2
    <3>2. u[la + (i - la)] = c[i - la] /\ s[la + lb + (i - la)] = c[i - la]
      BY <1>3, <3>1
    <3>3. f(i) = la + lb + (i - la) /\ la + lb + (i - la) \in 1 .. Len(s)
      BY <1>1, <2>2, <3>1
    <3> HIDE DEF f
    <3>4. QED
      BY <3>1, <3>2, <3>3
  <2>3. QED
    BY <1>1, <2>1, <2>2
<1>8. Ascending(u)
  <2>1. ASSUME NEW i \in 1 .. Len(u), NEW j \in 1 .. Len(u), i < j PROVE u[i] < u[j]
    <3>1. f(i) < f(j)
      BY <1>1, <2>1
    <3>2. f(i) \in DOMAIN s /\ f(j) \in DOMAIN s
      BY <1>1, <1>7, Elements
    <3> HIDE DEF f
    <3>3. QED
      BY <1>5, <1>7, <3>1, <3>2 DEF Ascending
  <2>2. QED
    BY <1>1, <2>1, Elements DEF Ascending
<1>9. ToSet(u) \cap ToSet(b) = {}
  <2>1. SUFFICES ASSUME NEW v \in ToSet(u), v \in ToSet(b) PROVE FALSE
    OBVIOUS
  <2>2. PICK i \in 1 .. Len(u) : v = u[i]
    BY <1>1, Elements
  <2>3. PICK j \in 1 .. lb : v = b[j]
    BY <2>1, Elements DEF lb
  <2>4. s[f(i)] = v /\ f(i) \in DOMAIN s
    BY <1>1, <1>7, <2>2, Elements
  <2>a. s[la + j] = v /\ la + j \in DOMAIN s
    <3>1. la + j \in 1 .. Len(s)
      BY <1>1
    <3>2. QED
      BY <1>1, <1>2, <2>3, <3>1, Elements
  <2>5. f(i) < la + j \/ la + j < f(i)
    <3>1. i \in Nat /\ j \in 1 .. lb
      BY <1>1
    <3>2. CASE i <= la
      BY <1>1, <3>1, <3>2
    <3>3. CASE i > la
      BY <1>1, <3>1, <3>3
    <3>4. QED
      BY <1>1, <3>1, <3>2, <3>3
  <2>6. v \in Nat
    BY <1>1, <2>2, Elements
  <2> HIDE DEF f
  <2>7. QED
    BY <1>5, <2>4, <2>a, <2>5, <2>6 DEF Ascending
<1>10. l \cup ToSet(b) \subseteq 1 .. t /\ ToSet(u) = (1 .. t) \ (l \cup ToSet(b))
  BY <1>4, <1>5, <1>9
<1>11. ASSUME l \cup ToSet(b) = {} PROVE Follows(u, 0) /\ Len(u) = t
  <2>1. lb = 0
    <3>1. ~(1 \in 1 .. lb)
      BY <1>11, Elements DEF lb
    <3>2. QED
      BY <1>1, <3>1
  <2>2. Follows(s, 0) /\ Len(s) = t /\ Len(u) = Len(s)
    BY <1>1, <1>6, <1>11, <2>1
  <2>3. \A i \in 1 .. Len(u) : u[i] = s[i]
    <3>1. \A i \in 1 .. Len(u) : f(i) = i
      BY <1>1, <2>1
    <3> HIDE DEF f
    <3>2. QED
      BY <1>7, <3>1
  <2>4. QED
    BY <2>2, <2>3 DEF Follows
<1>12. QED
  BY <1>8, <1>10, <1>11 DEF InOrder, u

\* The bytes of a call in a stream of which none is lost.
LEMMA PartFollows ==
  ASSUME NEW a \in Seq(Nat), NEW b \in Seq(Nat), NEW c \in Seq(Nat), Follows(a \o (b \o c), 0)
  PROVE  Follows(b, Len(a))
<1>1. /\ b \o c \in Seq(Nat) /\ Len(b \o c) = Len(b) + Len(c) /\ Len(b) \in Nat /\ Len(c) \in Nat
      /\ \A i \in 1 .. Len(b) : (b \o c)[i] = b[i]
  BY Join
<1> DEFINE d == b \o c
<1>2. \A i \in 1 .. Len(b) : d[i] = b[i] /\ i \in 1 .. Len(d)
  BY <1>1
<1>3. d \in Seq(Nat)
  BY <1>1
<1> HIDE DEF d
<1>4. /\ \A i \in 1 .. Len(d) : (a \o d)[Len(a) + i] = d[i] /\ Len(a) + i \in 1 .. Len(a \o d)
      /\ Len(a) \in Nat /\ Len(a) <= Len(a \o d)
  BY <1>3, Join
<1>5. \A i \in 1 .. Len(d) : d[i] = Len(a) + i
  <2>1. ASSUME NEW i \in 1 .. Len(d) PROVE d[i] = Len(a) + i
    <3>1. (a \o d)[Len(a) + i] = 0 + (Len(a) + i)
      BY <1>4 DEF Follows, d
    <3>2. QED
      BY <1>4, <3>1
  <2>2. QED
    BY <2>1
<1>6. QED
  BY <1>2, <1>4, <1>5 DEF Follows, d

LEMMA Associative ==
  ASSUME NEW q \in Seq(Nat), NEW r \in Seq(Nat), NEW u \in Seq(Nat)
  PROVE  (q \o r) \o u = q \o (r \o u)
BY ConcatAssociative, SMTT(60)

LEMMA JoinType ==
  ASSUME NEW q \in Seq(Nat), NEW r \in Seq(Nat)
  PROVE  q \o r \in Seq(Nat)
OBVIOUS

LEMMA WithEmpty ==
  ASSUME NEW q \in Seq(Nat)
  PROVE  q \o <<>> = q /\ <<>> \o q = q
OBVIOUS

LEMMA CutInTwo ==
  ASSUME NEW q \in Seq(Nat), NEW n \in 0 .. Len(q)
  PROVE  SubSeq(q, 1, n) \o SubSeq(q, n + 1, Len(q)) = q
<1>1. 1 \in 1 .. Len(q) + 1 /\ n \in 1 - 1 .. Len(q) /\ Len(q) \in n .. Len(q)
  OBVIOUS
<1>2. SubSeq(q, 1, n) \o SubSeq(q, n + 1, Len(q)) = SubSeq(q, 1, Len(q))
  BY <1>1, ConcatAdjacentSubSeq
<1>3. QED
  BY <1>2, SubSeqFull

\* What a read takes of what was kept moves, and is in the same place of the stream.
LEMMA Moved ==
  ASSUME NEW a \in Seq(Nat), NEW b \in Seq(Nat), NEW p \in Seq(Nat), NEW n \in 0 .. Len(p)
  PROVE  a \o ((b \o SubSeq(p, 1, n)) \o SubSeq(p, n + 1, Len(p))) = a \o (b \o p)
<1> DEFINE head == SubSeq(p, 1, n)
           rest == SubSeq(p, n + 1, Len(p))
<1>1. head \in Seq(Nat) /\ rest \in Seq(Nat) /\ head \o rest = p
  BY Cut, CutInTwo
<1> HIDE DEF head, rest
<1>2. (b \o head) \o rest = b \o (head \o rest)
  BY <1>1, Associative, ZenonT(60)
<1>3. QED
  BY <1>1, <1>2 DEF head, rest

\* What arrives comes last.
LEMMA Added ==
  ASSUME NEW a \in Seq(Nat), NEW b \in Seq(Nat), NEW new \in Seq(Nat)
  PROVE  a \o ((b \o new) \o <<>>) = (a \o (b \o <<>>)) \o new
<1>1. b \o <<>> = b /\ (b \o new) \o <<>> = b \o new /\ b \o new \in Seq(Nat)
  BY WithEmpty, Join
<1>2. QED
  BY <1>1, Associative

LEMMA NothingInOrder == InOrder(<<>> \o (<<>> \o <<>>), 0, {})
<1>1. <<>> \o (<<>> \o <<>>) = <<>>
  OBVIOUS
<1>2. InOrder(<<>>, 0, {})
  BY DEF InOrder, Ascending, ToSet, Follows
<1>3. QED
  BY <1>1, <1>2

\* What is handed out was first in the buffer.
LEMMA Handed ==
  ASSUME NEW a \in Seq(Nat), NEW b \in Seq(Nat), NEW k \in Seq(Nat)
  PROVE  (a \o b) \o (<<>> \o k) = a \o (b \o k)
<1>1. <<>> \o k = k
  BY WithEmpty
<1>2. QED
  BY <1>1, Associative, SMTT(60)

\* A set of natural numbers with an element has a least one.
LEMMA Least ==
  ASSUME NEW S, S \subseteq Nat, S # {}
  PROVE  \E e \in S : \A k \in S : e <= k
<1>1. PICK e \in S : \A k \in S : ~(<<k, e>> \in OpToRel(<, Nat))
  BY NatLessThanWellFounded, WFMin, ZenonT(60)
<1>2. \A k \in S : e <= k
  <2>1. ASSUME NEW k \in S PROVE e <= k
    <3>1. ~(k < e) /\ k \in Nat /\ e \in Nat
      BY <1>1 DEF OpToRel
    <3>2. QED
      BY <3>1
  <2>2. QED
    BY <2>1
<1>3. QED
  BY <1>2

LEMMA FirstVacantIsVacant ==
  ASSUME Vacant # {}
  PROVE  FirstVacant \in Handle /\ slot[FirstVacant].kind = "free"
<1>1. Vacant \subseteq Nat
  BY SocketsAssumption DEF Vacant, Handle
<1>2. FirstVacant \in Vacant
  BY <1>1, Least DEF FirstVacant
<1>3. QED
  BY <1>2 DEF Vacant

\* The delimiter recv_until stops at ends in its buffer.
LEMMA FirstDelimiterInBuffer ==
  ASSUME TypeOK, DelimiterEnds(call.buf) # {}
  PROVE  /\ FirstDelimiter \in DelimiterEnds(call.buf)
         /\ \A k \in DelimiterEnds(call.buf) : FirstDelimiter <= k
         /\ FirstDelimiter \in Nat /\ DelimLen <= FirstDelimiter
         /\ FirstDelimiter <= Len(call.buf) /\ Len(call.buf) \in Nat
<1>1. DelimLen \in Nat \ {0} /\ Len(call.buf) \in Nat
  BY SocketsAssumption DEF TypeOK, CallRec
<1>2. DelimiterEnds(call.buf) \subseteq DelimLen .. Len(call.buf)
  BY DEF DelimiterEnds
<1>3. DelimiterEnds(call.buf) \subseteq Nat
  BY <1>1, <1>2
<1>4. /\ FirstDelimiter \in DelimiterEnds(call.buf)
      /\ \A k \in DelimiterEnds(call.buf) : FirstDelimiter <= k
  BY <1>3, Least DEF FirstDelimiter
<1>5. QED
  BY <1>1, <1>2, <1>4

-------------------------------------------------------------------------------
(* The tables.                                                                 *)

LEMMA Fields ==
  ASSUME TypeOK
  PROVE  /\ \A h \in Handle :
              /\ slot[h].kind \in {"free", "listener", "udp", "stream"}
              /\ slot[h].conn \in Conn \cup {NoConn} /\ slot[h].status \in Status
              /\ slot[h].impatient \in BOOLEAN /\ slot[h].pend \in Seq(Nat)
         /\ \A c \in Conn :
              /\ net[c].sent \in Seq(BOOLEAN) /\ net[c].taken \in Nat
              /\ net[c].state \in {"none", "backlog", "open", "closed"}
              /\ net[c].eof \in {"no", "shut", "fin", "reset"} /\ net[c].at \in Handle
              /\ done[c] \in Seq(Nat) /\ lost[c] \in SUBSET Nat
         /\ call.h \in Handle /\ call.want \in Nat /\ call.buf \in Seq(Nat)
         /\ call.op \in {"none", "recv", "until", "exact"} /\ call.phase \in {"read", "look"}
BY DEF TypeOK, SlotRec, NetRec, CallRec

LEMMA SomeHandle == 0 \in Handle /\ Handle \subseteq Nat
BY SocketsAssumption DEF Handle

LEMMA SizesAreNumbers ==
  ASSUME NEW op \in {"recv", "until", "exact"}
  PROVE  Sizes(op) \subseteq Nat \ {0}
BY SocketsAssumption DEF Sizes

LEMMA EmptyRecords ==
  /\ Free \in SlotRec /\ Idle \in CallRec /\ Untouched \in NetRec
  /\ NoFrames \in [whole : BOOLEAN, ends : SUBSET Nat]
  /\ NoConn \notin Conn
<1>1. Free \in SlotRec
  BY DEF Free, SlotRec, Status
<1>2. Idle \in CallRec
  BY SomeHandle DEF Idle, CallRec
<1>3. Untouched \in NetRec
  BY SomeHandle DEF Untouched, NetRec
<1>4. QED
  BY <1>1, <1>2, <1>3, SocketsAssumption DEF NoFrames

\* The stream a read is of.
LEMMA PeerOfCall ==
  ASSUME IInv, call # Idle
  PROVE  /\ call.h \in Handle /\ slot[call.h].kind = "stream" /\ Peer \in Conn
         /\ Pend \in Seq(Nat) /\ Len(Pend) \in Nat /\ call.buf \in Seq(Nat) /\ Len(call.buf) \in Nat
         /\ call.want \in Nat /\ Len(call.buf) <= call.want
         /\ net[Peer].taken \in Nat /\ Len(net[Peer].sent) \in Nat
<1>1. TypeOK /\ call.h \in Handle
  BY Fields DEF IInv
<1>2. slot[call.h].kind = "stream" /\ Len(call.buf) <= call.want
  BY DEF IInv, CallInv
<1>3. Peer \in Conn
  BY <1>1, <1>2, Fields DEF IInv, SlotInv, Peer
<1>4. /\ Pend \in Seq(Nat) /\ call.buf \in Seq(Nat) /\ call.want \in Nat
      /\ net[Peer].taken \in Nat /\ net[Peer].sent \in Seq(BOOLEAN)
  BY <1>1, <1>3, Fields DEF Pend
<1>5. QED
  BY <1>1, <1>2, <1>3, <1>4

-------------------------------------------------------------------------------
(* The shapes of a step.                                                       *)

\* No handle takes or gives up a connection or a byte, and no stream's end is
\* taken back.
LEMMA QuietStep ==
  ASSUME IInv, TypeOK', UNCHANGED <<call, done, lost>>,
         \A h \in Handle :
           /\ slot'[h].kind = slot[h].kind /\ slot'[h].conn = slot[h].conn
           /\ slot'[h].pend = slot[h].pend
           /\ slot'[h].status = "CLOSED" => slot[h].status = "CLOSED",
         \A c \in Conn :
           /\ net'[c].taken = net[c].taken
           /\ net[c].state = "open" => net'[c].state = "open"
           /\ net[c].eof \in {"fin", "shut"} => net'[c].eof = net[c].eof
           /\ net[c].eof = "fin" => net'[c].sent = net[c].sent
  PROVE  IInv' /\ (BytesInv => BytesInv')
<1>0. \A h \in Handle : slot[h].kind = "stream" => slot[h].conn \in Conn
  BY Fields DEF IInv, SlotInv
<1>1. SlotInv'
  <2>1. \A h \in Handle :
          /\ slot'[h].kind = "stream" <=> slot'[h].conn # NoConn
          /\ slot'[h].kind = "stream" => net'[slot'[h].conn].state = "open"
          /\ slot'[h].kind # "stream" => slot'[h].pend = <<>>
    BY <1>0 DEF IInv, SlotInv
  <2>2. \A h, k \in Handle : slot'[h].kind = "stream" /\ slot'[k].conn = slot'[h].conn => k = h
    BY DEF IInv, SlotInv
  <2>3. \A c \in Conn : (\A h \in Handle : slot'[h].conn # c) => Unread(c)'
    BY DEF IInv, SlotInv, Unread
  <2>4. QED
    BY <2>1, <2>2, <2>3 DEF SlotInv
<1>2. CallInv' /\ KeptInv'
  BY Fields DEF IInv, CallInv, KeptInv
<1>3. ClosedInv'
  <2>1. ASSUME NEW h \in Handle, slot'[h].kind = "stream", slot'[h].status = "CLOSED"
        PROVE  /\ slot'[h].pend = <<>>
               /\ \/ net'[slot'[h].conn].eof = "shut"
                  \/ /\ net'[slot'[h].conn].eof = "fin"
                     /\ net'[slot'[h].conn].taken = Len(net'[slot'[h].conn].sent)
    <3> DEFINE c == slot[h].conn
    <3>1. c \in Conn /\ slot'[h].conn = c /\ slot[h].kind = "stream" /\ slot[h].status = "CLOSED"
      BY <1>0, <2>1
    <3>2. slot[h].pend = <<>> /\ (net[c].eof = "shut" \/ (net[c].eof = "fin" /\ net[c].taken = Len(net[c].sent)))
      BY <3>1 DEF IInv, ClosedInv
    <3> HIDE DEF c
    <3>3. QED
      BY <3>1, <3>2
  <2>2. QED
    BY <2>1 DEF ClosedInv
<1>4. ASSUME BytesInv PROVE BytesInv'
  <2>1. \A h \in Handle : InCall(h)' = InCall(h)
    BY DEF InCall
  <2>2. QED
    BY <1>0, <1>4, <2>1 DEF BytesInv, InCall
<1>5. QED
  BY <1>1, <1>2, <1>3, <1>4 DEF IInv

LEMMA AllocType ==
  ASSUME TypeOK, NEW kind \in {"listener", "udp", "stream"}, NEW c \in Conn \cup {NoConn},
         NEW s \in [Handle -> SlotRec], NEW n \in [Conn -> NetRec], AllocSlot(s, n, kind, c)
  PROVE  slot' \in [Handle -> SlotRec] /\ net' \in [Conn -> NetRec]
<1>1. CASE Vacant = {}
  <2>1. c # NoConn => [n EXCEPT ![c].state = "closed"] \in [Conn -> NetRec]
    <3>1. SUFFICES ASSUME c \in Conn PROVE [n EXCEPT ![c].state = "closed"] \in [Conn -> NetRec]
      OBVIOUS
    <3>2. [n[c] EXCEPT !.state = "closed"] \in NetRec
      BY <3>1, ZenonT(60) DEF NetRec
    <3>3. QED
      BY <3>1, <3>2
  <2>2. QED
    BY <1>1, <2>1 DEF AllocSlot
<1>2. CASE Vacant # {}
  <2> DEFINE fresh == [Free EXCEPT !.kind = kind, !.conn = c]
  <2>1. fresh \in SlotRec
    BY EmptyRecords DEF SlotRec
  <2>2. slot' = [s EXCEPT ![FirstVacant] = fresh] /\ net' = n
    BY <1>2 DEF AllocSlot
  <2> HIDE DEF fresh
  <2>3. QED
    BY <2>1, <2>2
<1>3. QED
  BY <1>1, <1>2

\* A handle that was free becomes a listener, a datagram socket or the stream of
\* a connection that no handle had.
LEMMA AllocStep ==
  ASSUME IInv, call = Idle, UNCHANGED <<call, done, lost, frames>>,
         NEW kind \in {"listener", "udp", "stream"}, NEW c \in Conn \cup {NoConn},
         kind = "stream" <=> c # NoConn,
         c # NoConn => net[c].state \in {"none", "backlog"},
         NEW s \in [Handle -> SlotRec],
         \A h \in Handle :
           /\ s[h].kind = slot[h].kind /\ s[h].conn = slot[h].conn
           /\ s[h].pend = slot[h].pend
           /\ s[h].status = "CLOSED" => slot[h].status = "CLOSED",
         NEW n \in [Conn -> NetRec],
         \A d \in Conn :
           /\ n[d].taken = net[d].taken /\ n[d].eof = net[d].eof /\ n[d].sent = net[d].sent
           /\ n[d].state = IF d = c THEN "open" ELSE net[d].state,
         AllocSlot(s, n, kind, c)
  PROVE  IInv' /\ (BytesInv => BytesInv')
<1>0. /\ \A h \in Handle : slot[h].kind = "stream" => slot[h].conn \in Conn
      /\ NoConn \notin Conn
  BY Fields, EmptyRecords DEF IInv, SlotInv
<1>1. \A h \in Handle : c # NoConn => slot[h].conn # c
  BY <1>0 DEF IInv, SlotInv
<1>2. \A d \in Conn :
        /\ net'[d].taken = net[d].taken /\ net'[d].eof = net[d].eof /\ net'[d].sent = net[d].sent
        /\ d # c => net'[d].state = net[d].state
        /\ d = c /\ Vacant # {} => net'[d].state = "open"
  <2>1. CASE Vacant # {} \/ c = NoConn
    <3>1. net' = n
      BY <2>1 DEF AllocSlot
    <3>2. QED
      BY <2>1, <3>1, <1>0
  <2>2. CASE Vacant = {} /\ c # NoConn
    <3> DEFINE r == [n[c] EXCEPT !.state = "closed"]
    <3>1. net' = [n EXCEPT ![c] = r] /\ c \in Conn
      BY <2>2 DEF AllocSlot
    <3>2. r.taken = n[c].taken /\ r.eof = n[c].eof /\ r.sent = n[c].sent
      BY <3>1 DEF NetRec
    <3> HIDE DEF r
    <3>3. net'[c] = r /\ \A d \in Conn \ {c} : net'[d] = n[d]
      BY <3>1
    <3>4. QED
      BY <2>2, <3>2, <3>3
  <2>3. QED
    BY <2>1, <2>2
<1>3. TypeOK'
  <2>1. slot' \in [Handle -> SlotRec] /\ net' \in [Conn -> NetRec]
    BY AllocType DEF IInv
  <2>2. QED
    BY <2>1 DEF IInv, TypeOK
<1>4. CASE Vacant = {}
  <2>1. slot' = s
    BY <1>4 DEF AllocSlot
  <2>2. \A d \in Conn : net[d].state = "open" => net'[d].state = "open"
    BY <1>2, EmptyRecords
  <2>3. QED
    BY <1>2, <1>3, <2>1, <2>2, QuietStep
<1>5. CASE Vacant # {}
  <2> DEFINE f == FirstVacant
             fresh == [Free EXCEPT !.kind = kind, !.conn = c]
  <2>1. f \in Handle /\ slot[f].kind = "free"
    BY <1>5, FirstVacantIsVacant
  <2>2. fresh.kind = kind /\ fresh.conn = c /\ fresh.pend = <<>> /\ fresh.status = "OK"
    BY DEF Free
  <2>3. slot'[f] = fresh /\ \A h \in Handle \ {f} : slot'[h] = s[h]
    <3>1. slot' = [s EXCEPT ![f] = fresh]
      BY <1>5 DEF AllocSlot
    <3> HIDE DEF fresh, f
    <3>2. QED
      BY <2>1, <3>1
  <2> HIDE DEF fresh, f
  <2>4. \A h \in Handle \ {f} :
          /\ slot'[h].kind = slot[h].kind /\ slot'[h].conn = slot[h].conn
          /\ slot'[h].pend = slot[h].pend
          /\ slot'[h].status = "CLOSED" => slot[h].status = "CLOSED"
    BY <2>3
  <2>5. /\ slot'[f].kind = kind /\ slot'[f].conn = c
        /\ slot'[f].pend = <<>> /\ slot'[f].status = "OK"
    BY <2>2, <2>3
  <2>6. slot[f].conn = NoConn /\ slot[f].pend = <<>>
    BY <2>1 DEF IInv, SlotInv
  <2>7. SlotInv'
    <3>1. ASSUME NEW h \in Handle
          PROVE  /\ slot'[h].kind = "stream" <=> slot'[h].conn # NoConn
                 /\ slot'[h].kind = "stream" => net'[slot'[h].conn].state = "open"
                 /\ slot'[h].kind # "stream" => slot'[h].pend = <<>>
      <4>1. CASE h = f
        BY <1>2, <1>5, <2>5, <4>1
      <4>2. CASE h # f
        BY <1>0, <1>1, <1>2, <2>4, <4>2 DEF IInv, SlotInv
      <4>3. QED
        BY <4>1, <4>2
    <3>2. \A h, k \in Handle : slot'[h].kind = "stream" /\ slot'[k].conn = slot'[h].conn => k = h
      BY <1>0, <1>1, <2>4, <2>5 DEF IInv, SlotInv
    <3>3. ASSUME NEW d \in Conn, \A h \in Handle : slot'[h].conn # d
          PROVE  Unread(d)'
      <4>1. \A h \in Handle : slot[h].conn # d
        BY <1>0, <2>4, <2>6, <3>3
      <4>2. QED
        BY <1>2, <4>1 DEF IInv, SlotInv, Unread
    <3>4. QED
      BY <3>1, <3>2, <3>3 DEF SlotInv
  <2>8. CallInv' /\ KeptInv'
    <3>1. ASSUME NEW h \in Handle PROVE Len(slot'[h].pend) <= PendMax
      <4>1. CASE h = f
        BY <2>5, <2>6, <4>1 DEF IInv, KeptInv
      <4>2. CASE h # f
        BY <2>4, <4>2 DEF IInv, KeptInv
      <4>3. QED
        BY <4>1, <4>2
    <3>2. QED
      BY <3>1 DEF CallInv, KeptInv
  <2>9. ClosedInv'
    <3>1. ASSUME NEW h \in Handle, slot'[h].kind = "stream", slot'[h].status = "CLOSED"
          PROVE  /\ slot'[h].pend = <<>>
                 /\ \/ net'[slot'[h].conn].eof = "shut"
                    \/ /\ net'[slot'[h].conn].eof = "fin"
                       /\ net'[slot'[h].conn].taken = Len(net'[slot'[h].conn].sent)
      <4>1. h # f
        BY <2>5, <3>1
      <4>2. slot[h].kind = "stream" /\ slot[h].status = "CLOSED" /\ slot[h].conn \in Conn
        BY <1>0, <2>4, <3>1, <4>1
      <4>3. QED
        BY <1>2, <2>4, <4>1, <4>2 DEF IInv, ClosedInv
    <3>2. QED
      BY <3>1 DEF ClosedInv
  <2>10. ASSUME BytesInv PROVE BytesInv'
    <3>1. \A h : InCall(h) = <<>> /\ InCall(h)' = <<>>
      BY DEF InCall
    <3>2. ASSUME NEW h \in Handle, slot'[h].kind = "stream"
          PROVE  InOrder(done'[slot'[h].conn] \o (<<>> \o slot'[h].pend),
                         net'[slot'[h].conn].taken, lost'[slot'[h].conn])
      <4>1. CASE h = f
        <5>1. c \in Conn /\ net[c].taken = 0 /\ done[c] = <<>> /\ lost[c] = {} /\ slot'[h].conn = c
          BY <1>1, <2>5, <3>2, <4>1 DEF IInv, SlotInv, Unread
        <5>2. slot'[h].pend = <<>> /\ done'[c] = <<>> /\ lost'[c] = {} /\ net'[c].taken = 0
          BY <1>2, <2>5, <4>1, <5>1
        <5>3. QED
          BY <5>1, <5>2, NothingInOrder
      <4>2. CASE h # f
        <5>1. slot[h].kind = "stream" /\ slot[h].conn \in Conn
          BY <1>0, <2>4, <3>2, <4>2
        <5>2. QED
          BY <1>2, <2>4, <2>10, <3>1, <4>2, <5>1, ZenonT(60) DEF BytesInv
      <4>3. QED
        BY <4>1, <4>2
    <3>3. QED
      BY <3>1, <3>2 DEF BytesInv
  <2>11. QED
    BY <1>3, <2>7, <2>8, <2>9, <2>10 DEF IInv
<1>6. QED
  BY <1>4, <1>5

\* A read returns.
LEMMA ReturnStep ==
  ASSUME IInv, TypeOK', call # Idle,
         NEW bytes \in Seq(Nat), NEW kept \in Seq(Nat), NEW status \in Status,
         NEW frame \in BOOLEAN, Return(bytes, kept, status, frame),
         Len(kept) <= PendMax,
         \A c \in Conn :
           /\ net'[c].taken = net[c].taken /\ net'[c].sent = net[c].sent
           /\ net'[c].state = net[c].state
           /\ c # Peer \/ status = "CLOSED" => net'[c].eof = net[c].eof,
         status = "CLOSED" =>
           /\ kept = <<>>
           /\ \/ net[Peer].eof = "shut"
              \/ net[Peer].eof = "fin" /\ net[Peer].taken = Len(net[Peer].sent),
         NEW l \in SUBSET Nat, lost' = [lost EXCEPT ![Peer] = l]
  PROVE  /\ IInv'
         /\ BytesInv /\ InOrder(done[Peer] \o (bytes \o kept), net[Peer].taken, l) => BytesInv'
<1> DEFINE g == call.h
           p == Peer
<1>0. g \in Handle /\ slot[g].kind = "stream" /\ p \in Conn /\ p = slot[g].conn
  BY PeerOfCall DEF Peer
<1>1. /\ call' = Idle
      /\ slot'[g].kind = slot[g].kind /\ slot'[g].conn = slot[g].conn
      /\ slot'[g].status = status /\ slot'[g].pend = kept
      /\ \A h \in Handle \ {g} : slot'[h] = slot[h]
  <2>1. slot' = [slot EXCEPT ![g] = [@ EXCEPT !.status = status, !.pend = kept]] /\ call' = Idle
    BY DEF Return
  <2>2. slot[g] \in SlotRec
    BY <1>0 DEF IInv, TypeOK
  <2>3. /\ [slot[g] EXCEPT !.status = status, !.pend = kept].kind = slot[g].kind
        /\ [slot[g] EXCEPT !.status = status, !.pend = kept].conn = slot[g].conn
        /\ [slot[g] EXCEPT !.status = status, !.pend = kept].status = status
        /\ [slot[g] EXCEPT !.status = status, !.pend = kept].pend = kept
    BY <2>2 DEF SlotRec
  <2>4. slot'[g] = [slot[g] EXCEPT !.status = status, !.pend = kept] /\ \A h \in Handle \ {g} : slot'[h] = slot[h]
    BY <1>0, <2>1, ZenonT(60) DEF IInv, TypeOK
  <2>5. QED
    BY <2>1, <2>3, <2>4
<1>2. /\ \A c \in Conn \ {p} : done'[c] = done[c] /\ lost'[c] = lost[c]
      /\ done'[p] = done[p] \o bytes /\ lost'[p] = l
  <2> DEFINE new == done[p] \o bytes
  <2>1. /\ done' = [done EXCEPT ![p] = new] /\ lost' = [lost EXCEPT ![p] = l]
        /\ DOMAIN done = Conn /\ DOMAIN lost = Conn /\ p \in Conn
    <3>1. done' = [done EXCEPT ![p] = new]
      BY ZenonT(60) DEF Return
    <3>2. DOMAIN done = Conn /\ DOMAIN lost = Conn
      BY ZenonT(60) DEF IInv, TypeOK
    <3>3. QED
      BY <1>0, <3>1, <3>2, ZenonT(60)
  <2> HIDE DEF new, p
  <2>2. /\ done'[p] = new /\ lost'[p] = l
        /\ \A c \in Conn \ {p} : done'[c] = done[c] /\ lost'[c] = lost[c]
    BY <2>1
  <2>3. QED
    BY <2>2 DEF new
<1>3. \A h \in Handle \ {g} : slot[h].conn # p /\ (slot[h].kind = "stream" => slot[h].conn \in Conn)
  BY <1>0, Fields DEF IInv, SlotInv
<1>4. p = Peer
  OBVIOUS
<1> HIDE DEF g, p
<1>5. SlotInv'
  <2>1. ASSUME NEW h \in Handle
        PROVE  /\ slot'[h].kind = "stream" <=> slot'[h].conn # NoConn
               /\ slot'[h].kind = "stream" => net'[slot'[h].conn].state = "open"
               /\ slot'[h].kind # "stream" => slot'[h].pend = <<>>
    <3>1. CASE h = g
      BY <1>0, <1>1, <3>1, ZenonT(60) DEF IInv, SlotInv
    <3>2. CASE h # g
      BY <1>1, <1>3, <3>2 DEF IInv, SlotInv
    <3>3. QED
      BY <3>1, <3>2
  <2>2. \A h \in Handle : slot'[h].conn = slot[h].conn /\ slot'[h].kind = slot[h].kind
    BY <1>1
  <2>3. \A h, k \in Handle : slot'[h].kind = "stream" /\ slot'[k].conn = slot'[h].conn => k = h
    BY <2>2 DEF IInv, SlotInv
  <2>4. \A c \in Conn : (\A h \in Handle : slot'[h].conn # c) => Unread(c)'
    <3>1. ASSUME NEW c \in Conn, \A h \in Handle : slot'[h].conn # c
          PROVE  Unread(c)'
      <4>1. \A h \in Handle : slot[h].conn # c
        BY <2>2, <3>1
      <4>2. c # p /\ Unread(c)
        BY <1>0, <4>1 DEF IInv, SlotInv
      <4>3. QED
        BY <1>2, <4>2 DEF Unread
    <3>2. QED
      BY <3>1
  <2>5. QED
    BY <2>1, <2>3, <2>4 DEF SlotInv
<1>6. CallInv' /\ KeptInv'
  <2>1. ASSUME NEW h \in Handle PROVE Len(slot'[h].pend) <= PendMax
    <3>1. CASE h = g
      BY <1>1, <3>1
    <3>2. CASE h # g
      BY <1>1, <3>2 DEF IInv, KeptInv
    <3>3. QED
      BY <3>1, <3>2
  <2>2. QED
    BY <1>1, <2>1 DEF CallInv, KeptInv
<1>7. ClosedInv'
  <2>1. ASSUME NEW h \in Handle, slot'[h].kind = "stream", slot'[h].status = "CLOSED"
        PROVE  /\ slot'[h].pend = <<>>
               /\ \/ net'[slot'[h].conn].eof = "shut"
                  \/ /\ net'[slot'[h].conn].eof = "fin"
                     /\ net'[slot'[h].conn].taken = Len(net'[slot'[h].conn].sent)
    <3>1. CASE h = g
      BY <1>0, <1>1, <1>4, <2>1, <3>1
    <3>2. CASE h # g
      <4>1. slot[h].conn \in Conn /\ slot[h].conn # Peer /\ slot'[h] = slot[h]
        BY <1>1, <1>3, <1>4, <2>1, <3>2
      <4>2. QED
        BY <2>1, <4>1, SMTT(60) DEF IInv, ClosedInv
    <3>3. QED
      BY <3>1, <3>2
  <2>2. QED
    BY <2>1 DEF ClosedInv
<1>8. ASSUME BytesInv, InOrder(done[p] \o (bytes \o kept), net[p].taken, l)
      PROVE  BytesInv'
  <2>1. \A h : InCall(h)' = <<>>
    BY <1>1 DEF InCall
  <2>2. \A h \in Handle \ {g} : InCall(h) = <<>>
    BY DEF InCall, g
  <2>3. ASSUME NEW h \in Handle, slot'[h].kind = "stream"
        PROVE  InOrder(done'[slot'[h].conn] \o (<<>> \o slot'[h].pend),
                       net'[slot'[h].conn].taken, lost'[slot'[h].conn])
    <3>1. CASE h = g
      <4>1. slot'[h].conn = p /\ slot'[h].pend = kept /\ net'[p].taken = net[p].taken
        BY <1>0, <1>1, <3>1
      <4>2. done[p] \in Seq(Nat)
        BY <1>0, Fields DEF IInv
      <4>3. (done[p] \o bytes) \o (<<>> \o kept) = done[p] \o (bytes \o kept)
        BY <4>2, Handed
      <4>4. QED
        BY <1>2, <1>8, <4>1, <4>3
    <3>2. CASE h # g
      <4>1. slot[h].conn \in Conn \ {p} /\ slot'[h] = slot[h] /\ slot[h].kind = "stream"
        BY <1>1, <1>3, <2>3, <3>2
      <4>2. /\ done'[slot[h].conn] = done[slot[h].conn] /\ lost'[slot[h].conn] = lost[slot[h].conn]
            /\ net'[slot[h].conn].taken = net[slot[h].conn].taken
        BY <1>2, <4>1
      <4>3. QED
        BY <1>8, <2>2, <3>2, <4>1, <4>2 DEF BytesInv
    <3>3. QED
      BY <3>1, <3>2
  <2>4. QED
    BY <2>1, <2>3 DEF BytesInv
<1>9. QED
  BY <1>4, <1>5, <1>6, <1>7, <1>8 DEF IInv

-------------------------------------------------------------------------------
(* The actions.                                                                *)

\* One entry of a table changed in one field.
LEMMA SlotField ==
  ASSUME TypeOK, NEW h \in Handle
  PROVE  /\ \A status \in Status :
              /\ SetStatus(h, status) \in [Handle -> SlotRec]
              /\ SetStatus(h, status)[h].status = status
              /\ \A k \in Handle :
                   /\ SetStatus(h, status)[k].kind = slot[k].kind
                   /\ SetStatus(h, status)[k].conn = slot[k].conn
                   /\ SetStatus(h, status)[k].pend = slot[k].pend
                   /\ k # h => SetStatus(h, status)[k] = slot[k]
         /\ \A impatient \in BOOLEAN :
              /\ [slot EXCEPT ![h].impatient = impatient] \in [Handle -> SlotRec]
              /\ \A k \in Handle :
                   /\ [slot EXCEPT ![h].impatient = impatient][k].kind = slot[k].kind
                   /\ [slot EXCEPT ![h].impatient = impatient][k].conn = slot[k].conn
                   /\ [slot EXCEPT ![h].impatient = impatient][k].pend = slot[k].pend
                   /\ [slot EXCEPT ![h].impatient = impatient][k].status = slot[k].status
<1>1. slot \in [Handle -> SlotRec] /\ slot[h] \in SlotRec
  BY DEF TypeOK
<1>2. ASSUME NEW status \in Status
      PROVE  /\ SetStatus(h, status) \in [Handle -> SlotRec]
             /\ SetStatus(h, status)[h].status = status
             /\ \A k \in Handle :
                  /\ SetStatus(h, status)[k].kind = slot[k].kind
                  /\ SetStatus(h, status)[k].conn = slot[k].conn
                  /\ SetStatus(h, status)[k].pend = slot[k].pend
                  /\ k # h => SetStatus(h, status)[k] = slot[k]
  <2> DEFINE r == [slot[h] EXCEPT !.status = status]
  <2>1. r \in SlotRec /\ r.kind = slot[h].kind /\ r.conn = slot[h].conn
        /\ r.pend = slot[h].pend /\ r.status = status
    BY <1>1 DEF SlotRec
  <2>2. SetStatus(h, status) = [slot EXCEPT ![h] = r]
    BY DEF SetStatus
  <2> HIDE DEF r
  <2>3. QED
    BY <1>1, <2>1, <2>2
<1>3. ASSUME NEW impatient \in BOOLEAN
      PROVE  /\ [slot EXCEPT ![h].impatient = impatient] \in [Handle -> SlotRec]
             /\ \A k \in Handle :
                  /\ [slot EXCEPT ![h].impatient = impatient][k].kind = slot[k].kind
                  /\ [slot EXCEPT ![h].impatient = impatient][k].conn = slot[k].conn
                  /\ [slot EXCEPT ![h].impatient = impatient][k].pend = slot[k].pend
                  /\ [slot EXCEPT ![h].impatient = impatient][k].status = slot[k].status
  <2> DEFINE r == [slot[h] EXCEPT !.impatient = impatient]
  <2>1. r \in SlotRec /\ r.kind = slot[h].kind /\ r.conn = slot[h].conn
        /\ r.pend = slot[h].pend /\ r.status = slot[h].status
    BY <1>1 DEF SlotRec
  <2>2. [slot EXCEPT ![h].impatient = impatient] = [slot EXCEPT ![h] = r]
    OBVIOUS
  <2> HIDE DEF r
  <2>3. QED
    BY <1>1, <2>1, <2>2
<1>4. QED
  BY <1>2, <1>3

LEMMA NetField ==
  ASSUME TypeOK, NEW c \in Conn, NEW r \in NetRec
  PROVE  /\ [net EXCEPT ![c] = r] \in [Conn -> NetRec]
         /\ [net EXCEPT ![c] = r][c] = r
         /\ \A d \in Conn \ {c} : [net EXCEPT ![c] = r][d] = net[d]
BY DEF TypeOK

\* The peers.
LEMMA PeersStep ==
  ASSUME IInv, Peers
  PROVE  IInv' /\ (BytesInv => BytesInv')
<1>1. PICK c \in Conn :
        \/ PeerConnects(c)
        \/ \E mark \in BOOLEAN : PeerWrites(c, mark)
        \/ \E how \in {"fin", "reset"} : PeerEnds(c, how)
  BY DEF Peers
<1>2. UNCHANGED <<slot, call, done, lost, frames>>
  BY <1>1 DEF PeerConnects, PeerWrites, PeerEnds
<1>3. net[c] \in NetRec
  BY DEF IInv, TypeOK
<1>4. PICK r \in NetRec :
        /\ net' = [net EXCEPT ![c] = r]
        /\ r.taken = net[c].taken
        /\ net[c].state = "open" => r.state = "open"
        /\ net[c].eof \in {"fin", "shut"} => r.eof = net[c].eof
        /\ net[c].eof = "fin" => r.sent = net[c].sent
  <2>1. CASE PeerConnects(c)
    <3>1. PICK l \in Handle : net' = [net EXCEPT ![c].state = "backlog", ![c].at = l]
      BY <2>1 DEF PeerConnects
    <3> DEFINE r == [net[c] EXCEPT !.state = "backlog", !.at = l]
    <3>2. r \in NetRec /\ r.taken = net[c].taken /\ r.eof = net[c].eof /\ r.sent = net[c].sent
      BY <1>3, <3>1 DEF NetRec
    <3>3. net' = [net EXCEPT ![c] = r] /\ net[c].state # "open"
      BY <2>1, <3>1, ZenonT(60) DEF PeerConnects
    <3> HIDE DEF r
    <3>4. QED
      BY <3>2, <3>3
  <2>2. ASSUME NEW mark \in BOOLEAN, PeerWrites(c, mark)
        PROVE  \E r \in NetRec :
                 /\ net' = [net EXCEPT ![c] = r]
                 /\ r.taken = net[c].taken
                 /\ net[c].state = "open" => r.state = "open"
                 /\ net[c].eof \in {"fin", "shut"} => r.eof = net[c].eof
                 /\ net[c].eof = "fin" => r.sent = net[c].sent
    <3> DEFINE s == Append(net[c].sent, mark)
               r == [net[c] EXCEPT !.sent = s]
    <3>1. s \in Seq(BOOLEAN)
      BY <1>3 DEF NetRec
    <3>2. net' = [net EXCEPT ![c] = r] /\ net[c].eof # "fin"
      BY <2>2 DEF PeerWrites
    <3> HIDE DEF s
    <3>3. r \in NetRec /\ r.taken = net[c].taken /\ r.eof = net[c].eof /\ r.state = net[c].state
      BY <1>3, <3>1 DEF NetRec
    <3> HIDE DEF r
    <3>4. QED
      BY <3>2, <3>3
  <2>3. ASSUME NEW how \in {"fin", "reset"}, PeerEnds(c, how)
        PROVE  \E r \in NetRec :
                 /\ net' = [net EXCEPT ![c] = r]
                 /\ r.taken = net[c].taken
                 /\ net[c].state = "open" => r.state = "open"
                 /\ net[c].eof \in {"fin", "shut"} => r.eof = net[c].eof
                 /\ net[c].eof = "fin" => r.sent = net[c].sent
    <3> DEFINE r == [net[c] EXCEPT !.eof = how]
    <3>1. r \in NetRec /\ r.taken = net[c].taken /\ r.state = net[c].state /\ r.sent = net[c].sent
      BY <1>3 DEF NetRec
    <3>2. net' = [net EXCEPT ![c] = r] /\ net[c].eof = "no"
      BY <2>3 DEF PeerEnds
    <3> HIDE DEF r
    <3>3. QED
      BY <3>1, <3>2
  <2>4. QED
    BY <1>1, <2>1, <2>2, <2>3
<1>5. TypeOK'
  BY <1>2, <1>4, NetField DEF IInv, TypeOK
<1>6. QED
  BY <1>2, <1>4, <1>5, NetField, QuietStep DEF IInv

\* The network after a connection was made.
LEMMA OpenedNet ==
  ASSUME TypeOK, NEW c \in Conn
  PROVE  /\ [net EXCEPT ![c].state = "open"] \in [Conn -> NetRec]
         /\ \A d \in Conn :
              /\ [net EXCEPT ![c].state = "open"][d].taken = net[d].taken
              /\ [net EXCEPT ![c].state = "open"][d].eof = net[d].eof
              /\ [net EXCEPT ![c].state = "open"][d].sent = net[d].sent
              /\ [net EXCEPT ![c].state = "open"][d].state = IF d = c THEN "open" ELSE net[d].state
<1> DEFINE r == [net[c] EXCEPT !.state = "open"]
<1>1. /\ r \in NetRec /\ r.taken = net[c].taken /\ r.eof = net[c].eof /\ r.sent = net[c].sent
      /\ r.state = "open"
  BY ZenonT(60) DEF TypeOK, NetRec
<1>2. [net EXCEPT ![c].state = "open"] = [net EXCEPT ![c] = r]
  OBVIOUS
<1> HIDE DEF r
<1>3. QED
  BY <1>1, <1>2 DEF TypeOK

LEMMA BindStep ==
  ASSUME IInv, NEW kind \in {"listener", "udp"}, Bind(kind)
  PROVE  IInv' /\ (BytesInv => BytesInv')
<1>1. call = Idle /\ AllocSlot(slot, net, kind, NoConn) /\ UNCHANGED <<call, done, lost, frames>>
  BY DEF Bind
<1>2. slot \in [Handle -> SlotRec] /\ net \in [Conn -> NetRec]
  BY DEF IInv, TypeOK
<1>3. kind \in {"listener", "udp", "stream"} /\ kind # "stream" /\ NoConn \in Conn \cup {NoConn}
  OBVIOUS
<1>4. \A d \in Conn : net[d].state = IF d = NoConn THEN "open" ELSE net[d].state
  BY EmptyRecords
<1>5. QED
  BY <1>1, <1>2, <1>3, <1>4, AllocStep

\* The table and the network after a connection was made, by either side.
LEMMA StreamStep ==
  ASSUME IInv, NEW c \in Conn, net[c].state \in {"none", "backlog"}, call = Idle,
         NEW s \in [Handle -> SlotRec],
         \A h \in Handle :
           /\ s[h].kind = slot[h].kind /\ s[h].conn = slot[h].conn
           /\ s[h].pend = slot[h].pend
           /\ s[h].status = "CLOSED" => slot[h].status = "CLOSED",
         AllocSlot(s, [net EXCEPT ![c].state = "open"], "stream", c),
         UNCHANGED <<call, done, lost, frames>>
  PROVE  IInv' /\ (BytesInv => BytesInv')
<1> DEFINE n == [net EXCEPT ![c].state = "open"]
<1>1. /\ n \in [Conn -> NetRec]
      /\ \A d \in Conn :
           /\ n[d].taken = net[d].taken /\ n[d].eof = net[d].eof /\ n[d].sent = net[d].sent
           /\ n[d].state = IF d = c THEN "open" ELSE net[d].state
  BY OpenedNet DEF IInv
<1>2. AllocSlot(s, n, "stream", c)
  OBVIOUS
<1>3. "stream" \in {"listener", "udp", "stream"} /\ c \in Conn \cup {NoConn} /\ c # NoConn
  BY EmptyRecords
<1> HIDE DEF n
<1>4. QED
  BY <1>1, <1>2, <1>3, AllocStep, ZenonT(60)

LEMMA ConnectStep ==
  ASSUME IInv, NEW c \in Conn, Connect(c)
  PROVE  IInv' /\ (BytesInv => BytesInv')
BY StreamStep DEF IInv, TypeOK, Connect

LEMMA AcceptStep ==
  ASSUME IInv, NEW l \in Handle, NEW c \in Conn, Accept(l, c)
  PROVE  IInv' /\ (BytesInv => BytesInv')
<1> DEFINE status == IF Vacant = {} THEN "ERROR" ELSE "OK"
           s == SetStatus(l, status)
<1>1. status \in Status /\ status # "CLOSED"
  BY DEF Status
<1>2. /\ call = Idle /\ net[c].state = "backlog" /\ UNCHANGED <<call, done, lost, frames>>
      /\ AllocSlot(s, [net EXCEPT ![c].state = "open"], "stream", c)
  BY DEF Accept
<1> HIDE DEF status
<1>3. /\ s \in [Handle -> SlotRec] /\ s[l].status = status
      /\ \A h \in Handle :
           /\ s[h].kind = slot[h].kind /\ s[h].conn = slot[h].conn /\ s[h].pend = slot[h].pend
           /\ h # l => s[h] = slot[h]
  BY <1>1, SlotField DEF IInv
<1> HIDE DEF s
<1>4. QED
  BY <1>1, <1>2, <1>3, StreamStep, ZenonT(60)

\* accept found nothing, a send, a read of a listener.
LEMMA StatusStep ==
  ASSUME IInv, NEW h \in Handle, NEW status \in Status \ {"CLOSED"},
         slot' = SetStatus(h, status), UNCHANGED <<net, call, done, lost, frames>>
  PROVE  IInv' /\ (BytesInv => BytesInv')
<1> DEFINE s == SetStatus(h, status)
<1>1. /\ s \in [Handle -> SlotRec] /\ s[h].status = status
      /\ \A k \in Handle :
           /\ s[k].kind = slot[k].kind /\ s[k].conn = slot[k].conn /\ s[k].pend = slot[k].pend
           /\ k # h => s[k] = slot[k]
  BY SlotField DEF IInv
<1>2. slot' = s
  OBVIOUS
<1> HIDE DEF s
<1>3. TypeOK'
  BY <1>1, <1>2 DEF IInv, TypeOK
<1>4. QED
  BY <1>1, <1>2, <1>3, QuietStep

LEMMA SetOptionStep ==
  ASSUME IInv, NEW h \in Handle, NEW impatient \in BOOLEAN, SetOption(h, impatient)
  PROVE  IInv' /\ (BytesInv => BytesInv')
<1> DEFINE s == [slot EXCEPT ![h].impatient = impatient]
<1>1. /\ s \in [Handle -> SlotRec]
      /\ \A k \in Handle :
           /\ s[k].kind = slot[k].kind /\ s[k].conn = slot[k].conn
           /\ s[k].pend = slot[k].pend /\ s[k].status = slot[k].status
  BY SlotField DEF IInv
<1>2. slot' = s /\ UNCHANGED <<net, call, done, lost, frames>>
  BY DEF SetOption
<1> HIDE DEF s
<1>3. TypeOK'
  BY <1>1, <1>2 DEF IInv, TypeOK
<1>4. QED
  BY <1>1, <1>2, <1>3, QuietStep

LEMMA ShutdownStep ==
  ASSUME IInv, NEW h \in Handle, Shutdown(h)
  PROVE  IInv' /\ (BytesInv => BytesInv')
<1> DEFINE c == slot[h].conn
           r == [net[c] EXCEPT !.eof = "shut"]
<1>1. c \in Conn /\ net[c] \in NetRec
  BY Fields DEF Shutdown, IInv, SlotInv, TypeOK
<1>2. net' = [net EXCEPT ![c] = r] /\ net[c].eof = "no" /\ UNCHANGED <<slot, call, done, lost, frames>>
  BY DEF Shutdown
<1> HIDE DEF c
<1>3. r \in NetRec /\ r.taken = net[c].taken /\ r.state = net[c].state /\ r.sent = net[c].sent
  BY <1>1 DEF NetRec
<1> HIDE DEF r
<1>4. TypeOK'
  BY <1>1, <1>2, <1>3, NetField DEF IInv, TypeOK
<1>5. QED
  BY <1>1, <1>2, <1>3, <1>4, NetField, QuietStep DEF IInv

\* What is closed is nobody's, and nothing of it was ever taken.
LEMMA CloseStep ==
  ASSUME IInv, NEW h \in Handle, Close(h)
  PROVE  IInv' /\ (BytesInv => BytesInv')
<1> DEFINE ended == {c \in Conn : \/ c = slot[h].conn
                                  \/ net[c].state = "backlog" /\ net[c].at = h}
           over == [Untouched EXCEPT !.state = "closed"]
<1>1. /\ call = Idle /\ call' = Idle /\ slot' = [slot EXCEPT ![h] = Free]
      /\ net' = [c \in Conn |-> IF c \in ended THEN over ELSE net[c]]
      /\ done' = [c \in Conn |-> IF c \in ended THEN <<>> ELSE done[c]]
      /\ lost' = [c \in Conn |-> IF c \in ended THEN {} ELSE lost[c]]
      /\ frames' = [c \in Conn |-> IF c \in ended THEN NoFrames ELSE frames[c]]
  BY DEF Close
<1>2. over \in NetRec /\ over.taken = 0
  BY EmptyRecords DEF NetRec, Untouched
<1> HIDE DEF over
<1>3. TypeOK'
  <2>1. slot' \in [Handle -> SlotRec] /\ net' \in [Conn -> NetRec] /\ call' \in CallRec
    BY <1>1, <1>2, EmptyRecords DEF IInv, TypeOK
  <2>2. /\ done' \in [Conn -> Seq(Nat)] /\ lost' \in [Conn -> SUBSET Nat]
        /\ frames' \in [Conn -> [whole : BOOLEAN, ends : SUBSET Nat]]
    BY <1>1, EmptyRecords, EmptySeq DEF IInv, TypeOK
  <2>3. QED
    BY <2>1, <2>2 DEF TypeOK
<1>4. /\ slot'[h].kind = "free" /\ slot'[h].conn = NoConn /\ slot'[h].pend = <<>>
      /\ \A k \in Handle \ {h} : slot'[k] = slot[k]
  BY <1>1 DEF IInv, TypeOK, Free
<1>5. NoConn \notin Conn /\ \A k \in Handle : slot[k].kind = "stream" => slot[k].conn \in Conn
  BY Fields, EmptyRecords DEF IInv, SlotInv
<1>6. \A k \in Handle \ {h} : slot[k].kind = "stream" =>
         /\ slot[k].conn \notin ended
         /\ net'[slot[k].conn] = net[slot[k].conn] /\ done'[slot[k].conn] = done[slot[k].conn]
         /\ lost'[slot[k].conn] = lost[slot[k].conn]
  <2>1. ASSUME NEW k \in Handle \ {h}, slot[k].kind = "stream" PROVE slot[k].conn \notin ended
    BY <2>1 DEF IInv, SlotInv
  <2>2. QED
    BY <1>1, <1>5, <2>1
<1>7. SlotInv'
  <2>1. ASSUME NEW k \in Handle
        PROVE  /\ slot'[k].kind = "stream" <=> slot'[k].conn # NoConn
               /\ slot'[k].kind = "stream" => net'[slot'[k].conn].state = "open"
               /\ slot'[k].kind # "stream" => slot'[k].pend = <<>>
    <3>1. CASE k = h
      BY <1>4, <3>1
    <3>2. CASE k # h
      BY <1>4, <1>6, <3>2 DEF IInv, SlotInv
    <3>3. QED
      BY <3>1, <3>2
  <2>2. \A k, m \in Handle : slot'[k].kind = "stream" /\ slot'[m].conn = slot'[k].conn => m = k
    <3>1. ASSUME NEW k \in Handle, NEW m \in Handle, slot'[k].kind = "stream",
                 slot'[m].conn = slot'[k].conn
          PROVE  m = k
      <4>1. k # h /\ slot[k].kind = "stream" /\ slot'[k].conn = slot[k].conn /\ slot[k].conn # NoConn
        BY <1>4, <1>5, <3>1
      <4>2. m # h /\ slot[m].conn = slot[k].conn
        BY <1>4, <3>1, <4>1
      <4>3. QED
        BY <4>1, <4>2 DEF IInv, SlotInv
    <3>2. QED
      BY <3>1
  <2>3. \A c \in Conn : (\A k \in Handle : slot'[k].conn # c) => Unread(c)'
    <3>1. ASSUME NEW c \in Conn, \A k \in Handle : slot'[k].conn # c
          PROVE  Unread(c)'
      <4>1. CASE c \in ended
        BY <1>1, <1>2, <4>1 DEF Unread
      <4>2. CASE c \notin ended
        <5>1. \A k \in Handle : slot[k].conn # c
          BY <1>4, <3>1, <4>2
        <5>2. Unread(c)
          BY <5>1 DEF IInv, SlotInv
        <5>3. QED
          BY <1>1, <4>2, <5>2 DEF Unread
      <4>3. QED
        BY <4>1, <4>2
    <3>2. QED
      BY <3>1
  <2>4. QED
    BY <2>1, <2>2, <2>3 DEF SlotInv
<1>8. CallInv' /\ KeptInv'
  <2>1. ASSUME NEW k \in Handle PROVE Len(slot'[k].pend) <= PendMax
    <3>1. CASE k = h
      BY <1>4, <3>1, SocketsAssumption
    <3>2. CASE k # h
      BY <1>4, <3>2 DEF IInv, KeptInv
    <3>3. QED
      BY <3>1, <3>2
  <2>2. QED
    BY <1>1, <2>1 DEF CallInv, KeptInv
<1>9. ClosedInv'
  <2>1. ASSUME NEW k \in Handle, slot'[k].kind = "stream", slot'[k].status = "CLOSED"
        PROVE  /\ slot'[k].pend = <<>>
               /\ \/ net'[slot'[k].conn].eof = "shut"
                  \/ /\ net'[slot'[k].conn].eof = "fin"
                     /\ net'[slot'[k].conn].taken = Len(net'[slot'[k].conn].sent)
    <3>1. k # h /\ slot'[k] = slot[k]
      BY <1>4, <2>1
    <3>2. net'[slot[k].conn] = net[slot[k].conn]
      BY <1>6, <2>1, <3>1
    <3>3. QED
      BY <2>1, <3>1, <3>2 DEF IInv, ClosedInv
  <2>2. QED
    BY <2>1 DEF ClosedInv
<1>10. ASSUME BytesInv PROVE BytesInv'
  <2>1. \A k : InCall(k) = <<>> /\ InCall(k)' = <<>>
    BY <1>1 DEF InCall
  <2>2. \A k \in Handle : slot'[k].kind = "stream" =>
           /\ k # h /\ slot'[k] = slot[k]
           /\ net'[slot[k].conn] = net[slot[k].conn] /\ done'[slot[k].conn] = done[slot[k].conn]
           /\ lost'[slot[k].conn] = lost[slot[k].conn]
    BY <1>4, <1>6
  <2>3. QED
    BY <1>10, <2>1, <2>2 DEF BytesInv
<1>11. QED
  BY <1>3, <1>7, <1>8, <1>9, <1>10 DEF IInv

\* Nothing is in the hands of a call that begins.
LEMMA BeginStep ==
  ASSUME IInv, NEW op \in {"recv", "until", "exact"}, NEW h \in Handle,
         NEW size \in Sizes(op), Begin(op, h, size)
  PROVE  IInv' /\ (BytesInv => BytesInv')
<1>1. /\ call = Idle /\ slot[h].kind = "stream" /\ UNCHANGED <<slot, net, done, lost, frames>>
      /\ call' = [op |-> op, h |-> h, want |-> size, buf |-> <<>>, phase |-> "read"]
  BY DEF Begin, Idle
<1>2. size \in Nat \ {0}
  BY SizesAreNumbers
<1>3. call' \in CallRec
  BY <1>1, <1>2 DEF CallRec
<1>4. TypeOK'
  BY <1>1, <1>3 DEF IInv, TypeOK
<1>5. SlotInv' /\ ClosedInv'
  BY <1>1 DEF IInv, SlotInv, ClosedInv, Unread
<1>6. CallInv' /\ KeptInv'
  BY <1>1, <1>2 DEF IInv, CallInv, KeptInv
<1>7. \A k : InCall(k) = <<>> /\ InCall(k)' = <<>>
  BY <1>1 DEF InCall
<1>8. BytesInv => BytesInv'
  BY <1>1, <1>7 DEF BytesInv
<1>9. QED
  BY <1>4, <1>5, <1>6, <1>8 DEF IInv

\* The rest of what was kept still comes next.
LEMMA TakeKeptStep ==
  ASSUME IInv, TakeKept
  PROVE  IInv' /\ (BytesInv => BytesInv')
<1>0. PICK g \in Handle : g = call.h
  BY Fields DEF IInv
<1> DEFINE n == AtMost(Len(Pend), Missing)
           head == SubSeq(Pend, 1, n)
           rest == SubSeq(Pend, n + 1, Len(Pend))
           buf == call.buf
<1>1. call # Idle /\ Pend # <<>> /\ UNCHANGED <<net, done, lost, frames>>
  BY DEF TakeKept, Reading
<1>2. /\ slot[g].kind = "stream" /\ Pend \in Seq(Nat) /\ Len(Pend) \in Nat
      /\ buf \in Seq(Nat) /\ Len(buf) \in Nat /\ call.want \in Nat /\ Len(buf) <= call.want
      /\ Pend = slot[g].pend
  BY <1>0, <1>1, PeerOfCall DEF Pend
<1>3. /\ n \in 0 .. Len(Pend) /\ n <= call.want - Len(buf) /\ n \in Nat
      /\ n = Len(Pend) \/ n = call.want - Len(buf)
  BY <1>2, SMTT(60) DEF AtMost, Missing
<1>5. call' = [call EXCEPT !.buf = buf \o head, !.phase = "look"]
      /\ slot' = [slot EXCEPT ![g] = [@ EXCEPT !.pend = rest]]
  BY <1>0, <1>2 DEF TakeKept
<1> HIDE DEF n
<1>4. /\ head \in Seq(Nat) /\ Len(head) = n /\ rest \in Seq(Nat) /\ Len(rest) = Len(Pend) - n
      /\ buf \o head \in Seq(Nat) /\ Len(buf \o head) = Len(buf) + n
  <2>1. /\ head \in Seq(Nat) /\ Len(head) = n /\ rest \in Seq(Nat) /\ Len(rest) = Len(Pend) - n
    BY <1>2, <1>3, Cut, ZenonT(60)
  <2> HIDE DEF head, rest
  <2>2. buf \o head \in Seq(Nat) /\ Len(buf \o head) = Len(buf) + Len(head)
    BY <1>2, <2>1, Join
  <2>3. QED
    BY <2>1, <2>2
<1> DEFINE joined == buf \o head
<1>a. joined \in Seq(Nat) /\ Len(joined) = Len(buf) + n /\ call' = [call EXCEPT !.buf = joined, !.phase = "look"]
  BY <1>4, <1>5 DEF n
<1>b. \A d \in Seq(Nat) : d \o (joined \o rest) = d \o (buf \o Pend)
  BY <1>2, <1>3, Moved, ZenonT(60)
<1> HIDE DEF joined, head, rest
<1>6. /\ call' \in CallRec /\ call'.h = g /\ call'.buf = joined /\ call'.op = call.op
      /\ call'.want = call.want /\ call'.phase = "look"
  BY <1>0, <1>a DEF IInv, TypeOK, CallRec
<1>7. /\ slot' \in [Handle -> SlotRec] /\ slot'[g].kind = slot[g].kind
      /\ slot'[g].conn = slot[g].conn /\ slot'[g].status = slot[g].status /\ slot'[g].pend = rest
      /\ \A k \in Handle \ {g} : slot'[k] = slot[k]
  <2> DEFINE r == [slot[g] EXCEPT !.pend = rest]
  <2>1. /\ r \in SlotRec /\ r.kind = slot[g].kind /\ r.conn = slot[g].conn
        /\ r.status = slot[g].status /\ r.pend = rest
    BY <1>2, <1>4, ZenonT(60) DEF IInv, TypeOK, SlotRec
  <2>2. slot' = [slot EXCEPT ![g] = r]
    BY <1>5
  <2> HIDE DEF r
  <2>3. QED
    BY <1>2, <2>1, <2>2 DEF IInv, TypeOK
<1>8. call' # Idle /\ call.op # "none"
  BY <1>1, <1>6 DEF IInv, CallInv, Idle
<1>9. n = Len(Pend) => rest = <<>>
  BY <1>2, <1>4
<1>10. Pend = slot[g].pend /\ call.h = g
  BY <1>0, <1>2
<1>11. TypeOK'
  BY <1>1, <1>6, <1>7 DEF IInv, TypeOK
<1>12. \A k \in Handle : slot'[k].kind = slot[k].kind /\ slot'[k].conn = slot[k].conn
                          /\ slot'[k].status = slot[k].status
  BY <1>7
<1>13. SlotInv'
  <2>1. ASSUME NEW k \in Handle
        PROVE  /\ slot'[k].kind = "stream" <=> slot'[k].conn # NoConn
               /\ slot'[k].kind = "stream" => net'[slot'[k].conn].state = "open"
               /\ slot'[k].kind # "stream" => slot'[k].pend = <<>>
    <3>1. slot'[k].kind # "stream" => k # g
      BY <1>2, <1>7
    <3>2. QED
      BY <1>1, <1>7, <1>12, <3>1 DEF IInv, SlotInv
  <2>2. /\ \A k, m \in Handle : slot'[k].kind = "stream" /\ slot'[m].conn = slot'[k].conn => m = k
        /\ \A c \in Conn : (\A k \in Handle : slot'[k].conn # c) => Unread(c)'
    BY <1>1, <1>12 DEF IInv, SlotInv, Unread
  <2>3. QED
    BY <2>1, <2>2 DEF SlotInv
<1>14. CallInv'
  <2>1. Len(joined) <= call.want
    BY <1>2, <1>3, <1>a
  <2>2. QED
    BY <1>1, <1>2, <1>6, <1>8, <1>12, <2>1 DEF IInv, CallInv
<1>15. KeptInv'
  <2>1. ASSUME NEW k \in Handle PROVE Len(slot'[k].pend) <= PendMax
    <3>1. CASE k = g
      <4>1. Len(Pend) <= PendMax
        BY <1>2, <1>10 DEF IInv, KeptInv
      <4>2. QED
        BY <1>2, <1>3, <1>4, <1>7, <3>1, <4>1, SocketsAssumption, SMTT(60)
    <3>2. CASE k # g
      BY <1>7, <3>2 DEF IInv, KeptInv
    <3>3. QED
      BY <3>1, <3>2
  <2>2. QED
    BY <2>1 DEF KeptInv
<1>16. ClosedInv'
  <2>1. slot[g].status = "CLOSED" => FALSE
    BY <1>1, <1>2, <1>10 DEF IInv, ClosedInv
  <2>2. QED
    BY <1>1, <1>7, <2>1 DEF IInv, ClosedInv
<1>17. ASSUME BytesInv PROVE BytesInv'
  <2>1. /\ InCall(g) = buf /\ InCall(g)' = joined
        /\ \A k \in Handle \ {g} : InCall(k) = <<>> /\ InCall(k)' = <<>>
    BY <1>1, <1>6, <1>8, <1>10 DEF InCall
  <2>2. ASSUME NEW k \in Handle, slot'[k].kind = "stream"
        PROVE  InOrder(done'[slot'[k].conn] \o (InCall(k)' \o slot'[k].pend),
                       net'[slot'[k].conn].taken, lost'[slot'[k].conn])
    <3>1. CASE k = g
      <4>1. slot[g].conn \in Conn /\ done[slot[g].conn] \in Seq(Nat)
        BY <1>2, Fields DEF IInv, SlotInv
      <4>2. InOrder(done[slot[g].conn] \o (buf \o Pend), net[slot[g].conn].taken, lost[slot[g].conn])
        BY <1>2, <1>17, <2>1 DEF BytesInv
      <4>3. done[slot[g].conn] \o (joined \o rest) = done[slot[g].conn] \o (buf \o Pend)
        BY <1>b, <4>1
      <4>4. /\ slot'[g].conn = slot[g].conn /\ slot'[g].pend = rest /\ InCall(g)' = joined
            /\ done' = done /\ net' = net /\ lost' = lost
        BY <1>1, <1>7, <2>1
      <4>5. QED
        BY <3>1, <4>2, <4>3, <4>4
    <3>2. CASE k # g
      BY <1>1, <1>7, <1>17, <2>1, <2>2, <3>2 DEF BytesInv
    <3>3. QED
      BY <3>1, <3>2
  <2>3. QED
    BY <2>2 DEF BytesInv
<1>18. QED
  BY <1>11, <1>13, <1>14, <1>15, <1>16, <1>17 DEF IInv

\* What has arrived is read when nothing was kept: it comes next.
LEMMA TakeArrivedStep ==
  ASSUME IInv, TakeArrived
  PROVE  IInv' /\ (BytesInv => BytesInv')
<1>0. PICK g \in Handle : g = call.h
  BY Fields DEF IInv
<1>1. PICK p \in Conn : p = slot[g].conn
  BY <1>0, PeerOfCall DEF TakeArrived, Reading, Peer
<1> DEFINE n == AtMost(Arrived, Missing)
           new == After(net[p].taken, n)
           joined == call.buf \o new
<1>2. /\ call # Idle /\ slot[g].kind = "stream" /\ slot[g].pend = <<>> /\ Peer = p /\ Pend = slot[g].pend
      /\ call.buf \in Seq(Nat) /\ Len(call.buf) \in Nat /\ call.want \in Nat /\ Len(call.buf) <= call.want
      /\ net[p].taken \in Nat /\ Len(net[p].sent) \in Nat /\ UNCHANGED <<slot, done, lost, frames>>
  BY <1>0, <1>1, PeerOfCall DEF TakeArrived, Reading, Pend, Peer
<1>3. n \in Nat /\ Len(call.buf) + n <= call.want /\ Arrived > 0 /\ Arrived = Len(net[p].sent) - net[p].taken
  <2>1. Missing \in Nat /\ Missing = call.want - Len(call.buf)
    BY <1>2 DEF Missing
  <2>2. Arrived = Len(net[p].sent) - net[p].taken
    BY <1>2 DEF Arrived
  <2>3. Arrived \in Nat /\ Arrived > 0
    BY <1>2, <2>2 DEF TakeArrived
  <2>4. n \in Nat /\ n <= Missing
    BY <2>1, <2>3 DEF AtMost
  <2>5. QED
    BY <1>2, <2>1, <2>2, <2>3, <2>4
<1>4. /\ call' = [call EXCEPT !.buf = joined, !.phase = "look"]
      /\ net' = [net EXCEPT ![p] = [@ EXCEPT !.taken = net[p].taken + n]]
  <2> DEFINE m == net[p].taken + n
  <2>1. call' = [call EXCEPT !.buf = @ \o After(net[Peer].taken, n), !.phase = "look"]
    BY DEF TakeArrived
  <2>2. net' = [net EXCEPT ![Peer].taken = @ + n]
    BY DEF TakeArrived
  <2>3. Peer = p
    BY <1>2
  <2> HIDE DEF n
  <2>4. call' = [call EXCEPT !.buf = joined, !.phase = "look"]
    BY <2>1, <2>3
  <2>5. net' = [net EXCEPT ![p].taken = m]
    BY <2>2, <2>3
  <2> HIDE DEF m
  <2>6. [net EXCEPT ![p].taken = m] = [net EXCEPT ![p] = [@ EXCEPT !.taken = m]]
    OBVIOUS
  <2>7. QED
    BY <2>4, <2>5, <2>6 DEF m
<1> HIDE DEF n
<1>5. new \in Seq(Nat) /\ Len(new) = n /\ Follows(new, net[p].taken)
  BY <1>2, <1>3, AfterBytes
<1> HIDE DEF new
<1>6. joined \in Seq(Nat) /\ Len(joined) = Len(call.buf) + n
  BY <1>2, <1>5, Join
<1>7. ASSUME BytesInv
      PROVE  InOrder(done[p] \o (joined \o <<>>), net[p].taken + n, lost[p])
  <2> DEFINE s == done[p] \o (call.buf \o <<>>)
  <2>1. InOrder(s, net[p].taken, lost[p])
    BY <1>0, <1>1, <1>2, <1>7 DEF BytesInv, InCall
  <2>2. done[p] \in Seq(Nat)
    BY Fields DEF IInv
  <2>3. s \in Seq(Nat)
    BY <1>2, <2>2, Join, WithEmpty
  <2>4. done[p] \o (joined \o <<>>) = s \o new
    BY <1>2, <1>5, <2>2, Added
  <2> HIDE DEF s
  <2>5. InOrder(s \o new, net[p].taken + n, lost[p])
    BY <1>2, <1>3, <2>1, <2>3, Extended DEF new
  <2>6. QED
    BY <2>4, <2>5
<1> HIDE DEF joined
<1>8. /\ call' \in CallRec /\ call'.h = g /\ call'.buf = joined /\ call'.op = call.op
      /\ call'.want = call.want /\ call'.phase = "look"
  BY <1>0, <1>4, <1>6 DEF IInv, TypeOK, CallRec
<1>9. /\ net' \in [Conn -> NetRec] /\ net'[p].taken = net[p].taken + n
      /\ net'[p].sent = net[p].sent /\ net'[p].state = net[p].state /\ net'[p].eof = net[p].eof
      /\ \A c \in Conn \ {p} : net'[c] = net[c]
  <2> DEFINE m == net[p].taken + n
             r == [net[p] EXCEPT !.taken = m]
  <2>0. m \in Nat
    BY <1>2, <1>3
  <2> HIDE DEF m
  <2>1. /\ r \in NetRec /\ r.taken = m
        /\ r.sent = net[p].sent /\ r.state = net[p].state /\ r.eof = net[p].eof
    <3>1. net[p] \in NetRec
      BY <1>2 DEF IInv, TypeOK
    <3>2. QED
      BY <2>0, <3>1 DEF NetRec
  <2>2. net' = [net EXCEPT ![p] = r]
    BY <1>4 DEF m
  <2> HIDE DEF r
  <2>3. QED
    BY <2>1, <2>2, NetField DEF IInv, m
<1>10. call' # Idle
  BY <1>2, <1>8 DEF IInv, CallInv, Idle
<1>11. TypeOK'
  BY <1>2, <1>8, <1>9 DEF IInv, TypeOK
<1>12. \A h \in Handle \ {g} : slot[h].kind = "stream" => slot[h].conn \in Conn \ {p}
  BY <1>1, <1>2, Fields DEF IInv, SlotInv
<1>13. SlotInv'
  <2>1. \A h \in Handle :
          /\ slot[h].kind = "stream" <=> slot[h].conn # NoConn
          /\ slot[h].kind = "stream" => net'[slot[h].conn].state = "open"
          /\ slot[h].kind # "stream" => slot[h].pend = <<>>
    BY <1>1, <1>9, <1>12 DEF IInv, SlotInv
  <2>2. \A c \in Conn : (\A h \in Handle : slot[h].conn # c) => Unread(c)'
    BY <1>1, <1>2, <1>9 DEF IInv, SlotInv, Unread
  <2>3. QED
    BY <1>2, <2>1, <2>2 DEF IInv, SlotInv
<1>14. CallInv'
  BY <1>0, <1>2, <1>3, <1>6, <1>8 DEF IInv, CallInv
<1>15. KeptInv'
  BY <1>0, <1>2, <1>8 DEF IInv, KeptInv
<1>16. ClosedInv'
  <2>1. ASSUME NEW h \in Handle, slot[h].kind = "stream", slot[h].status = "CLOSED"
        PROVE  /\ slot[h].pend = <<>>
               /\ \/ net'[slot[h].conn].eof = "shut"
                  \/ /\ net'[slot[h].conn].eof = "fin"
                     /\ net'[slot[h].conn].taken = Len(net'[slot[h].conn].sent)
    <3>1. /\ slot[h].pend = <<>>
          /\ \/ net[slot[h].conn].eof = "shut"
             \/ /\ net[slot[h].conn].eof = "fin"
                /\ net[slot[h].conn].taken = Len(net[slot[h].conn].sent)
      BY <2>1 DEF IInv, ClosedInv
    <3>2. CASE h = g
      BY <1>1, <1>2, <1>3, <1>9, <3>1, <3>2
    <3>3. CASE h # g
      <4>1. net'[slot[h].conn] = net[slot[h].conn]
        BY <1>9, <1>12, <2>1, <3>3
      <4>2. QED
        BY <3>1, <4>1
    <3>4. QED
      BY <3>2, <3>3
  <2>2. QED
    BY <1>2, <2>1 DEF ClosedInv
<1>17. ASSUME BytesInv PROVE BytesInv'
  <2>1. /\ InCall(g)' = joined
        /\ \A h \in Handle \ {g} : InCall(h) = <<>> /\ InCall(h)' = <<>>
    BY <1>0, <1>8, <1>10 DEF InCall
  <2>2. ASSUME NEW h \in Handle, slot[h].kind = "stream"
        PROVE  InOrder(done[slot[h].conn] \o (InCall(h)' \o slot[h].pend),
                       net'[slot[h].conn].taken, lost[slot[h].conn])
    <3>1. CASE h = g
      BY <1>1, <1>2, <1>7, <1>9, <1>17, <2>1, <3>1
    <3>2. CASE h # g
      <4>1. slot[h].conn \in Conn \ {p} /\ net'[slot[h].conn] = net[slot[h].conn]
        BY <1>9, <1>12, <2>2, <3>2
      <4>2. QED
        BY <1>17, <2>1, <2>2, <3>2, <4>1 DEF BytesInv
    <3>3. QED
      BY <3>1, <3>2
  <2>3. QED
    BY <1>2, <2>2 DEF BytesInv
<1>18. QED
  BY <1>11, <1>13, <1>14, <1>15, <1>16, <1>17 DEF IInv

LEMMA ReturnedSlot ==
  ASSUME NEW f \in SlotRec, NEW status \in Status, NEW kept \in Seq(Nat)
  PROVE  [f EXCEPT !.status = status, !.pend = kept] \in SlotRec
BY Zenon DEF SlotRec

LEMMA ReturnType ==
  ASSUME IInv, call # Idle,
         NEW bytes \in Seq(Nat), NEW kept \in Seq(Nat), NEW status \in Status,
         NEW frame \in BOOLEAN, Return(bytes, kept, status, frame), net' \in [Conn -> NetRec],
         lost' \in [Conn -> SUBSET Nat]
  PROVE  TypeOK'
<1>0. call.h \in Handle /\ Peer \in Conn /\ Len(bytes) \in Nat
  BY PeerOfCall
<1>1. call' \in CallRec
  BY EmptyRecords DEF Return
<1>2. slot' \in [Handle -> SlotRec]
  <2> DEFINE r == [slot[call.h] EXCEPT !.status = status, !.pend = kept]
  <2>1. r \in SlotRec
    BY <1>0, ReturnedSlot, ZenonT(60) DEF IInv, TypeOK
  <2>2. slot' = [slot EXCEPT ![call.h] = r]
    BY DEF Return
  <2> HIDE DEF r
  <2>3. QED
    BY <1>0, <2>1, <2>2 DEF IInv, TypeOK
<1>3. done' \in [Conn -> Seq(Nat)]
  <2> DEFINE d == done[Peer] \o bytes
  <2>1. d \in Seq(Nat)
    BY <1>0, Fields, Join DEF IInv
  <2>2. done' = [done EXCEPT ![Peer] = d]
    BY DEF Return
  <2> HIDE DEF d
  <2>3. QED
    BY <1>0, <2>1, <2>2 DEF IInv, TypeOK
<1>4. frames' \in [Conn -> [whole : BOOLEAN, ends : SUBSET Nat]]
  <2> DEFINE F == [whole : BOOLEAN, ends : SUBSET Nat]
             f == Framed(frames[Peer], bytes, frame)
  <2>1. frames[Peer] \in F
    BY <1>0 DEF IInv, TypeOK
  <2>2. bytes # <<>> => Last(bytes) \in Nat
    BY DEF Last
  <2>3. bytes # <<>> => [frames[Peer] EXCEPT !.ends = @ \cup {Last(bytes)}] \in F
    BY <2>1, <2>2
  <2>4. [NoFrames EXCEPT !.whole = FALSE] \in F
    BY EmptyRecords
  <2>5. f \in F
    BY <2>1, <2>3, <2>4 DEF Framed
  <2>6. frames' = [frames EXCEPT ![Peer] = f]
    BY DEF Return
  <2> HIDE DEF f
  <2>7. QED
    BY <1>0, <2>5, <2>6 DEF IInv, TypeOK
<1>5. QED
  BY <1>1, <1>2, <1>3, <1>4 DEF TypeOK

\* What was handed out, then what the call has, then what the slot has.
LEMMA CallBytes ==
  ASSUME IInv, BytesInv, call # Idle
  PROVE  InOrder(done[Peer] \o (call.buf \o Pend), net[Peer].taken, lost[Peer])
<1>1. call.h \in Handle /\ slot[call.h].kind = "stream"
  BY PeerOfCall
<1>2. InCall(call.h) = call.buf
  BY DEF InCall
<1>3. QED
  BY <1>1, <1>2 DEF BytesInv, Peer, Pend

\* Nothing more is lost.
LEMMA SameLost ==
  ASSUME TypeOK, NEW c \in Conn, UNCHANGED lost
  PROVE  lost[c] \in SUBSET Nat /\ lost' = [lost EXCEPT ![c] = lost[c]] /\ lost' \in [Conn -> SUBSET Nat]
BY DEF TypeOK

LEMMA NothingStep ==
  ASSUME IInv, NEW status \in {"CLOSED", "ERROR", "TIMEOUT"}, ReadNothing(status)
  PROVE  IInv' /\ (BytesInv => BytesInv')
<1>1. /\ call # Idle /\ Pend = <<>> /\ Arrived = 0 /\ Nothing(status)
      /\ Return(call.buf, <<>>, status, FALSE) /\ status \in Status
      /\ net' = IF status = "ERROR" THEN [net EXCEPT ![Peer].eof = "fin"] ELSE net
      /\ UNCHANGED lost
  BY DEF ReadNothing, Reading, Status
<1>2. /\ Peer \in Conn /\ call.buf \in Seq(Nat) /\ net[Peer].taken \in Nat
      /\ Len(net[Peer].sent) \in Nat /\ Len(call.buf) \in Nat
      /\ <<>> \in Seq(Nat) /\ Len(<<>>) = 0 /\ Len(<<>>) <= PendMax
  BY <1>1, PeerOfCall, SocketsAssumption
<1>3. /\ net' \in [Conn -> NetRec]
      /\ \A c \in Conn :
           /\ net'[c].taken = net[c].taken /\ net'[c].sent = net[c].sent
           /\ net'[c].state = net[c].state
           /\ c # Peer \/ status = "CLOSED" => net'[c].eof = net[c].eof
  <2>1. CASE status = "ERROR"
    <3> DEFINE r == [net[Peer] EXCEPT !.eof = "fin"]
    <3>1. /\ r \in NetRec /\ r.taken = net[Peer].taken
          /\ r.sent = net[Peer].sent /\ r.state = net[Peer].state
      <4>1. net[Peer] \in NetRec
        BY <1>2 DEF IInv, TypeOK
      <4>2. QED
        BY <4>1 DEF NetRec
    <3>2. net' = [net EXCEPT ![Peer] = r]
      BY <1>1, <2>1
    <3> HIDE DEF r
    <3>3. QED
      BY <1>2, <2>1, <3>1, <3>2, NetField DEF IInv
  <2>2. CASE status # "ERROR"
    BY <1>1, <2>2 DEF IInv, TypeOK
  <2>3. QED
    BY <2>1, <2>2
<1>4. status = "CLOSED" =>
        \/ net[Peer].eof = "shut"
        \/ net[Peer].eof = "fin" /\ net[Peer].taken = Len(net[Peer].sent)
  BY <1>1, <1>2 DEF Nothing, Arrived
<1>a. lost[Peer] \in SUBSET Nat /\ lost' = [lost EXCEPT ![Peer] = lost[Peer]] /\ lost' \in [Conn -> SUBSET Nat]
  BY <1>1, <1>2, SameLost DEF IInv
<1>5. TypeOK'
  BY <1>1, <1>2, <1>3, <1>a, ReturnType
<1>6. BytesInv => InOrder(done[Peer] \o (call.buf \o <<>>), net[Peer].taken, lost[Peer])
  BY <1>1, CallBytes
<1>7. QED
  BY <1>1, <1>2, <1>3, <1>4, <1>5, <1>6, <1>a, ReturnStep

\* What is past the delimiter stays in its place of the stream or is lost.
LEMMA FoundStep ==
  ASSUME IInv, FoundDelimiter
  PROVE  IInv' /\ (BytesInv => BytesInv')
<1> DEFINE e == FirstDelimiter
           head == SubSeq(call.buf, 1, e)
           extra == SubSeq(call.buf, e + 1, Len(call.buf))
           kept == KeepPast(extra)
           l == lost[Peer] \cup NoRoomFor(extra)
<1>1. /\ call # Idle /\ DelimiterEnds(call.buf) # {}
      /\ Return(head, kept, "OK", TRUE) /\ UNCHANGED net /\ lost' = [lost EXCEPT ![Peer] = l]
  BY DEF FoundDelimiter, FirstDelimiter, Reading
<1>2. /\ call.buf \in Seq(Nat) /\ Len(call.buf) \in Nat /\ Pend \in Seq(Nat) /\ Len(Pend) \in Nat
      /\ Pend = slot[call.h].pend /\ call.h \in Handle /\ Peer \in Conn
      /\ done[Peer] \in Seq(Nat) /\ lost[Peer] \in SUBSET Nat /\ net[Peer].taken \in Nat
  BY <1>1, PeerOfCall, Fields DEF Pend, IInv
<1>3. e \in Nat /\ e \in 0 .. Len(call.buf)
  BY <1>1, FirstDelimiterInBuffer DEF IInv
<1> HIDE DEF e
<1>4. head \in Seq(Nat) /\ extra \in Seq(Nat) /\ head \o extra = call.buf
  BY <1>2, <1>3, Cut, CutInTwo
<1> HIDE DEF head, extra
<1>6. kept = (IF extra # <<>> /\ Len(extra) <= PendMax THEN extra ELSE Pend)
  BY DEF KeepPast
<1>7. Len(Pend) <= PendMax
  BY <1>2 DEF IInv, KeptInv
<1> HIDE DEF kept
<1>8. kept \in Seq(Nat) /\ Len(kept) <= PendMax
  BY <1>2, <1>4, <1>6, <1>7
<1>9. "OK" \in Status /\ TRUE \in BOOLEAN
  BY DEF Status
<1>10. l \in SUBSET Nat
  <2>1. \A q \in Seq(Nat) : ToSet(q) \subseteq Nat
    BY Elements
  <2>2. QED
    BY <1>2, <1>4, <2>1 DEF NoRoomFor
<1>11. NoRoomFor(extra) = (IF Len(extra) > PendMax THEN ToSet(extra)
                           ELSE IF extra # <<>> THEN ToSet(Pend) ELSE {})
  BY DEF NoRoomFor
<1>12. ASSUME BytesInv PROVE InOrder(done[Peer] \o (head \o kept), net[Peer].taken, l)
  <2> DEFINE d == done[Peer] \o head
             t == net[Peer].taken
  <2>1. d \in Seq(Nat) /\ t \in Nat
    BY <1>2, <1>4, Join
  <2>2. \A q \in Seq(Nat) : done[Peer] \o (head \o q) = d \o q
    BY <1>2, <1>4, Associative, ZenonT(60)
  <2>3. InOrder(done[Peer] \o ((head \o extra) \o Pend), t, lost[Peer])
    BY <1>1, <1>4, <1>12, CallBytes
  <2>4. done[Peer] \o ((head \o extra) \o Pend) = d \o (extra \o Pend)
    <3>1. head \in Seq(Nat) /\ extra \in Seq(Nat) /\ Pend \in Seq(Nat)
      BY <1>2, <1>4
    <3>2. (head \o extra) \o Pend = head \o (extra \o Pend)
      BY <3>1, Associative
    <3>3. extra \o Pend \in Seq(Nat)
      BY <3>1, JoinType
    <3>4. QED
      BY <2>2, <3>2, <3>3
  <2>5. InOrder(d \o kept, t, lost[Peer] \cup NoRoomFor(extra))
    <3>0. InOrder(d \o (extra \o Pend), t, lost[Peer])
      BY <2>3, <2>4
    <3> HIDE DEF d, t
    <3>1. CASE Len(extra) > PendMax
      <4>1. kept = Pend /\ NoRoomFor(extra) = ToSet(extra)
        BY <1>4, <1>6, <1>11, <3>1, SocketsAssumption
      <4>2. InOrder(d \o Pend, t, lost[Peer] \cup ToSet(extra))
        BY <1>2, <1>4, <2>1, <3>0, Dropped
      <4>3. QED
        BY <4>1, <4>2
    <3>2. CASE ~(Len(extra) > PendMax) /\ extra # <<>>
      <4>1. kept = extra /\ NoRoomFor(extra) = ToSet(Pend)
        <5>1. Len(extra) <= PendMax
          BY <1>4, <3>2, SocketsAssumption
        <5>2. QED
          BY <1>6, <1>11, <3>2, <5>1
      <4>2. d \o (extra \o Pend) = (d \o extra) \o (Pend \o <<>>) /\ d \o extra \in Seq(Nat)
        <5>1. Pend \o <<>> = Pend
          BY <1>2, WithEmpty
        <5>2. d \in Seq(Nat) /\ extra \in Seq(Nat) /\ Pend \in Seq(Nat)
          BY <1>2, <1>4, <2>1
        <5>3. (d \o extra) \o Pend = d \o (extra \o Pend)
          BY <5>2, Associative
        <5>4. d \o extra \in Seq(Nat)
          BY <5>2, JoinType
        <5>5. QED
          BY <5>1, <5>3, <5>4
      <4>3. (d \o extra) \o <<>> = d \o extra /\ <<>> \in Seq(Nat)
        BY <4>2, WithEmpty
      <4> DEFINE u == d \o extra
      <4>4. u \in Seq(Nat) /\ InOrder(u \o (Pend \o <<>>), t, lost[Peer])
        BY <3>0, <4>2
      <4> HIDE DEF u
      <4>5. InOrder(u \o <<>>, t, lost[Peer] \cup ToSet(Pend))
        BY <1>2, <2>1, <4>3, <4>4, Dropped
      <4>6. QED
        BY <4>1, <4>3, <4>5 DEF u
    <3>3. CASE extra = <<>>
      <4>1. kept = Pend /\ NoRoomFor(extra) = {} /\ extra \o Pend = Pend
        BY <1>2, <1>6, <1>11, <3>3, WithEmpty, SocketsAssumption
      <4>2. lost[Peer] \cup {} = lost[Peer]
        OBVIOUS
      <4>3. QED
        BY <3>0, <4>1, <4>2
    <3>4. QED
      BY <3>1, <3>2, <3>3
  <2>6. QED
    BY <1>8, <2>2, <2>5
<1> HIDE DEF l
<1>13. TypeOK'
  <2>1. lost' \in [Conn -> SUBSET Nat]
    BY <1>1, <1>2, <1>10 DEF IInv, TypeOK
  <2>2. QED
    BY <1>1, <1>4, <1>8, <1>9, <2>1, ReturnType DEF IInv, TypeOK
<1>14. QED
  BY <1>1, <1>4, <1>8, <1>9, <1>10, <1>12, <1>13, ReturnStep

LEMMA EnoughStep ==
  ASSUME IInv, ReadEnough
  PROVE  IInv' /\ (BytesInv => BytesInv')
<1>1. /\ call # Idle /\ Return(call.buf, Pend, "OK", FALSE) /\ "OK" \in Status
      /\ UNCHANGED <<net, lost>>
  BY DEF ReadEnough, Reading, Status
<1>2. /\ call.buf \in Seq(Nat) /\ Pend \in Seq(Nat) /\ Pend = slot[call.h].pend /\ call.h \in Handle
      /\ Peer \in Conn
  BY <1>1, PeerOfCall DEF Pend
<1>3. Len(Pend) <= PendMax
  BY <1>2 DEF IInv, KeptInv
<1>4. lost[Peer] \in SUBSET Nat /\ lost' = [lost EXCEPT ![Peer] = lost[Peer]] /\ lost' \in [Conn -> SUBSET Nat]
  BY <1>1, <1>2, SameLost DEF IInv
<1>5. TypeOK'
  BY <1>1, <1>2, <1>4, ReturnType DEF IInv, TypeOK
<1>6. QED
  BY <1>1, <1>2, <1>3, <1>4, <1>5, CallBytes, ReturnStep

LEMMA MoreStep ==
  ASSUME IInv, ReadMore
  PROVE  IInv' /\ (BytesInv => BytesInv')
<1>1. /\ call # Idle /\ call' = [call EXCEPT !.phase = "read"] /\ UNCHANGED <<slot, net, done, lost, frames>>
  BY DEF ReadMore, Reading
<1>2. /\ call' \in CallRec /\ call'.h = call.h /\ call'.op = call.op /\ call'.want = call.want
      /\ call'.buf = call.buf
  BY <1>1 DEF IInv, TypeOK, CallRec
<1>3. call' # Idle
  BY <1>1, <1>2 DEF IInv, CallInv, Idle
<1>4. TypeOK' /\ SlotInv' /\ ClosedInv'
  BY <1>1, <1>2 DEF IInv, TypeOK, SlotInv, ClosedInv, Unread
<1>5. CallInv' /\ KeptInv'
  BY <1>1, <1>2, <1>3 DEF IInv, CallInv, KeptInv
<1>6. \A h : InCall(h)' = InCall(h)
  BY <1>1, <1>2, <1>3 DEF InCall
<1>7. BytesInv => BytesInv'
  BY <1>1, <1>6 DEF BytesInv
<1>8. QED
  BY <1>4, <1>5, <1>7 DEF IInv

-------------------------------------------------------------------------------
(* All the steps.                                                              *)

LEMMA InitInv == Init => IInv /\ BytesInv
<1> SUFFICES ASSUME Init PROVE IInv /\ BytesInv
  OBVIOUS
<1>1. TypeOK
  BY EmptyRecords, EmptySeq DEF Init, TypeOK
<1>2. /\ \A h \in Handle : slot[h].kind = "free" /\ slot[h].conn = NoConn /\ slot[h].pend = <<>>
      /\ \A c \in Conn : Unread(c)
      /\ call = Idle
  BY DEF Init, Free, Untouched, Unread
<1>3. SlotInv /\ CallInv /\ ClosedInv /\ BytesInv
  BY <1>2, EmptyRecords DEF SlotInv, CallInv, ClosedInv, BytesInv
<1>4. KeptInv
  BY <1>2, SocketsAssumption DEF KeptInv
<1>5. QED
  BY <1>1, <1>3, <1>4 DEF IInv

LEMMA ProgramStep ==
  ASSUME IInv, Program
  PROVE  IInv' /\ (BytesInv => BytesInv')
<1>1. CASE \E kind \in {"listener", "udp"} : Bind(kind)
  BY <1>1, BindStep
<1>2. CASE \E c \in Conn : Connect(c)
  BY <1>2, ConnectStep
<1>3. ASSUME NEW h \in Handle
      PROVE  /\ (\E c \in Conn : Accept(h, c)) => IInv' /\ (BytesInv => BytesInv')
             /\ Close(h) \/ Shutdown(h) => IInv' /\ (BytesInv => BytesInv')
             /\ (\E impatient \in BOOLEAN : SetOption(h, impatient))
                  => IInv' /\ (BytesInv => BytesInv')
             /\ (\E op \in {"recv", "until", "exact"} : \E size \in Sizes(op) : Begin(op, h, size))
                  => IInv' /\ (BytesInv => BytesInv')
  BY AcceptStep, CloseStep, ShutdownStep, SetOptionStep, BeginStep
<1>4. ASSUME NEW h \in Handle
      PROVE  /\ (\E status \in {"TIMEOUT", "ERROR"} : AcceptNothing(h, status)) \/ ReadRefused(h)
                  => IInv' /\ (BytesInv => BytesInv')
             /\ (\E status \in {"OK", "TIMEOUT", "ERROR"} : Transfer(h, status))
                  => IInv' /\ (BytesInv => BytesInv')
  <2>1. {"OK", "TIMEOUT", "ERROR"} \subseteq Status \ {"CLOSED"}
    BY DEF Status
  <2>2. ASSUME NEW status \in {"TIMEOUT", "ERROR"}, AcceptNothing(h, status)
        PROVE  IInv' /\ (BytesInv => BytesInv')
    BY <2>1, <2>2, StatusStep DEF AcceptNothing
  <2>3. CASE ReadRefused(h)
    BY <2>1, <2>3, StatusStep DEF ReadRefused
  <2>4. ASSUME NEW status \in {"OK", "TIMEOUT", "ERROR"}, Transfer(h, status)
        PROVE  IInv' /\ (BytesInv => BytesInv')
    BY <2>1, <2>4, StatusStep DEF Transfer
  <2>5. QED
    BY <2>2, <2>3, <2>4
<1>5. QED
  BY <1>1, <1>2, <1>3, <1>4 DEF Program

LEMMA RuntimeStep ==
  ASSUME IInv, Runtime
  PROVE  IInv' /\ (BytesInv => BytesInv')
<1>1. CASE TakeKept \/ TakeArrived
  BY <1>1, TakeKeptStep, TakeArrivedStep
<1>2. CASE \E status \in {"CLOSED", "ERROR", "TIMEOUT"} : ReadNothing(status)
  BY <1>2, NothingStep
<1>3. CASE FoundDelimiter
  BY <1>3, FoundStep
<1>4. CASE ReadEnough \/ ReadMore
  BY <1>4, EnoughStep, MoreStep
<1>5. QED
  BY <1>1, <1>2, <1>3, <1>4 DEF Runtime

LEMMA NextInv ==
  IInv /\ [Next]_vars => IInv' /\ (BytesInv => BytesInv')
<1> SUFFICES ASSUME IInv, [Next]_vars PROVE IInv' /\ (BytesInv => BytesInv')
  OBVIOUS
<1>1. CASE Next
  BY <1>1, PeersStep, ProgramStep, RuntimeStep DEF Next
<1>2. CASE UNCHANGED vars
  <2>1. UNCHANGED <<slot, net, call, done, lost, frames>>
    BY <1>2 DEF vars
  <2>2. TypeOK' /\ SlotInv' /\ CallInv' /\ KeptInv' /\ ClosedInv'
    BY <2>1 DEF IInv, TypeOK, SlotInv, CallInv, KeptInv, ClosedInv, Unread
  <2>3. \A h : InCall(h)' = InCall(h)
    BY <2>1 DEF InCall
  <2>4. BytesInv => BytesInv'
    BY <2>1, <2>3 DEF BytesInv
  <2>5. QED
    BY <2>2, <2>4 DEF IInv
<1>3. QED
  BY <1>1, <1>2

\* The bytes of a connection no handle has are accounted for, too: there are none.
LEMMA BytesAreAccounted == IInv /\ BytesInv => BytesAccounted
<1> SUFFICES ASSUME IInv, BytesInv, NEW c \in Conn
             PROVE  InOrder(Stream(c), net[c].taken, lost[c])
  BY DEF BytesAccounted, InOrder
<1> DEFINE inCall == IF call # Idle /\ Peer = c THEN call.buf ELSE <<>>
           kept == IF \E h \in Handle : slot[h].conn = c
                   THEN slot[CHOOSE h \in Handle : slot[h].conn = c].pend ELSE <<>>
<1>1. Stream(c) = (done[c] \o inCall) \o kept
  BY DEF Stream
<1>2. CASE \E h \in Handle : slot[h].conn = c
  <2>1. PICK h \in Handle : slot[h].conn = c
    BY <1>2
  <2>2. slot[h].kind = "stream"
    BY <2>1, EmptyRecords DEF IInv, SlotInv
  <2>3. \A k \in Handle : slot[k].conn = c => k = h
    BY <2>1, <2>2 DEF IInv, SlotInv
  <2>4. kept = slot[h].pend
    BY <2>1, <2>3
  <2>5. inCall = InCall(h)
    <3>1. call # Idle => (Peer = c <=> call.h = h)
      BY <2>1, <2>3, Fields DEF IInv, Peer
    <3>2. QED
      BY <3>1 DEF InCall
  <2>6. inCall \in Seq(Nat) /\ kept \in Seq(Nat) /\ done[c] \in Seq(Nat)
    BY <2>4, Fields, EmptySeq DEF IInv
  <2>7. InOrder(done[c] \o (inCall \o kept), net[c].taken, lost[c])
    BY <2>1, <2>2, <2>4, <2>5 DEF BytesInv
  <2> HIDE DEF inCall, kept
  <2>8. QED
    BY <1>1, <2>6, <2>7, Associative
<1>3. CASE ~ \E h \in Handle : slot[h].conn = c
  <2>1. done[c] = <<>> /\ net[c].taken = 0 /\ lost[c] = {}
    BY <1>3 DEF IInv, SlotInv, Unread
  <2>2. inCall = <<>> /\ kept = <<>>
    BY <1>3, Fields DEF IInv, Peer
  <2> HIDE DEF inCall, kept
  <2>3. Stream(c) = <<>> \o (<<>> \o <<>>)
    BY <1>1, <2>1, <2>2
  <2>4. QED
    BY <2>1, <2>3, NothingInOrder
<1>4. QED
  BY <1>2, <1>3

-------------------------------------------------------------------------------
(* The frames of a stream.                                                     *)

\* A delimiter ends at place e of a stream; at place k of the bytes of one in q.
Marked(stream, e) == \A i \in e - DelimLen + 1 .. e : stream[i]
MarkedIn(stream, q, k) == \A i \in k - DelimLen + 1 .. k : stream[q[i]]

LEMMA DelimiterIsSome == DelimLen \in Nat /\ DelimLen > 0
BY SocketsAssumption

\* A stream has its frames in one way only.
LEMMA FramesEndOnce ==
  ASSUME NEW stream, NEW n \in Nat, NEW E, NEW F,
         FramesEndAt(E, stream, n), FramesEndAt(F, stream, n)
  PROVE  E = F
<1> DEFINE D == {e \in DelimLen .. n : ~(e \in E <=> e \in F)}
<1>1. E \subseteq DelimLen .. n /\ F \subseteq DelimLen .. n
  BY DEF FramesEndAt
<1>2. CASE D = {}
  BY <1>1, <1>2
<1>3. CASE D # {}
  <2>1. D \subseteq Nat
    BY DelimiterIsSome
  <2>2. PICK d \in D : \A k \in D : d <= k
    BY <1>3, <2>1, Least
  <2>3. d \in DelimLen .. n /\ d \in Nat /\ ~(d \in E <=> d \in F)
    BY <2>1, <2>2
  <2>4. \A k \in d - DelimLen + 1 .. d - 1 : k \in E <=> k \in F
    <3>1. ASSUME NEW k \in d - DelimLen + 1 .. d - 1 PROVE k \in E <=> k \in F
      <4>1. k \notin D
        BY <2>2, <2>3, <3>1, DelimiterIsSome
      <4>2. CASE k \in DelimLen .. n
        BY <4>1, <4>2
      <4>3. CASE k \notin DelimLen .. n
        BY <1>1, <4>3
      <4>4. QED
        BY <4>2, <4>3
    <3>2. QED
      BY <3>1
  <2> HIDE DEF D
  <2>5. E \cap (d - DelimLen + 1 .. d - 1) = F \cap (d - DelimLen + 1 .. d - 1)
    BY <2>4
  <2>6. d \in E <=> d \in F
    BY <2>3, <2>5 DEF FramesEndAt
  <2>7. QED
    BY <2>3, <2>6
<1>4. QED
  BY <1>2, <1>3

\* What comes later does not move them.
LEMMA FramesInPrefix ==
  ASSUME NEW stream, NEW longer, NEW n \in Nat, NEW ends, FramesEndAt(ends, stream, n),
         \A i \in 1 .. n : longer[i] = stream[i]
  PROVE  FramesEndAt(ends, longer, n)
<1>1. ASSUME NEW e \in DelimLen .. n
      PROVE  (\A i \in e - DelimLen + 1 .. e : stream[i])
               <=> (\A i \in e - DelimLen + 1 .. e : longer[i])
  <2>1. \A i \in e - DelimLen + 1 .. e : i \in 1 .. n
    BY DelimiterIsSome
  <2>2. \A i \in e - DelimLen + 1 .. e : longer[i] = stream[i]
    BY <2>1
  <2>3. QED
    BY <2>2
<1>2. QED
  BY <1>1 DEF FramesEndAt

\* From the end of a frame the first delimiter ends the next one.
LEMMA NextFrame ==
  ASSUME NEW stream, NEW n \in Nat, NEW m \in Nat, NEW ends, FramesEndAt(ends, stream, n),
         n = 0 \/ n \in ends,
         DelimLen <= m,
         Marked(stream, n + m), \A k \in DelimLen .. m - 1 : ~Marked(stream, n + k)
  PROVE  FramesEndAt(ends \cup {n + m}, stream, n + m)
<1> DEFINE more == ends \cup {n + m}
           Before(e) == e - DelimLen + 1 .. e - 1
<1>1. DelimLen \in Nat /\ DelimLen > 0
  BY DelimiterIsSome
<1>2. ends = {e \in DelimLen .. n : Marked(stream, e) /\ ends \cap Before(e) = {}}
  BY DEF FramesEndAt, Marked
<1>4. \A e \in ends : e \in DelimLen .. n
  BY <1>2
<1>5. ASSUME NEW e \in DelimLen .. n + m
      PROVE  e \in more <=> Marked(stream, e) /\ more \cap Before(e) = {}
  <2>1. CASE e <= n
    <3>1. e \in DelimLen .. n /\ e # n + m /\ n + m \notin Before(e)
      BY <1>1, <2>1
    <3>2. more \cap Before(e) = ends \cap Before(e)
      BY <3>1
    <3>3. QED
      BY <1>2, <3>1, <3>2
  <2>2. CASE n < e /\ e < n + m
    <3>1. e \notin more
      BY <1>1, <1>4, <2>2
    <3>2. CASE e - n >= DelimLen
      <4>1. e - n \in DelimLen .. m - 1 /\ n + (e - n) = e
        BY <1>1, <2>2, <3>2
      <4>2. ~Marked(stream, e)
        BY <4>1
      <4>3. QED
        BY <3>1, <4>2
    <3>3. CASE ~(e - n >= DelimLen)
      <4>1. n # 0 /\ n \in Before(e)
        BY <1>1, <2>2, <3>3
      <4>2. n \in more \cap Before(e)
        BY <4>1
      <4>3. QED
        BY <3>1, <4>2
    <3>4. QED
      BY <3>2, <3>3
  <2>3. CASE e = n + m
    <3>1. \A k \in Before(e) : k > n /\ k # n + m
      BY <1>1, <2>3
    <3>2. \A k \in ends : ~(k > n)
      BY <1>1, <1>4
    <3>3. more \cap Before(e) = {}
      BY <3>1, <3>2
    <3>4. QED
      BY <2>3, <3>3
  <2>4. QED
    BY <1>1, <2>1, <2>2, <2>3
<1>6. more \subseteq DelimLen .. n + m
  BY <1>1, <1>4
<1>7. more = {e \in DelimLen .. n + m : Marked(stream, e) /\ more \cap Before(e) = {}}
  BY <1>5, <1>6
<1>8. QED
  BY <1>7 DEF FramesEndAt, Marked

LEMMA MarkedBytes ==
  ASSUME NEW stream, NEW q \in Seq(Nat), NEW n \in Nat, NEW k \in DelimLen .. Len(q),
         NEW e \in Nat, e = n + k, Follows(q, n)
  PROVE  MarkedIn(stream, q, k) <=> Marked(stream, e)
<1>1. DelimLen \in Nat /\ DelimLen > 0 /\ k \in Nat /\ Len(q) \in Nat /\ k <= Len(q) /\ DelimLen <= k
  BY DelimiterIsSome
<1>2. \A i \in k - DelimLen + 1 .. k : i \in 1 .. Len(q) /\ n + i \in e - DelimLen + 1 .. e
  BY <1>1
<1>3. \A i \in k - DelimLen + 1 .. k : q[i] = n + i
  BY <1>2 DEF Follows
<1>4. \A j \in e - DelimLen + 1 .. e : j - n \in k - DelimLen + 1 .. k /\ n + (j - n) = j
  BY <1>1
<1>5. ASSUME MarkedIn(stream, q, k), NEW j \in e - DelimLen + 1 .. e PROVE stream[j]
  <2>1. q[j - n] = j /\ j - n \in k - DelimLen + 1 .. k
    BY <1>3, <1>4
  <2>2. stream[q[j - n]]
    BY <1>5, <2>1 DEF MarkedIn
  <2>3. QED
    BY <2>1, <2>2
<1>6. ASSUME Marked(stream, e), NEW i \in k - DelimLen + 1 .. k PROVE stream[q[i]]
  <2>1. q[i] = n + i /\ n + i \in e - DelimLen + 1 .. e
    BY <1>2, <1>3
  <2>2. stream[n + i]
    BY <1>6, <2>1 DEF Marked
  <2>3. QED
    BY <2>1, <2>2
<1>7. QED
  BY <1>5, <1>6 DEF Marked, MarkedIn

-------------------------------------------------------------------------------
(* The frames under a step.                                                    *)

\* What was handed out had been taken.
LEMMA DoneWithin ==
  ASSUME IInv, BytesInv, NEW c \in Conn, lost[c] = {}
  PROVE  Len(done[c]) \in Nat /\ net[c].taken \in Nat /\ Len(done[c]) <= net[c].taken
<1>1. done[c] \in Seq(Nat) /\ net[c].taken \in Nat
  BY Fields DEF IInv
<1>2. CASE \E h \in Handle : slot[h].conn = c
  <2>1. PICK h \in Handle : slot[h].conn = c
    BY <1>2
  <2>2. slot[h].kind = "stream" /\ InCall(h) \in Seq(Nat) /\ slot[h].pend \in Seq(Nat)
    BY <2>1, EmptyRecords, Fields, EmptySeq DEF IInv, SlotInv, InCall
  <2>3. /\ Follows(done[c] \o (InCall(h) \o slot[h].pend), 0)
        /\ Len(done[c] \o (InCall(h) \o slot[h].pend)) = net[c].taken
    BY <2>1, <2>2 DEF BytesInv, InOrder
  <2> DEFINE rest == InCall(h) \o slot[h].pend
  <2>a. rest \in Seq(Nat) /\ done[c] \in Seq(Nat)
    BY <1>1, <2>2, JoinType
  <2>b. \A q \in Seq(Nat) : Len(done[c]) <= Len(done[c] \o q)
    BY <1>1, Join
  <2>4. Len(done[c]) <= Len(done[c] \o rest)
    BY <2>a, <2>b
  <2>5. QED
    BY <1>1, <2>3, <2>4
<1>3. CASE ~ \E h \in Handle : slot[h].conn = c
  <2>1. done[c] = <<>> /\ net[c].taken = 0
    BY <1>3 DEF IInv, SlotInv, Unread
  <2>2. QED
    BY <2>1
<1>4. QED
  BY <1>2, <1>3

\* No byte is taken or handed out.
LEMMA SameFrames ==
  ASSUME PlacesInv, FramesInv, UNCHANGED <<net, done, lost, frames>>
  PROVE  PlacesInv' /\ FramesInv'
BY DEF PlacesInv, FramesInv

\* No byte is taken or handed out; a stream may grow.
LEMMA QuietFrames ==
  ASSUME IInv, BytesInv, PlacesInv, FramesInv, UNCHANGED <<done, lost, frames>>,
         \A c \in Conn :
           /\ net'[c].taken = net[c].taken
           /\ Len(net[c].sent) <= Len(net'[c].sent) /\ Len(net'[c].sent) \in Nat
           /\ \A i \in 1 .. Len(net[c].sent) : net'[c].sent[i] = net[c].sent[i]
  PROVE  PlacesInv' /\ FramesInv'
<1>1. \A c \in Conn : net[c].taken \in Nat /\ Len(net[c].sent) \in Nat
  BY Fields DEF IInv
<1>2. PlacesInv'
  BY <1>1 DEF PlacesInv
<1>3. FramesInv'
  <2>1. ASSUME NEW c \in Conn, frames[c].whole, lost[c] = {}
        PROVE  FramesEndAt(frames[c].ends, net'[c].sent, Len(done[c]))
    <3> DEFINE d == Len(done[c])
               ends == frames[c].ends
               s == net[c].sent
               t == net'[c].sent
    <3>1. FramesEndAt(ends, s, d)
      BY <2>1 DEF FramesInv
    <3>2. d \in Nat /\ d <= net[c].taken /\ net[c].taken <= Len(s)
      BY <2>1, DoneWithin DEF PlacesInv
    <3>3. Len(s) \in Nat /\ net[c].taken \in Nat /\ \A i \in 1 .. Len(s) : t[i] = s[i]
      BY <1>1
    <3> HIDE DEF d, ends, s, t
    <3>4. \A i \in 1 .. d : t[i] = s[i]
      BY <3>2, <3>3
    <3>5. FramesEndAt(ends, t, d)
      BY <3>1, <3>2, <3>4, FramesInPrefix
    <3>6. QED
      BY <3>5 DEF d, ends, t
  <2>2. QED
    BY <2>1 DEF FramesInv
<1>4. QED
  BY <1>2, <1>3

LEMMA AllocFrames ==
  ASSUME IInv, BytesInv, PlacesInv, FramesInv, UNCHANGED <<done, lost, frames>>,
         NEW kind, NEW c \in Conn \cup {NoConn},
         NEW s, NEW n \in [Conn -> NetRec],
         \A d \in Conn : n[d].taken = net[d].taken /\ n[d].sent = net[d].sent,
         AllocSlot(s, n, kind, c)
  PROVE  PlacesInv' /\ FramesInv'
<1>1. \A d \in Conn : Len(net[d].sent) \in Nat
  BY Fields DEF IInv
<1>2. \A d \in Conn : net'[d].taken = net[d].taken /\ net'[d].sent = net[d].sent
  <2>1. CASE net' = n
    BY <2>1
  <2>2. CASE c \in Conn /\ net' = [n EXCEPT ![c].state = "closed"]
    <3> DEFINE r == [n[c] EXCEPT !.state = "closed"]
    <3>1. n[c] \in NetRec /\ net' = [n EXCEPT ![c] = r]
      BY <2>2
    <3>2. r.taken = n[c].taken /\ r.sent = n[c].sent
      BY <3>1 DEF NetRec
    <3> HIDE DEF r
    <3>3. net'[c] = r /\ \A d \in Conn \ {c} : net'[d] = n[d]
      BY <2>2, <3>1
    <3>4. QED
      BY <3>2, <3>3
  <2>3. QED
    BY <2>1, <2>2 DEF AllocSlot
<1>3. \A d \in Conn : Len(net[d].sent) <= Len(net'[d].sent) /\ Len(net'[d].sent) \in Nat
  BY <1>1, <1>2
<1>4. QED
  BY <1>2, <1>3, QuietFrames

\* The peers: what they write comes after what they have written.
LEMMA PeersFrames ==
  ASSUME IInv, BytesInv, PlacesInv, FramesInv, Peers
  PROVE  PlacesInv' /\ FramesInv'
<1>1. PICK c \in Conn :
        \/ PeerConnects(c)
        \/ \E mark \in BOOLEAN : PeerWrites(c, mark)
        \/ \E how \in {"fin", "reset"} : PeerEnds(c, how)
  BY DEF Peers
<1>2. UNCHANGED <<slot, call, done, lost, frames>>
  BY <1>1 DEF PeerConnects, PeerWrites, PeerEnds
<1>3. net \in [Conn -> NetRec] /\ net[c] \in NetRec /\ net[c].sent \in Seq(BOOLEAN)
  BY DEF IInv, TypeOK, NetRec
<1>4. /\ net'[c].taken = net[c].taken
      /\ \/ net'[c].sent = net[c].sent
         \/ \E mark \in BOOLEAN : net'[c].sent = Append(net[c].sent, mark)
      /\ \A d \in Conn \ {c} : net'[d] = net[d]
  <2>1. CASE PeerConnects(c)
    <3>1. PICK l \in Handle : net' = [net EXCEPT ![c].state = "backlog", ![c].at = l]
      BY <2>1 DEF PeerConnects
    <3> DEFINE r == [net[c] EXCEPT !.state = "backlog", !.at = l]
    <3>2. r.taken = net[c].taken /\ r.sent = net[c].sent
      BY <1>3 DEF NetRec
    <3>3. net' = [net EXCEPT ![c] = r]
      BY <3>1
    <3> HIDE DEF r
    <3>4. QED
      BY <1>3, <3>2, <3>3
  <2>2. ASSUME NEW mark \in BOOLEAN, PeerWrites(c, mark)
        PROVE  /\ net'[c].taken = net[c].taken
               /\ net'[c].sent = Append(net[c].sent, mark)
               /\ \A d \in Conn \ {c} : net'[d] = net[d]
    <3> DEFINE s == Append(net[c].sent, mark)
               r == [net[c] EXCEPT !.sent = s]
    <3>1. net' = [net EXCEPT ![c] = r]
      BY <2>2 DEF PeerWrites
    <3> HIDE DEF s
    <3>2. r.taken = net[c].taken /\ r.sent = s
      BY <1>3 DEF NetRec
    <3> HIDE DEF r
    <3>3. QED
      BY <1>3, <3>1, <3>2 DEF s
  <2>3. ASSUME NEW how \in {"fin", "reset"}, PeerEnds(c, how)
        PROVE  /\ net'[c].taken = net[c].taken /\ net'[c].sent = net[c].sent
               /\ \A d \in Conn \ {c} : net'[d] = net[d]
    <3> DEFINE r == [net[c] EXCEPT !.eof = how]
    <3>1. r.taken = net[c].taken /\ r.sent = net[c].sent
      BY <1>3 DEF NetRec
    <3>2. net' = [net EXCEPT ![c] = r]
      BY <2>3 DEF PeerEnds
    <3> HIDE DEF r
    <3>3. QED
      BY <1>3, <3>1, <3>2
  <2>4. QED
    BY <1>1, <2>1, <2>2, <2>3
<1>5. /\ Len(net[c].sent) <= Len(net'[c].sent) /\ Len(net'[c].sent) \in Nat
      /\ \A i \in 1 .. Len(net[c].sent) : net'[c].sent[i] = net[c].sent[i]
  <2>1. CASE net'[c].sent = net[c].sent
    BY <1>3, <2>1
  <2>2. ASSUME NEW mark \in BOOLEAN, net'[c].sent = Append(net[c].sent, mark)
        PROVE  /\ Len(net[c].sent) <= Len(net'[c].sent) /\ Len(net'[c].sent) \in Nat
               /\ \A i \in 1 .. Len(net[c].sent) : net'[c].sent[i] = net[c].sent[i]
    <3> DEFINE s == net[c].sent
    <3>1. s \in Seq(BOOLEAN)
      BY <1>3
    <3> HIDE DEF s
    <3>2. /\ Len(s) <= Len(Append(s, mark)) /\ Len(Append(s, mark)) \in Nat
          /\ \A i \in 1 .. Len(s) : Append(s, mark)[i] = s[i]
      BY <3>1
    <3>3. QED
      BY <2>2, <3>2 DEF s
  <2>3. QED
    BY <1>4, <2>1, <2>2
<1>6. \A d \in Conn :
        /\ net'[d].taken = net[d].taken
        /\ Len(net[d].sent) <= Len(net'[d].sent) /\ Len(net'[d].sent) \in Nat
        /\ \A i \in 1 .. Len(net[d].sent) : net'[d].sent[i] = net[d].sent[i]
  <2>1. \A d \in Conn : Len(net[d].sent) \in Nat
    BY Fields DEF IInv
  <2>2. QED
    BY <1>4, <1>5, <2>1
<1>7. QED
  BY <1>2, <1>6, QuietFrames

\* What is closed begins anew; nobody else's stream is touched.
LEMMA CloseFrames ==
  ASSUME IInv, BytesInv, PlacesInv, FramesInv, NEW h \in Handle, Close(h)
  PROVE  PlacesInv' /\ FramesInv'
<1> DEFINE ended == {c \in Conn : \/ c = slot[h].conn
                                  \/ net[c].state = "backlog" /\ net[c].at = h}
           over == [Untouched EXCEPT !.state = "closed"]
<1>1. /\ call' = Idle /\ slot' = [slot EXCEPT ![h] = Free]
      /\ net' = [c \in Conn |-> IF c \in ended THEN over ELSE net[c]]
      /\ done' = [c \in Conn |-> IF c \in ended THEN <<>> ELSE done[c]]
      /\ lost' = [c \in Conn |-> IF c \in ended THEN {} ELSE lost[c]]
      /\ frames' = [c \in Conn |-> IF c \in ended THEN NoFrames ELSE frames[c]]
  BY DEF Close
<1>2. over.taken = 0 /\ over.sent = <<>>
  BY DEF Untouched
<1> HIDE DEF over
<1>5. ASSUME NEW c \in ended
      PROVE  /\ net'[c].taken = 0 /\ net'[c].sent = <<>> /\ done'[c] = <<>> /\ frames'[c].ends = {}
  BY <1>1, <1>2 DEF NoFrames
<1>6. ASSUME NEW c \in Conn, c \notin ended
      PROVE  /\ net'[c] = net[c] /\ done'[c] = done[c] /\ frames'[c] = frames[c]
             /\ lost'[c] = lost[c]
  BY <1>1, <1>6
<1>7. ended \subseteq Conn
  OBVIOUS
<1> HIDE DEF ended
<1>8. PlacesInv'
  BY <1>5, <1>6 DEF PlacesInv
<1>9. FramesInv'
  <2>1. FramesEndAt({}, <<>>, Len(<<>>))
    BY DelimiterIsSome DEF FramesEndAt
  <2>2. ASSUME NEW c \in Conn, frames'[c].whole, lost'[c] = {}
        PROVE  /\ FramesEndAt(frames'[c].ends, net'[c].sent, Len(done'[c]))
               /\ done'[c] = <<>> \/ Len(done'[c]) \in frames'[c].ends
    <3>1. CASE c \in ended
      BY <1>5, <2>1, <3>1
    <3>2. CASE c \notin ended
      BY <1>6, <2>2, <3>2 DEF FramesInv
    <3>3. QED
      BY <3>1, <3>2
  <2>3. QED
    BY <2>2 DEF FramesInv
<1>10. QED
  BY <1>8, <1>9

LEMMA ProgramFrames ==
  ASSUME IInv, BytesInv, PlacesInv, FramesInv, Program
  PROVE  PlacesInv' /\ FramesInv'
<1>1. slot \in [Handle -> SlotRec] /\ net \in [Conn -> NetRec] /\ TypeOK
  BY DEF IInv, TypeOK
<1>2. \A c \in Conn : Len(net[c].sent) <= Len(net[c].sent) /\ Len(net[c].sent) \in Nat
  BY Fields DEF IInv
<1>4. ASSUME NEW kind \in {"listener", "udp"}, Bind(kind) PROVE PlacesInv' /\ FramesInv'
  BY <1>1, <1>4, AllocFrames, ZenonT(60) DEF Bind
<1>5. ASSUME NEW c \in Conn, Connect(c) PROVE PlacesInv' /\ FramesInv'
  <2>1. /\ UNCHANGED <<done, lost, frames>>
        /\ AllocSlot(slot, [net EXCEPT ![c].state = "open"], "stream", c)
    BY <1>5 DEF Connect
  <2> DEFINE n == [net EXCEPT ![c].state = "open"]
  <2>2. n \in [Conn -> NetRec] /\ \A d \in Conn : n[d].taken = net[d].taken /\ n[d].sent = net[d].sent
    BY <1>1, OpenedNet
  <2> HIDE DEF n
  <2>3. QED
    BY <1>1, <2>1, <2>2, AllocFrames DEF n
<1>6. ASSUME NEW l \in Handle, NEW c \in Conn, Accept(l, c) PROVE PlacesInv' /\ FramesInv'
  <2> DEFINE status == IF Vacant = {} THEN "ERROR" ELSE "OK"
             s == SetStatus(l, status)
  <2>1. /\ UNCHANGED <<done, lost, frames>>
        /\ AllocSlot(s, [net EXCEPT ![c].state = "open"], "stream", c)
    BY <1>6 DEF Accept
  <2> HIDE DEF status, s
  <2> DEFINE n == [net EXCEPT ![c].state = "open"]
  <2>2. n \in [Conn -> NetRec] /\ \A d \in Conn : n[d].taken = net[d].taken /\ n[d].sent = net[d].sent
    BY <1>1, OpenedNet
  <2> HIDE DEF n
  <2>3. QED
    BY <1>1, <2>1, <2>2, AllocFrames DEF n
<1>7. ASSUME NEW h \in Handle, Shutdown(h) PROVE PlacesInv' /\ FramesInv'
  <2> DEFINE c == slot[h].conn
             r == [net[c] EXCEPT !.eof = "shut"]
  <2>1. c \in Conn
    BY <1>1, <1>7, Fields DEF Shutdown, IInv, SlotInv
  <2>2. net' = [net EXCEPT ![c] = r] /\ UNCHANGED <<slot, call, done, lost, frames>>
    BY <1>7 DEF Shutdown
  <2> HIDE DEF c
  <2>3. r.taken = net[c].taken /\ r.sent = net[c].sent
    BY <1>1, <2>1 DEF NetRec
  <2> HIDE DEF r
  <2>4. \A d \in Conn : net'[d].taken = net[d].taken /\ net'[d].sent = net[d].sent
    BY <1>1, <2>1, <2>2, <2>3
  <2>5. QED
    BY <1>2, <2>2, <2>4, QuietFrames
<1>8. ASSUME NEW h \in Handle,
             \/ \E impatient \in BOOLEAN : SetOption(h, impatient)
             \/ \E op \in {"recv", "until", "exact"} : \E size \in Sizes(op) : Begin(op, h, size)
             \/ \E status \in {"TIMEOUT", "ERROR"} : AcceptNothing(h, status)
             \/ ReadRefused(h)
             \/ \E status \in {"OK", "TIMEOUT", "ERROR"} : Transfer(h, status)
      PROVE  PlacesInv' /\ FramesInv'
  <2>1. UNCHANGED <<net, done, lost, frames>>
    BY <1>8 DEF SetOption, Begin, AcceptNothing, ReadRefused, Transfer
  <2>2. QED
    BY <2>1, SameFrames
<1>14. QED
  BY <1>4, <1>5, <1>6, <1>7, <1>8, CloseFrames DEF Program

\* Not more is taken than has arrived.
LEMMA TakeArrivedFrames ==
  ASSUME IInv, PlacesInv, FramesInv, TakeArrived
  PROVE  PlacesInv' /\ FramesInv'
<1> DEFINE p == Peer
           n == AtMost(Arrived, Missing)
           t == net[p].taken
           m == t + n
<1>1. call # Idle /\ UNCHANGED <<slot, done, lost, frames>>
  BY DEF TakeArrived, Reading
<1>2. /\ p \in Conn /\ call.want \in Nat /\ Len(call.buf) \in Nat /\ Len(call.buf) <= call.want
      /\ t \in Nat /\ Len(net[p].sent) \in Nat
  BY <1>1, PeerOfCall
<1>3. m <= Len(net[p].sent)
  <2> DEFINE l == Len(net[p].sent)
  <2>1. l \in Nat /\ t \in Nat /\ Arrived = l - t /\ Arrived > 0 /\ Missing = call.want - Len(call.buf)
    BY <1>2 DEF TakeArrived, Arrived, Missing
  <2> HIDE DEF l, t
  <2>2. Arrived \in Nat /\ Missing \in Nat
    BY <1>2, <2>1
  <2>3. n \in Nat /\ n <= Arrived
    BY <2>2 DEF AtMost
  <2> HIDE DEF n
  <2>4. t + n <= l
    BY <2>1, <2>2, <2>3
  <2>5. QED
    BY <2>4 DEF l
<1>4. net' = [net EXCEPT ![p].taken = @ + n]
  BY DEF TakeArrived
<1>5. /\ net'[p].taken = m /\ net'[p].sent = net[p].sent
      /\ \A c \in Conn \ {p} : net'[c] = net[c]
  <2> DEFINE r == [net[p] EXCEPT !.taken = m]
  <2>1. net' = [net EXCEPT ![p] = r]
    BY <1>4
  <2> HIDE DEF m
  <2>2. r.taken = m /\ r.sent = net[p].sent
    BY <1>2 DEF IInv, TypeOK, NetRec
  <2> HIDE DEF r
  <2>3. QED
    BY <1>2, <2>1, <2>2 DEF IInv, TypeOK
<1> HIDE DEF m, p
<1>6. PlacesInv'
  BY <1>3, <1>5 DEF PlacesInv
<1>7. FramesInv'
  <2>1. \A c \in Conn : net'[c].sent = net[c].sent
    BY <1>5
  <2>2. QED
    BY <1>1, <2>1 DEF FramesInv
<1>8. QED
  BY <1>6, <1>7

\* A read returns: either no frame is counted any more, or the call had stopped
\* at the first delimiter.
LEMMA ReturnFrames ==
  ASSUME IInv, PlacesInv, FramesInv, call # Idle,
         NEW bytes \in Seq(Nat), NEW kept, NEW status,
         NEW frame \in BOOLEAN, Return(bytes, kept, status, frame),
         \A c \in Conn : net'[c].taken = net[c].taken /\ net'[c].sent = net[c].sent,
         NEW l, lost' = [lost EXCEPT ![Peer] = l], l = {} => lost[Peer] = {},
         l = {} => Follows(bytes, Len(done[Peer])),
         frame =>
           /\ DelimLen <= Len(bytes)
           /\ MarkedIn(net[Peer].sent, bytes, Len(bytes))
           /\ \A k \in DelimLen .. Len(bytes) - 1 : ~MarkedIn(net[Peer].sent, bytes, k)
  PROVE  PlacesInv' /\ FramesInv'
<1> DEFINE p == Peer
           d == Len(done[p])
           m == Len(bytes)
           s == net[p].sent
           f == frames[p]
<1>1. p \in Conn /\ m \in Nat /\ done[p] \in Seq(Nat) /\ d \in Nat
  BY PeerOfCall, Fields DEF IInv
<1>2. done' = [done EXCEPT ![p] = done[p] \o bytes]
      /\ frames' = [frames EXCEPT ![p] = Framed(f, bytes, frame)]
  BY DEF Return
<1>3. /\ \A c \in Conn \ {p} : done'[c] = done[c] /\ frames'[c] = frames[c] /\ lost'[c] = lost[c]
      /\ done'[p] = done[p] \o bytes /\ lost'[p] = l
      /\ frames'[p] = Framed(f, bytes, frame)
  <2> DEFINE newDone == done[p] \o bytes
             newFrames == Framed(f, bytes, frame)
  <2>1. /\ done' = [done EXCEPT ![p] = newDone] /\ frames' = [frames EXCEPT ![p] = newFrames]
        /\ lost' = [lost EXCEPT ![p] = l]
    BY <1>2
  <2>2. DOMAIN done = Conn /\ DOMAIN frames = Conn /\ DOMAIN lost = Conn /\ p \in Conn
    BY <1>1, SMTT(60) DEF IInv, TypeOK
  <2> HIDE DEF newDone, newFrames, p
  <2>3. /\ done'[p] = newDone /\ frames'[p] = newFrames /\ lost'[p] = l
        /\ \A c \in Conn \ {p} : done'[c] = done[c] /\ frames'[c] = frames[c] /\ lost'[c] = lost[c]
    BY <2>1, <2>2
  <2>4. QED
    BY <2>3 DEF newDone, newFrames
<1>4. Len(done'[p]) = d + m /\ net'[p].sent = s
  BY <1>1, <1>3, Join
<1>5. l = {} => Follows(bytes, d) /\ lost[p] = {}
  OBVIOUS
<1>6. PlacesInv'
  BY DEF PlacesInv
<1>7. ASSUME frames'[p].whole, l = {}
      PROVE  /\ FramesEndAt(frames'[p].ends, s, d + m)
             /\ done'[p] = <<>> \/ d + m \in frames'[p].ends
  <2>2. CASE m = 0
    <3>1. bytes = <<>> /\ d + m = d
      BY <1>1, <2>2, SMTT(60)
    <3>2. frames'[p] = f /\ done'[p] = done[p]
      BY <1>1, <1>3, <3>1, WithEmpty DEF Framed
    <3>3. QED
      BY <1>1, <1>5, <1>7, <3>1, <3>2, SMTT(60) DEF FramesInv
  <2>3. CASE m # 0
    <3>1. bytes # <<>> /\ d \in Nat /\ \A i \in 1 .. m : bytes[i] = d + i
      BY <1>1, <1>5, <1>7, <2>3, SMTT(60) DEF Follows
    <3>2. frame /\ f.whole /\ frames'[p].ends = f.ends \cup {Last(bytes)}
      <4>1. f \in [whole : BOOLEAN, ends : SUBSET Nat]
        BY <1>1, SMTT(60) DEF IInv, TypeOK
      <4>2. CASE frame /\ f.whole
        BY <1>3, <3>1, <4>1, <4>2 DEF Framed
      <4>3. CASE ~(frame /\ f.whole)
        <5>1. frames'[p] = [NoFrames EXCEPT !.whole = FALSE]
          BY <1>3, <3>1, <4>3 DEF Framed
        <5>2. ~[NoFrames EXCEPT !.whole = FALSE].whole
          BY DEF NoFrames
        <5>3. QED
          BY <1>7, <5>1, <5>2
      <4>4. QED
        BY <4>2, <4>3
    <3>3. Last(bytes) = d + m
      <4>1. d \in Nat /\ Follows(bytes, d) /\ Len(bytes) # 0
        BY <2>3, <3>1 DEF Follows
      <4> HIDE DEF d
      <4>2. QED
        BY <4>1, LastFollows
    <3>4. FramesEndAt(f.ends, s, d) /\ (d = 0 \/ d \in f.ends)
      <4>1. f.whole /\ p \in Conn /\ lost[p] = {}
        BY <1>1, <1>5, <1>7, <3>2, SMTT(60)
      <4>2. Len(<<>>) = 0
        OBVIOUS
      <4> HIDE DEF p
      <4>3. QED
        BY <4>1, <4>2 DEF FramesInv
    <3>5. Follows(bytes, d) /\ bytes \in Seq(Nat) /\ m = Len(bytes) /\ m \in Nat
      BY <1>1, <3>1 DEF Follows
    <3>6. /\ DelimLen <= m /\ MarkedIn(s, bytes, m)
          /\ \A k \in DelimLen .. m - 1 : ~MarkedIn(s, bytes, k)
      BY <3>2
    <3> HIDE DEF f, s, d, m
    <3>7. Marked(s, d + m) /\ \A k \in DelimLen .. m - 1 : ~Marked(s, d + k)
      <4>1. ASSUME NEW k \in DelimLen .. m
            PROVE  MarkedIn(s, bytes, k) <=> Marked(s, d + k)
        <5> DEFINE e == d + k
        <5>1. e \in Nat /\ e = d + k /\ k \in DelimLen .. Len(bytes)
          BY <3>1, <3>5, DelimiterIsSome
        <5> HIDE DEF e
        <5>2. MarkedIn(s, bytes, k) <=> Marked(s, e)
          BY <3>1, <3>5, <5>1, MarkedBytes
        <5>3. QED
          BY <5>2 DEF e
      <4>2. m \in DelimLen .. m /\ \A k \in DelimLen .. m - 1 : k \in DelimLen .. m
        BY <3>5, <3>6, DelimiterIsSome
      <4>3. QED
        BY <3>6, <4>1, <4>2
    <3> DEFINE ends == f.ends
    <3>8. FramesEndAt(ends \cup {d + m}, s, d + m)
      <4>1. d \in Nat /\ m \in Nat /\ FramesEndAt(ends, s, d) /\ (d = 0 \/ d \in ends)
        BY <3>1, <3>4, <3>5
      <4> HIDE DEF ends
      <4>2. QED
        BY <3>6, <3>7, <4>1, NextFrame
    <3>9. QED
      BY <3>2, <3>3, <3>8
  <2>4. QED
    BY <2>2, <2>3
<1>8. FramesInv'
  <2>1. ASSUME NEW c \in Conn, frames'[c].whole, lost'[c] = {}
        PROVE  /\ FramesEndAt(frames'[c].ends, net'[c].sent, Len(done'[c]))
               /\ done'[c] = <<>> \/ Len(done'[c]) \in frames'[c].ends
    <3>1. CASE c = p
      BY <1>3, <1>4, <1>7, <2>1, <3>1
    <3>2. CASE c # p
      <4>1. /\ done'[c] = done[c] /\ frames'[c] = frames[c] /\ net'[c].sent = net[c].sent
            /\ lost'[c] = lost[c]
        BY <1>3, <3>2
      <4>2. QED
        BY <2>1, <4>1 DEF FramesInv
    <3>3. QED
      BY <3>1, <3>2
  <2>2. QED
    BY <2>1 DEF FramesInv
<1>9. QED
  BY <1>6, <1>8

\* What the call has comes next in a stream of which none is lost.
LEMMA CallFollows ==
  ASSUME IInv, BytesInv, call # Idle, lost[Peer] = {}
  PROVE  Follows(call.buf, Len(done[Peer]))
<1>1. call.buf \in Seq(Nat) /\ Pend \in Seq(Nat) /\ done[Peer] \in Seq(Nat)
  BY PeerOfCall, Fields DEF IInv
<1>2. Follows(done[Peer] \o (call.buf \o Pend), 0)
  BY CallBytes DEF InOrder
<1>3. QED
  BY <1>1, <1>2, PartFollows

LEMMA NothingFrames ==
  ASSUME IInv, BytesInv, PlacesInv, FramesInv,
         NEW status \in {"CLOSED", "ERROR", "TIMEOUT"}, ReadNothing(status)
  PROVE  PlacesInv' /\ FramesInv'
<1>1. /\ call # Idle /\ Return(call.buf, <<>>, status, FALSE) /\ UNCHANGED lost
      /\ net' = IF status = "ERROR" THEN [net EXCEPT ![Peer].eof = "fin"] ELSE net
  BY DEF ReadNothing, Reading
<1>2. Peer \in Conn /\ call.buf \in Seq(Nat)
  BY <1>1, PeerOfCall
<1>3. \A c \in Conn : net'[c].taken = net[c].taken /\ net'[c].sent = net[c].sent
  <2>1. CASE status = "ERROR"
    <3> DEFINE r == [net[Peer] EXCEPT !.eof = "fin"]
    <3>1. r.taken = net[Peer].taken /\ r.sent = net[Peer].sent
      <4>1. net[Peer] \in NetRec
        BY <1>2 DEF IInv, TypeOK
      <4>2. QED
        BY <4>1 DEF NetRec
    <3>2. net' = [net EXCEPT ![Peer] = r]
      BY <1>1, <2>1
    <3> HIDE DEF r
    <3>3. QED
      BY <1>2, <3>1, <3>2 DEF IInv, TypeOK
  <2>2. CASE status # "ERROR"
    BY <1>1, <2>2
  <2>3. QED
    BY <2>1, <2>2
<1>4. /\ lost' = [lost EXCEPT ![Peer] = lost[Peer]]
      /\ lost[Peer] = {} => Follows(call.buf, Len(done[Peer]))
  BY <1>1, <1>2, SameLost, CallFollows DEF IInv
<1>5. QED
  BY <1>1, <1>2, <1>3, <1>4, ReturnFrames

LEMMA EnoughFrames ==
  ASSUME IInv, BytesInv, PlacesInv, FramesInv, ReadEnough
  PROVE  PlacesInv' /\ FramesInv'
<1>1. call # Idle /\ Return(call.buf, Pend, "OK", FALSE) /\ UNCHANGED <<net, lost>>
  BY DEF ReadEnough, Reading
<1>2. call.buf \in Seq(Nat) /\ Peer \in Conn
  BY <1>1, PeerOfCall
<1>3. \A c \in Conn : net'[c].taken = net[c].taken /\ net'[c].sent = net[c].sent
  BY <1>1
<1>4. /\ lost' = [lost EXCEPT ![Peer] = lost[Peer]]
      /\ lost[Peer] = {} => Follows(call.buf, Len(done[Peer]))
  BY <1>1, <1>2, SameLost, CallFollows DEF IInv
<1>5. QED
  BY <1>1, <1>2, <1>3, <1>4, ReturnFrames

\* recv_until stops at the first delimiter in its buffer.
LEMMA FoundFrames ==
  ASSUME IInv, BytesInv, PlacesInv, FramesInv, FoundDelimiter
  PROVE  PlacesInv' /\ FramesInv'
<1> DEFINE e == FirstDelimiter
           buf == call.buf
           head == SubSeq(buf, 1, e)
           extra == SubSeq(buf, e + 1, Len(buf))
           kept == KeepPast(extra)
           s == net[Peer].sent
           l == lost[Peer] \cup NoRoomFor(extra)
<1>1. /\ call # Idle /\ DelimiterEnds(buf) # {} /\ UNCHANGED net
      /\ Return(head, kept, "OK", TRUE) /\ lost' = [lost EXCEPT ![Peer] = l]
  BY DEF FoundDelimiter, FirstDelimiter, Reading
<1>2. buf \in Seq(Nat) /\ Len(buf) \in Nat
  BY <1>1, PeerOfCall
<1>3. /\ e \in DelimiterEnds(buf) /\ \A k \in DelimiterEnds(buf) : e <= k
      /\ e \in 0 .. Len(buf) /\ e \in Nat /\ DelimLen <= e
  BY <1>1, FirstDelimiterInBuffer DEF IInv
<1>4. DelimiterEnds(buf) = {k \in DelimLen .. Len(buf) : MarkedIn(s, buf, k)}
  BY DEF DelimiterEnds, MarkedIn
<1>5. l = {} => lost[Peer] = {} /\ Follows(buf, Len(done[Peer]))
  BY <1>1, CallFollows
<1> HIDE DEF e, s, l, kept, extra
<1>6. /\ head \in Seq(Nat) /\ Len(head) = e
      /\ \A i \in 1 .. e : head[i] = buf[i]
  BY <1>2, <1>3, Cut
<1> HIDE DEF head
<1>7. ASSUME l = {} PROVE Follows(head, Len(done[Peer]))
  <2>1. \A i \in 1 .. e : i \in 1 .. Len(buf)
    BY <1>2, <1>3
  <2>2. QED
    BY <1>5, <1>6, <1>7, <2>1 DEF Follows
<1> HIDE DEF buf
<1>8. ASSUME NEW k \in DelimLen .. e PROVE MarkedIn(s, head, k) <=> MarkedIn(s, buf, k)
  <2>1. \A i \in k - DelimLen + 1 .. k : i \in 1 .. e
    BY <1>3, DelimiterIsSome
  <2>2. \A i \in k - DelimLen + 1 .. k : head[i] = buf[i]
    BY <1>6, <2>1
  <2>3. QED
    BY <2>2 DEF MarkedIn
<1>9. MarkedIn(s, head, e)
  <2>1. e \in DelimLen .. e /\ MarkedIn(s, buf, e)
    BY <1>3, <1>4, DelimiterIsSome
  <2>2. QED
    BY <1>8, <2>1
<1>10. ASSUME NEW k \in DelimLen .. e - 1 PROVE ~MarkedIn(s, head, k)
  <2>1. k \in DelimLen .. e /\ k \in DelimLen .. Len(buf) /\ ~(e <= k)
    BY <1>2, <1>3, DelimiterIsSome
  <2>2. ~MarkedIn(s, buf, k)
    BY <1>3, <1>4, <2>1
  <2>3. QED
    BY <1>8, <2>1, <2>2
<1>11. \A c \in Conn : net'[c].taken = net[c].taken /\ net'[c].sent = net[c].sent
  BY <1>1
<1>13. /\ DelimLen <= Len(head) /\ MarkedIn(net[Peer].sent, head, Len(head))
       /\ \A k \in DelimLen .. Len(head) - 1 : ~MarkedIn(net[Peer].sent, head, k)
  BY <1>3, <1>6, <1>9, <1>10 DEF s
<1>14. QED
  BY <1>1, <1>5, <1>6, <1>7, <1>11, <1>13, ReturnFrames

LEMMA FramesStep ==
  IInv /\ BytesInv /\ PlacesInv /\ FramesInv /\ [Next]_vars => PlacesInv' /\ FramesInv'
<1> SUFFICES ASSUME IInv, BytesInv, PlacesInv, FramesInv, [Next]_vars PROVE PlacesInv' /\ FramesInv'
  OBVIOUS
<1>1. CASE Peers
  BY <1>1, PeersFrames
<1>2. CASE Program
  BY <1>2, ProgramFrames
<1>3. CASE Runtime
  <2>1. TakeKept \/ ReadMore => PlacesInv' /\ FramesInv'
    BY SameFrames DEF TakeKept, ReadMore
  <2>2. QED
    BY <1>3, <2>1, TakeArrivedFrames, NothingFrames, FoundFrames, EnoughFrames DEF Runtime
<1>4. CASE UNCHANGED vars
  BY <1>4, SameFrames DEF vars
<1>5. QED
  BY <1>1, <1>2, <1>3, <1>4 DEF Next

LEMMA InitFrames == Init => PlacesInv /\ FramesInv
<1> SUFFICES ASSUME Init PROVE PlacesInv /\ FramesInv
  OBVIOUS
<1>1. \A c \in Conn : /\ net[c].taken = 0 /\ net[c].sent = <<>> /\ done[c] = <<>>
                      /\ frames[c].ends = {}
  BY DEF Init, Untouched, NoFrames
<1>2. FramesEndAt({}, <<>>, Len(<<>>))
  BY DelimiterIsSome DEF FramesEndAt
<1>3. PlacesInv
  BY <1>1 DEF PlacesInv
<1>4. FramesInv
  BY <1>1, <1>2 DEF FramesInv
<1>5. QED
  BY <1>3, <1>4

-------------------------------------------------------------------------------
(* The theorems.                                                               *)

\* The inductive invariant: whatever the peers and the program do, a handle has
\* a connection to itself, a read is of an open stream, and what was handed out,
\* what the call has and what the slot has are the stream without what is lost.
THEOREM InductiveInvariant == Spec => [](IInv /\ BytesInv)
<1>1. QED
  BY InitInv, NextInv, PTL DEF Spec

\* The table of handles, the connections and the call in progress keep their
\* types, and no slot holds more than its buffer.
THEOREM TypeCorrect == Spec => [](TypeOK /\ KeptInv)
<1>1. IInv => TypeOK /\ KeptInv
  BY DEF IInv
<1>2. QED
  BY <1>1, InductiveInvariant, PTL

\* A handle says CLOSED only when nothing that was buffered or had arrived before
\* the end of the stream is left (read_some), for any sizes and any buffer.
THEOREM ClosedIsDrained == Spec => []ClosedMeansDrained
<1>1. IInv => ClosedMeansDrained
  BY DEF IInv, ClosedInv, ClosedMeansDrained
<1>2. QED
  BY <1>1, InductiveInvariant, PTL

\* The bytes of every stream reach the program once and in order, whatever sizes
\* are asked for and whatever the slot can keep: the only ones that are missing
\* are those past a delimiter for which recv_until has no room.
THEOREM BytesInOrder == Spec => []BytesAccounted
<1>1. QED
  BY InductiveInvariant, BytesAreAccounted, PTL

\* A program that reads a stream with recv_until gets the frames the peer wrote,
\* wherever the kernel and earlier calls cut the stream, for a delimiter of any
\* length, as long as none of the stream is lost.
\* By FramesEndOnce there is only one way to cut a stream into its frames.
THEOREM FramesCorrect == Spec => []FramesAsWritten
<1>1. FramesInv => FramesAsWritten
  BY DEF FramesInv, FramesAsWritten
<1>2. IInv /\ BytesInv /\ PlacesInv /\ FramesInv /\ [Next]_vars => PlacesInv' /\ FramesInv'
  BY FramesStep
<1>3. QED
  BY <1>1, <1>2, InitFrames, InductiveInvariant, PTL DEF Spec
===============================================================================
