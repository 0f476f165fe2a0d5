--------------------------- MODULE NvSession_proofs ---------------------------
(* Proofs about NvSession, for any inputs over any functions and variables.    *)
(* IInv is the inductive invariant: what the definitions that are emitted      *)
(* again have to do with the latest ones, and how the checker's scope compares *)
(* with the definitions and with the scope of the accepted inputs alone, as    *)
(* long as nothing has happened that separates them.                           *)
EXTENDS NvSession, FunctionTheorems, FiniteSetTheorems, WellFoundedInduction, TLAPS

Name == Func \cup Var
Definition == {d \in Statement : d.kind = "def" /\ d.name \in Func}
Scope == UNION {[S -> Nat] : S \in SUBSET Name}

TypeOK ==
  /\ scope \in Scope /\ own \in Scope
  /\ decls \in Seq(Definition)
  /\ varNames \subseteq Var /\ store \subseteq varNames
  /\ verdict \in {"none", "refused", "ran", "broken"}
  /\ inputs \in Nat
  /\ justified \in BOOLEAN
  /\ latest \in UNION {[S -> Definition] : S \in SUBSET Func}
  /\ happened \subseteq {"refused", "ran", "broken", "thrown", "changed", "reset"}

\* One definition of each function is emitted again: the latest.
DeclsInv ==
  /\ \A i, j \in DOMAIN decls : decls[i].name = decls[j].name => i = j
  /\ DOMAIN latest = {d.name : d \in ToSet(decls)}
  /\ \A d \in ToSet(decls) : latest[d.name] = d

\* What the statement d reads and calls is in the scope sc.
Fits(sc, d) ==
  /\ d.reads \subseteq DOMAIN sc
  /\ \A call \in d.calls : call[1] \in DOMAIN sc /\ sc[call[1]] = call[2]

\* Until a :reset the definitions that are emitted again need nothing new, and
\* the accepted inputs have entered them.
KeptFit ==
  Without({"reset"}) =>
    \A d \in ToSet(decls) : d.name \in DOMAIN own /\ Fits(scope, d)

\* The scope has what the accepted inputs entered; what refused inputs entered
\* besides is all that it has more.
ScopesAgree ==
  /\ \A x \in Var : (x \in DOMAIN scope => scope[x] = 0) /\ (x \in DOMAIN own => own[x] = 0)
  /\ Without({"changed", "reset"}) =>
       \A n \in DOMAIN own : n \in DOMAIN scope /\ scope[n] = own[n]
  /\ Without({"changed", "reset", "refused"}) => DOMAIN scope \subseteq DOMAIN own

\* If nothing was refused and no lowering threw, a function in the scope is one
\* that is emitted again.
FunctionsKept ==
  Without({"changed", "refused", "thrown"}) =>
    \A f \in Func \cap DOMAIN scope :
      \E d \in ToSet(decls) : d.name = f /\ d.arity = scope[f]

IInv ==
  /\ TypeOK /\ DeclsInv /\ KeptFit /\ ScopesAgree /\ FunctionsKept
  /\ JustifiedIsAccepted /\ OnlyJustifiedAccepted

-------------------------------------------------------------------------------
(* Omit.                                                                       *)

\* Induction up to N, on a set.
LEMMA UpTo ==
  ASSUME NEW N \in Nat, NEW S, 0 \in S, \A n \in 1 .. N : n - 1 \in S => n \in S
  PROVE  \A n \in 0 .. N : n \in S
<1> DEFINE T == {n \in 0 .. N : n \notin S}
<1> SUFFICES ASSUME T # {} PROVE FALSE
  OBVIOUS
<1>1. T \subseteq Nat
  OBVIOUS
<1>2. PICK m \in T : \A k \in T : ~ (<<k, m>> \in OpToRel(<, Nat))
  BY <1>1, NatLessThanWellFounded, WFMin, ZenonT(60)
<1>3. m \in 1 .. N /\ m - 1 \in 0 .. N
  <2>1. m \in 0 .. N /\ m \notin S
    OBVIOUS
  <2>2. m # 0
    BY <2>1
  <2>3. QED
    BY <2>1, <2>2
<1>4. m - 1 \in S
  <2>1. m - 1 \in T => <<m - 1, m>> \in OpToRel(<, Nat)
    BY <1>3 DEF OpToRel
  <2>2. QED
    BY <1>2, <1>3, <2>1, ZenonT(60)
<1>5. QED
  BY <1>2, <1>3, <1>4, ZenonT(60)

\* One step of Omit, and the function it is.
Kept(s, out, n, before) ==
  IF n = 0 THEN <<>> ELSE IF s[n] \in out THEN before ELSE Append(before, s[n])

LEMMA OmitIsDefined ==
  ASSUME NEW X, NEW s \in Seq(X), NEW out
  PROVE  \E kept : /\ kept = [n \in 0 .. Len(s) |-> Kept(s, out, n, kept[n - 1])]
                   /\ Omit(s, out) = kept[Len(s)]
<1> DEFINE Fits2(k, m) == \A n \in 0 .. m : k[n] = Kept(s, out, n, k[n - 1])
           S == {m \in Nat : \E k : k = [n \in 0 .. m |-> k[n]] /\ Fits2(k, m)}
<1>1. Len(s) \in Nat
  OBVIOUS
<1>2. 0 \in S
  <2> DEFINE k == [n \in 0 .. 0 |-> <<>>]
  <2>1. k = [n \in 0 .. 0 |-> k[n]] /\ Fits2(k, 0)
    BY DEF Kept
  <2>2. QED
    BY <2>1
<1>3. ASSUME NEW n \in 1 .. Len(s), n - 1 \in S
      PROVE  n \in S
  <2>1. PICK k : k = [i \in 0 .. n - 1 |-> k[i]] /\ Fits2(k, n - 1)
    BY <1>3
  <2> DEFINE j == [i \in 0 .. n |-> IF i < n THEN k[i] ELSE Kept(s, out, n, k[n - 1])]
  <2>2. j = [i \in 0 .. n |-> j[i]] /\ j[n] = Kept(s, out, n, k[n - 1])
    OBVIOUS
  <2>3. \A i \in 0 .. n - 1 : j[i] = k[i]
    OBVIOUS
  <2>4. j[0] = <<>>
    <3>1. 0 \in 0 .. n - 1
      OBVIOUS
    <3>2. k[0] = Kept(s, out, 0, k[0 - 1])
      BY <2>1, <3>1
    <3>3. QED
      BY <2>3, <3>1, <3>2 DEF Kept
  <2> HIDE DEF j
  <2>5. ASSUME NEW i \in 0 .. n
        PROVE  j[i] = Kept(s, out, i, j[i - 1])
    <3>1. CASE i = 0
      BY <2>4, <3>1 DEF Kept
    <3>2. CASE i = n
      <4>1. j[n - 1] = k[n - 1]
        BY <2>3
      <4>2. QED
        BY <2>2, <3>2, <4>1
    <3>3. CASE i # 0 /\ i # n
      <4>1. i \in 0 .. n - 1 /\ i - 1 \in 0 .. n - 1
        BY <3>3
      <4>2. j[i] = k[i] /\ j[i - 1] = k[i - 1] /\ k[i] = Kept(s, out, i, k[i - 1])
        BY <2>1, <2>3, <4>1
      <4>3. QED
        BY <4>2
    <3>4. QED
      BY <3>1, <3>2, <3>3
  <2>6. Fits2(j, n) /\ n \in Nat
    BY <2>5
  <2>7. QED
    BY <2>2, <2>6
<1>4. Len(s) \in S
  <2> HIDE DEF S
  <2>1. \A n \in 0 .. Len(s) : n \in S
    BY <1>1, <1>2, <1>3, UpTo
  <2>2. QED
    BY <1>1, <2>1
<1>5. PICK k : k = [n \in 0 .. Len(s) |-> k[n]] /\ Fits2(k, Len(s))
  BY <1>4
<1>6. k = [n \in 0 .. Len(s) |-> Kept(s, out, n, k[n - 1])]
  BY <1>5
<1> DEFINE kept == CHOOSE kept : kept = [n \in 0 .. Len(s) |-> Kept(s, out, n, kept[n - 1])]
<1>7. kept = [n \in 0 .. Len(s) |-> Kept(s, out, n, kept[n - 1])]
  BY <1>6
<1>8. Omit(s, out) = kept[Len(s)]
  BY DEF Omit, Kept
<1>9. QED
  BY <1>7, <1>8

\* No two statements of q that are not in out have one name.
Single(q, out) ==
  \A i, j \in DOMAIN q : q[i] \notin out /\ q[j] \notin out /\ q[i].name = q[j].name => i = j
OneEach(q) == Single(q, {})

LEMMA AppendFacts ==
  ASSUME NEW X, NEW q \in Seq(X), NEW x \in X
  PROVE  /\ Append(q, x) \in Seq(X)
         /\ ToSet(Append(q, x)) = ToSet(q) \cup {x}
         /\ OneEach(q) /\ (\A y \in ToSet(q) : y.name # x.name) => OneEach(Append(q, x))
<1> DEFINE r == Append(q, x)
<1>1. /\ r \in Seq(X) /\ Len(q) \in Nat /\ DOMAIN q = 1 .. Len(q)
      /\ DOMAIN r = 1 .. Len(q) + 1
      /\ \A i \in 1 .. Len(q) : r[i] = q[i] /\ r[Len(q) + 1] = x
  OBVIOUS
<1>2. r[Len(q) + 1] = x /\ Len(q) + 1 \in DOMAIN r
  BY <1>1
<1> HIDE DEF r
<1>3. ToSet(r) = ToSet(q) \cup {x}
  <2>1. ToSet(r) \subseteq ToSet(q) \cup {x}
    <3>1. \A i \in DOMAIN r : i \in DOMAIN q \/ i = Len(q) + 1
      BY <1>1
    <3>2. QED
      BY <1>1, <1>2, <3>1 DEF ToSet
  <2>2. ToSet(q) \subseteq ToSet(r)
    <3>1. \A i \in DOMAIN q : i \in DOMAIN r /\ r[i] = q[i]
      BY <1>1
    <3>2. QED
      BY <3>1 DEF ToSet
  <2>3. x \in ToSet(r)
    BY <1>2 DEF ToSet
  <2>4. QED
    BY <2>1, <2>2, <2>3
<1>4. ASSUME OneEach(q), \A y \in ToSet(q) : y.name # x.name,
             NEW i \in DOMAIN r, NEW j \in DOMAIN r, r[i].name = r[j].name
      PROVE  i = j
  <2>1. CASE i \in DOMAIN q /\ j \in DOMAIN q
    BY <1>1, <1>4, <2>1 DEF OneEach, Single
  <2>2. \A k \in DOMAIN q : r[k].name # x.name
    BY <1>1, <1>4 DEF ToSet
  <2>3. \A k \in DOMAIN r : k \in DOMAIN q \/ k = Len(q) + 1
    BY <1>1
  <2>4. CASE i \notin DOMAIN q \/ j \notin DOMAIN q
    BY <1>2, <1>4, <2>2, <2>3, <2>4
  <2>5. QED
    BY <2>1, <2>4
<1>5. QED
  BY <1>1, <1>3, <1>4 DEF r, OneEach, Single

LEMMA JoinFacts ==
  ASSUME NEW X, NEW q \in Seq(X), NEW r \in Seq(X), NEW out
  PROVE  /\ q \o r \in Seq(X)
         /\ ToSet(q \o r) = ToSet(q) \cup ToSet(r)
         /\ Single(q, out) /\ Single(r, out)
              /\ (\A y \in ToSet(q) \ out, z \in ToSet(r) \ out : y.name # z.name)
              => Single(q \o r, out)
<1> DEFINE t == q \o r
<1>1. /\ t \in Seq(X) /\ Len(q) \in Nat /\ Len(r) \in Nat
      /\ DOMAIN q = 1 .. Len(q) /\ DOMAIN r = 1 .. Len(r) /\ DOMAIN t = 1 .. Len(q) + Len(r)
      /\ \A i \in 1 .. Len(q) : t[i] = q[i]
      /\ \A i \in 1 .. Len(r) : t[Len(q) + i] = r[i]
  OBVIOUS
<1> HIDE DEF t
<1>2. \A i \in DOMAIN t :
        \/ i \in DOMAIN q /\ t[i] = q[i]
        \/ i - Len(q) \in DOMAIN r /\ t[i] = r[i - Len(q)]
  <2>1. ASSUME NEW i \in DOMAIN t, i \notin DOMAIN q
        PROVE  i - Len(q) \in DOMAIN r /\ t[i] = r[i - Len(q)]
    <3>1. i - Len(q) \in 1 .. Len(r) /\ i = Len(q) + (i - Len(q))
      BY <1>1, <2>1
    <3>2. QED
      BY <1>1, <3>1
  <2>2. QED
    BY <1>1, <2>1
<1>3. \A i \in DOMAIN q : i \in DOMAIN t /\ t[i] = q[i]
  BY <1>1
<1>4. \A i \in DOMAIN r : Len(q) + i \in DOMAIN t /\ t[Len(q) + i] = r[i]
  BY <1>1
<1>5. ToSet(t) = ToSet(q) \cup ToSet(r)
  <2>1. ToSet(t) \subseteq ToSet(q) \cup ToSet(r)
    BY <1>2 DEF ToSet
  <2>2. ToSet(q) \subseteq ToSet(t)
    BY <1>3 DEF ToSet
  <2>3. ToSet(r) \subseteq ToSet(t)
    BY <1>4 DEF ToSet
  <2>4. QED
    BY <2>1, <2>2, <2>3
<1>6. ASSUME Single(q, out), Single(r, out),
             \A y \in ToSet(q) \ out, z \in ToSet(r) \ out : y.name # z.name,
             NEW i \in DOMAIN t, NEW j \in DOMAIN t,
             t[i] \notin out, t[j] \notin out, t[i].name = t[j].name
      PROVE  i = j
  <2>1. \A k \in DOMAIN q, l \in DOMAIN r :
          q[k] \notin out /\ r[l] \notin out => q[k].name # r[l].name
    BY <1>6 DEF ToSet
  <2>2. CASE i \in DOMAIN q /\ t[i] = q[i] /\ j \in DOMAIN q /\ t[j] = q[j]
    BY <1>6, <2>2 DEF Single
  <2>3. CASE /\ i - Len(q) \in DOMAIN r /\ t[i] = r[i - Len(q)]
             /\ j - Len(q) \in DOMAIN r /\ t[j] = r[j - Len(q)]
    <3>1. i - Len(q) = j - Len(q)
      BY <1>6, <2>3 DEF Single
    <3>2. i \in Nat /\ j \in Nat
      BY <1>1
    <3>3. QED
      BY <1>1, <3>1, <3>2
  <2>4. QED
    BY <1>2, <1>6, <2>1, <2>2, <2>3
<1>7. QED
  BY <1>1, <1>5, <1>6 DEF t, Single

\* Omit leaves what is not in out, and no second statement of a name if only one
\* of its statements is not in out.
LEMMA OmitFacts ==
  ASSUME NEW X, NEW s \in Seq(X), NEW out
  PROVE  /\ Omit(s, out) \in Seq(X)
         /\ ToSet(Omit(s, out)) = ToSet(s) \ out
         /\ Single(s, out) => OneEach(Omit(s, out))
<1>1. PICK kept : /\ kept = [n \in 0 .. Len(s) |-> Kept(s, out, n, kept[n - 1])]
                  /\ Omit(s, out) = kept[Len(s)]
  BY OmitIsDefined
<1>2. Len(s) \in Nat /\ DOMAIN s = 1 .. Len(s)
  OBVIOUS
<1> DEFINE First(n) == {s[i] : i \in 1 .. n} \ out
           Right(n) == kept[n] \in Seq(X) /\ ToSet(kept[n]) = First(n) /\ (Single(s, out) => OneEach(kept[n]))
           S == {n \in Nat : Right(n)}
<1>3. 0 \in S
  <2>1. kept[0] = <<>>
    BY <1>1, <1>2 DEF Kept
  <2>2. <<>> \in Seq(X) /\ ToSet(<<>>) = {} /\ OneEach(<<>>)
    BY DEF ToSet, OneEach, Single
  <2>3. First(0) = {}
    OBVIOUS
  <2>4. QED
    BY <2>1, <2>2, <2>3
<1>4. ASSUME NEW n \in 1 .. Len(s), n - 1 \in S
      PROVE  n \in S
  <2>1. kept[n] = IF s[n] \in out THEN kept[n - 1] ELSE Append(kept[n - 1], s[n])
    <3>1. n \in 0 .. Len(s) /\ n # 0
      BY <1>2
    <3>2. kept[n] = Kept(s, out, n, kept[n - 1])
      BY <1>1, <3>1
    <3>3. QED
      BY <3>1, <3>2 DEF Kept
  <2>2. Right(n - 1) /\ s[n] \in X /\ n \in DOMAIN s
    BY <1>2, <1>4
  <2>3. {s[i] : i \in 1 .. n} = {s[i] : i \in 1 .. n - 1} \cup {s[n]}
    <3>1. \A i \in 1 .. n : i \in 1 .. n - 1 \/ i = n
      OBVIOUS
    <3>2. \A i \in 1 .. n - 1 : i \in 1 .. n
      OBVIOUS
    <3>3. QED
      BY <3>1, <3>2
  <2>4. CASE s[n] \in out
    <3>1. First(n) = First(n - 1)
      BY <2>3, <2>4
    <3>2. QED
      BY <2>1, <2>2, <2>4, <3>1
  <2>5. CASE s[n] \notin out
    <3>1. First(n) = First(n - 1) \cup {s[n]}
      BY <2>3, <2>5
    <3>2. ASSUME Single(s, out), NEW y \in ToSet(kept[n - 1])
          PROVE  y.name # s[n].name
      <4>1. PICK i \in 1 .. n - 1 : y = s[i] /\ s[i] \notin out
        BY <2>2
      <4>2. i \in DOMAIN s /\ i # n
        BY <1>2
      <4>3. QED
        BY <2>2, <2>5, <3>2, <4>1, <4>2 DEF Single
    <3> HIDE DEF First
    <3>3. Append(kept[n - 1], s[n]) \in Seq(X)
      BY <2>2, AppendFacts
    <3>4. ToSet(Append(kept[n - 1], s[n])) = First(n)
      BY <2>2, <3>1, AppendFacts
    <3>5. Single(s, out) => OneEach(Append(kept[n - 1], s[n]))
      BY <2>2, <3>2, AppendFacts
    <3>6. kept[n] = Append(kept[n - 1], s[n])
      BY <2>1, <2>5
    <3>7. Right(n) /\ n \in Nat
      BY <3>3, <3>4, <3>5, <3>6
    <3>8. QED
      BY <3>7
  <2>6. QED
    BY <2>4, <2>5
<1>5. Len(s) \in S
  <2> HIDE DEF S
  <2>1. Len(s) \in Nat
    OBVIOUS
  <2>2. \A n \in 0 .. Len(s) : n \in S
    BY <1>3, <1>4, <2>1, UpTo
  <2>3. QED
    BY <2>1, <2>2
<1>6. First(Len(s)) = ToSet(s) \ out
  BY <1>2 DEF ToSet
<1>7. QED
  BY <1>1, <1>5, <1>6

-------------------------------------------------------------------------------
(* Scopes and programs, by the sets of their statements.                       *)

LEMMA ScopeFacts ==
  ASSUME NEW sc
  PROVE  sc \in Scope <=> /\ sc = [n \in DOMAIN sc |-> sc[n]] /\ DOMAIN sc \subseteq Name
                          /\ \A n \in DOMAIN sc : sc[n] \in Nat
<1>1. ASSUME sc \in Scope
      PROVE  /\ sc = [n \in DOMAIN sc |-> sc[n]] /\ DOMAIN sc \subseteq Name
             /\ \A n \in DOMAIN sc : sc[n] \in Nat
  <2>1. PICK S \in SUBSET Name : sc \in [S -> Nat]
    BY <1>1 DEF Scope
  <2>2. QED
    BY <2>1
<1>2. ASSUME sc = [n \in DOMAIN sc |-> sc[n]], DOMAIN sc \subseteq Name,
             \A n \in DOMAIN sc : sc[n] \in Nat
      PROVE  sc \in Scope
  <2>1. sc \in [DOMAIN sc -> Nat]
    BY <1>2
  <2>2. QED
    BY <1>2, <2>1 DEF Scope
<1>3. QED
  BY <1>1, <1>2

\* A program gives each function one definition.
Proper(p) ==
  /\ p \in Seq(Statement)
  /\ \A s \in ToSet(p) : (s.kind = "def" => s.name \in Func) /\ (s.kind = "set" => s.name \in Var)
  /\ \A d, e \in ToSet(p) : d.kind = "def" /\ e.kind = "def" /\ d.name = e.name => d = e

LEMMA CellFacts ==
  ASSUME NEW c \in Cells
  PROVE  Proper(c)
<1>1. c \in Seq(Statement)
  BY SessionAssumption
<1>2. \A i \in DOMAIN c :
        /\ c[i].kind = "def" => c[i].name \in Func
        /\ c[i].kind = "set" => c[i].name \in Var
  BY SessionAssumption
<1>3. \A i, j \in DOMAIN c :
        c[i].kind = "def" /\ c[j].kind = "def" /\ c[i].name = c[j].name => i = j
  BY SessionAssumption
<1>4. \A s \in ToSet(c) : \E i \in DOMAIN c : s = c[i]
  BY DEF ToSet
<1>5. \A s \in ToSet(c) : (s.kind = "def" => s.name \in Func) /\ (s.kind = "set" => s.name \in Var)
  BY <1>2, <1>4
<1>6. \A d, e \in ToSet(c) : d.kind = "def" /\ e.kind = "def" /\ d.name = e.name => d = e
  BY <1>3, <1>4
<1>7. QED
  BY <1>1, <1>5, <1>6 DEF Proper

LEMMA NamesFacts ==
  ASSUME NEW p, NEW kind
  PROVE  /\ \A s \in ToSet(p) : s.kind = kind => s.name \in Names(p, kind)
         /\ \A n \in Names(p, kind) : \E s \in ToSet(p) : s.kind = kind /\ s.name = n
BY DEF Names, ToSet

LEMMA ChecksFacts ==
  ASSUME NEW sc, NEW p
  PROVE  Checks(sc, p) <=> \A s \in ToSet(p) : Fits(sc, s)
BY DEF Checks, ToSet, Fits

LEMMA EnteredFacts ==
  ASSUME NEW sc \in Scope, NEW p, Proper(p)
  PROVE  /\ Entered(sc, p) \in Scope
         /\ DOMAIN Entered(sc, p) = DOMAIN sc \cup Names(p, "set") \cup Names(p, "def")
         /\ \A n \in DOMAIN sc : Entered(sc, p)[n] = sc[n]
         /\ \A x \in Names(p, "set") : x \in Var /\ (x \notin DOMAIN sc => Entered(sc, p)[x] = 0)
         /\ \A d \in ToSet(p) : d.kind = "def" /\ d.name \notin DOMAIN sc =>
              Entered(sc, p)[d.name] = d.arity
<1> DEFINE At(f) == CHOOSE i \in DOMAIN p : p[i].kind = "def" /\ p[i].name = f
           sets == [x \in Names(p, "set") |-> 0]
           defs == [f \in Names(p, "def") |-> p[At(f)].arity]
           e == Entered(sc, p)
<1>1. e = Else(sc, Else(sets, defs))
  BY DEF Entered
<1>2. ASSUME NEW d \in ToSet(p), d.kind = "def"
      PROVE  d.name \in Func /\ d.name \in Names(p, "def") /\ p[At(d.name)] = d
  <2>1. PICK i \in DOMAIN p : p[i] = d
    BY DEF ToSet
  <2>2. At(d.name) \in DOMAIN p /\ p[At(d.name)].kind = "def" /\ p[At(d.name)].name = d.name
    BY <1>2, <2>1
  <2>3. p[At(d.name)] \in ToSet(p)
    BY <2>2 DEF ToSet
  <2>4. p[At(d.name)] = d
    BY <1>2, <2>2, <2>3 DEF Proper
  <2>5. QED
    BY <1>2, <2>4, NamesFacts DEF Proper
<1>3. \A f \in Names(p, "def") : f \in Func /\ defs[f] \in Nat
  <2>1. ASSUME NEW f \in Names(p, "def")
        PROVE  f \in Func /\ defs[f] \in Nat
    <3>1. PICK d \in ToSet(p) : d.kind = "def" /\ d.name = f
      BY NamesFacts
    <3>2. defs[f] = d.arity /\ f \in Func
      BY <1>2, <3>1
    <3>3. d \in Statement
      <4>1. p \in Seq(Statement)
        BY DEF Proper
      <4>2. QED
        BY <4>1 DEF ToSet
    <3>4. QED
      BY <3>2, <3>3, ZenonT(60) DEF Statement
  <2>2. QED
    BY <2>1
<1>4. \A x \in Names(p, "set") : x \in Var
  BY NamesFacts DEF Proper
<1>5. /\ DOMAIN sets = Names(p, "set") /\ DOMAIN defs = Names(p, "def")
      /\ \A x \in DOMAIN sets : sets[x] = 0
  OBVIOUS
<1>6. \A d \in ToSet(p) : d.kind = "def" => defs[d.name] = d.arity /\ d.name \in Func
  BY <1>2
<1>7. /\ sc = [n \in DOMAIN sc |-> sc[n]] /\ DOMAIN sc \subseteq Name
      /\ \A n \in DOMAIN sc : sc[n] \in Nat
  BY ScopeFacts
<1> HIDE DEF sets, defs, e
<1>8. /\ e = [n \in DOMAIN e |-> e[n]]
      /\ DOMAIN e = DOMAIN sc \cup (DOMAIN sets \cup DOMAIN defs)
      /\ \A n \in DOMAIN sc : e[n] = sc[n]
      /\ \A n \in DOMAIN sets \ DOMAIN sc : e[n] = sets[n]
      /\ \A n \in DOMAIN defs \ (DOMAIN sc \cup DOMAIN sets) : e[n] = defs[n]
  BY <1>1 DEF Else
<1>9. DOMAIN e \subseteq Name /\ \A n \in DOMAIN e : e[n] \in Nat
  BY <1>3, <1>4, <1>5, <1>7, <1>8 DEF Name
<1>10. e \in Scope
  BY <1>8, <1>9, ScopeFacts
<1>11. ASSUME NEW d \in ToSet(p), d.kind = "def", d.name \notin DOMAIN sc
       PROVE  e[d.name] = d.arity
  <2>1. d.name \in DOMAIN defs \ (DOMAIN sc \cup DOMAIN sets)
    BY <1>2, <1>4, <1>5, <1>11, SessionAssumption
  <2>2. QED
    BY <1>6, <1>8, <1>11, <2>1
<1>12. QED
  BY <1>4, <1>5, <1>8, <1>10, <1>11 DEF e

\* The definitions of earlier inputs that c does not give again.
KeptDecls(c) == {d \in ToSet(decls) : d.name \notin Names(c, "def")}
DefsOf(c) == {d \in ToSet(c) : d.kind = "def"}

LEMMA DefsFacts ==
  ASSUME NEW p \in Seq(Statement)
  PROVE  /\ Defs(p) \in Seq(Statement) /\ ToSet(Defs(p)) = DefsOf(p)
         /\ Single(p, {s \in ToSet(p) : s.kind # "def"}) => OneEach(Defs(p))
<1> DEFINE out == {s \in ToSet(p) : s.kind # "def"}
<1>1. Defs(p) = Omit(p, out)
  BY DEF Defs
<1>2. ToSet(p) \ out = DefsOf(p)
  BY DEF DefsOf
<1> HIDE DEF out
<1>3. /\ Omit(p, out) \in Seq(Statement) /\ ToSet(Omit(p, out)) = ToSet(p) \ out
      /\ Single(p, out) => OneEach(Omit(p, out))
  BY OmitFacts
<1>4. QED
  BY <1>1, <1>2, <1>3 DEF out

LEMMA SeqOfFewer ==
  ASSUME NEW X, NEW Y, NEW s \in Seq(X), ToSet(s) \subseteq Y
  PROVE  s \in Seq(Y)
<1>1. Len(s) \in Nat /\ s = [i \in 1 .. Len(s) |-> s[i]]
  OBVIOUS
<1>2. \A i \in 1 .. Len(s) : s[i] \in Y
  BY DEF ToSet
<1>3. QED
  BY <1>1, <1>2

LEMMA SingleIn ==
  ASSUME NEW q, NEW few, NEW many, Single(q, few),
         \A s \in ToSet(q) : s \in few => s \in many
  PROVE  Single(q, many)
BY DEF Single, ToSet

LEMMA CellDefs ==
  ASSUME NEW c \in Cells
  PROVE  /\ Defs(c) \in Seq(Definition) /\ ToSet(Defs(c)) = DefsOf(c) /\ OneEach(Defs(c))
         /\ Single(c, {s \in Statement : s.kind # "def"})
<1>1. c \in Seq(Statement) /\ Proper(c)
  BY CellFacts DEF Proper
<1>2. \A i, j \in DOMAIN c :
        c[i].kind = "def" /\ c[j].kind = "def" /\ c[i].name = c[j].name => i = j
  BY SessionAssumption
<1>3. \A i \in DOMAIN c : c[i] \in ToSet(c) /\ c[i] \in Statement
  BY <1>1 DEF ToSet
<1>4. Single(c, {s \in ToSet(c) : s.kind # "def"}) /\ Single(c, {s \in Statement : s.kind # "def"})
  BY <1>2, <1>3 DEF Single
<1>5. Defs(c) \in Seq(Statement) /\ ToSet(Defs(c)) = DefsOf(c) /\ OneEach(Defs(c))
  BY <1>1, <1>4, DefsFacts
<1>6. DefsOf(c) \subseteq Definition
  <2>1. ToSet(c) \subseteq Statement
    BY <1>1 DEF ToSet
  <2>2. QED
    BY <1>1, <2>1 DEF Proper, DefsOf, Definition
<1>7. QED
  BY <1>4, <1>5, <1>6, SeqOfFewer

\* The definitions of earlier inputs as they are emitted again with c.
LEMMA KeptFacts ==
  ASSUME TypeOK, DeclsInv, NEW c \in Cells
  PROVE  /\ Omit(decls, Replaced(c)) \in Seq(Definition)
         /\ ToSet(Omit(decls, Replaced(c))) = KeptDecls(c)
         /\ OneEach(Omit(decls, Replaced(c)))
         /\ KeptDecls(c) \subseteq Definition
<1>1. decls \in Seq(Definition)
  BY DEF TypeOK
<1>2. ToSet(decls) \ Replaced(c) = KeptDecls(c) /\ ToSet(decls) \subseteq Definition
  BY <1>1 DEF Replaced, KeptDecls, ToSet
<1>3. Single(decls, Replaced(c))
  BY DEF DeclsInv, Single
<1>4. QED
  BY <1>1, <1>2, <1>3, OmitFacts, ZenonT(60)

LEMMA ProgramFacts ==
  ASSUME TypeOK, DeclsInv, NEW c \in Cells
  PROVE  /\ Proper(Program(c)) /\ ToSet(Program(c)) = KeptDecls(c) \cup ToSet(c)
         /\ OneEach(Defs(Program(c)))
         /\ ToSet(Defs(Program(c))) = KeptDecls(c) \cup DefsOf(c)
<1> DEFINE k == Omit(decls, Replaced(c))
           nodef == {s \in Statement : s.kind # "def"}
<1>1. /\ k \in Seq(Definition) /\ ToSet(k) = KeptDecls(c) /\ OneEach(k)
      /\ KeptDecls(c) \subseteq Definition
  BY KeptFacts
<1>2. Program(c) = k \o c
  BY DEF Program
<1> HIDE DEF k
<1>3. /\ Proper(c) /\ c \in Seq(Statement) /\ ToSet(c) \subseteq Statement
  BY CellFacts DEF Proper, ToSet
<1>4. k \in Seq(Statement)
  <2>1. ToSet(k) \subseteq Statement
    BY <1>1 DEF Definition
  <2>2. QED
    BY <1>1, <2>1, SeqOfFewer
<1>5. Single(k, nodef) /\ Single(c, nodef)
  <2>1. Single(k, nodef)
    BY <1>1 DEF OneEach, Single
  <2>2. QED
    BY <2>1, CellDefs
<1>6. \A y \in ToSet(k) \ nodef, z \in ToSet(c) \ nodef : y.name # z.name
  <2>1. \A z \in ToSet(c) \ nodef : z.name \in Names(c, "def")
    BY <1>3, NamesFacts
  <2>2. QED
    BY <1>1, <2>1 DEF KeptDecls
<1> HIDE DEF nodef
<1>7. /\ Program(c) \in Seq(Statement) /\ ToSet(Program(c)) = KeptDecls(c) \cup ToSet(c)
      /\ Single(Program(c), nodef)
  BY <1>1, <1>2, <1>3, <1>4, <1>5, <1>6, JoinFacts
<1>8. Proper(Program(c))
  <2>1. \A d \in KeptDecls(c) : d.kind = "def" /\ d.name \in Func /\ d.name \notin Names(c, "def")
    BY <1>1 DEF Definition, KeptDecls
  <2>2. \A d, e \in KeptDecls(c) : d.name = e.name => d = e
    BY DEF DeclsInv, KeptDecls, ToSet
  <2>3. \A e \in ToSet(c) : e.kind = "def" => e.name \in Names(c, "def")
    BY NamesFacts
  <2>4. \A s \in ToSet(Program(c)) :
          (s.kind = "def" => s.name \in Func) /\ (s.kind = "set" => s.name \in Var)
    BY <1>3, <1>7, <2>1 DEF Proper
  <2>5. \A d, e \in ToSet(Program(c)) :
          d.kind = "def" /\ e.kind = "def" /\ d.name = e.name => d = e
    BY <1>3, <1>7, <2>1, <2>2, <2>3 DEF Proper
  <2>6. QED
    BY <1>7, <2>4, <2>5 DEF Proper
<1>9. DefsOf(Program(c)) = KeptDecls(c) \cup DefsOf(c)
  BY <1>1, <1>7 DEF DefsOf, Definition
<1>10. Single(Program(c), {s \in ToSet(Program(c)) : s.kind # "def"})
  <2>1. \A s \in ToSet(Program(c)) : s \in nodef => s \in {t \in ToSet(Program(c)) : t.kind # "def"}
    BY DEF nodef
  <2>2. QED
    BY <1>7, <2>1, SingleIn
<1>11. QED
  BY <1>7, <1>8, <1>9, <1>10, DefsFacts

\* What Remember keeps.
LEMMA RememberFacts ==
  ASSUME TypeOK, DeclsInv, NEW c \in Cells, Remember(c)
  PROVE  /\ decls' \in Seq(Definition) /\ ToSet(decls') = KeptDecls(c) \cup DefsOf(c)
         /\ OneEach(decls')
<1> DEFINE k == Omit(decls, Replaced(c))
<1>1. k \in Seq(Definition) /\ ToSet(k) = KeptDecls(c) /\ OneEach(k)
  BY KeptFacts
<1>2. decls' = k \o Defs(c)
  BY DEF Remember
<1> HIDE DEF k
<1>3. Defs(c) \in Seq(Definition) /\ ToSet(Defs(c)) = DefsOf(c) /\ OneEach(Defs(c))
  BY CellDefs
<1>4. \A y \in ToSet(k) \ {}, z \in ToSet(Defs(c)) \ {} : y.name # z.name
  <2>1. \A z \in DefsOf(c) : z.name \in Names(c, "def")
    BY NamesFacts DEF DefsOf
  <2>2. QED
    BY <1>1, <1>3, <2>1 DEF KeptDecls
<1>5. Single(k, {}) /\ Single(Defs(c), {})
  BY <1>1, <1>3 DEF OneEach
<1>6. /\ k \o Defs(c) \in Seq(Definition) /\ ToSet(k \o Defs(c)) = ToSet(k) \cup ToSet(Defs(c))
      /\ Single(k \o Defs(c), {})
  BY <1>1, <1>3, <1>4, <1>5, JoinFacts
<1>7. QED
  BY <1>1, <1>2, <1>3, <1>6 DEF OneEach

-------------------------------------------------------------------------------
(* What an input enters.                                                       *)

LEMMA NamesOfCell ==
  ASSUME NEW c \in Cells
  PROVE  /\ Names(c, "set") \subseteq Var /\ Names(c, "def") \subseteq Func
         /\ Names(c, "def") = {d.name : d \in DefsOf(c)}
         /\ \A s \in ToSet(c) : s.kind # "set" \/ s.name \in Names(c, "set")
         /\ DefsOf(c) \subseteq Definition /\ ToSet(c) \subseteq Statement
<1>1. Proper(c)
  BY CellFacts
<1>2. ToSet(c) \subseteq Statement
  BY <1>1 DEF Proper, ToSet
<1>3. DefsOf(c) \subseteq Definition
  BY <1>1, <1>2 DEF Proper, DefsOf, Definition
<1>4. Names(c, "def") = {d.name : d \in DefsOf(c)}
  BY NamesFacts DEF DefsOf
<1>5. Names(c, "set") \subseteq Var /\ Names(c, "def") \subseteq Func
  BY <1>1, NamesFacts DEF Proper
<1>6. QED
  BY <1>2, <1>3, <1>4, <1>5, NamesFacts

\* The session's scope after an input: what it had, and the input's names.
LEMMA ScopeGrows ==
  ASSUME TypeOK, DeclsInv, ScopesAgree, NEW c \in Cells
  PROVE  LET e == Entered(scope, Program(c)) IN
         /\ e \in Scope
         /\ \A n \in DOMAIN scope : n \in DOMAIN e /\ e[n] = scope[n]
         /\ DOMAIN e = DOMAIN scope \cup Names(c, "set") \cup Names(c, "def")
                         \cup {d.name : d \in KeptDecls(c)}
         /\ \A x \in Var \cap DOMAIN e : e[x] = 0
         /\ \A d \in KeptDecls(c) \cup DefsOf(c) : d.name \notin DOMAIN scope => e[d.name] = d.arity
<1> DEFINE p == Program(c)
           e == Entered(scope, p)
<1>1. Proper(p) /\ ToSet(p) = KeptDecls(c) \cup ToSet(c) /\ KeptDecls(c) \subseteq Definition
  BY ProgramFacts, KeptFacts
<1>2. scope \in Scope
  BY DEF TypeOK
<1>3. /\ e \in Scope
      /\ DOMAIN e = DOMAIN scope \cup Names(p, "set") \cup Names(p, "def")
      /\ \A n \in DOMAIN scope : e[n] = scope[n]
      /\ \A x \in Names(p, "set") : x \in Var /\ (x \notin DOMAIN scope => e[x] = 0)
      /\ \A d \in ToSet(p) : d.kind = "def" /\ d.name \notin DOMAIN scope => e[d.name] = d.arity
  <2> HIDE DEF p
  <2>1. QED
    BY <1>1, <1>2, EnteredFacts
<1> HIDE DEF p, e
<1>4. \A d \in KeptDecls(c) : d.kind = "def"
  BY <1>1 DEF Definition
<1>5. Names(p, "set") = Names(c, "set")
  <2>1. \A n \in Names(p, "set") : n \in Names(c, "set")
    BY <1>1, <1>4, NamesFacts
  <2>2. \A n \in Names(c, "set") : n \in Names(p, "set")
    BY <1>1, NamesFacts
  <2>3. QED
    BY <2>1, <2>2
<1>6. Names(p, "def") = Names(c, "def") \cup {d.name : d \in KeptDecls(c)}
  <2>1. \A n \in Names(p, "def") : n \in Names(c, "def") \/ n \in {d.name : d \in KeptDecls(c)}
    BY <1>1, NamesFacts
  <2>2. \A n \in Names(c, "def") : n \in Names(p, "def")
    BY <1>1, NamesFacts
  <2>3. \A d \in KeptDecls(c) : d.name \in Names(p, "def")
    BY <1>1, <1>4, NamesFacts
  <2>4. QED
    BY <2>1, <2>2, <2>3
<1>7. ASSUME NEW x \in Var, x \in DOMAIN e
      PROVE  e[x] = 0
  <2>1. x \notin Names(p, "def")
    <3>1. \A f \in Names(p, "def") : f \in Func
      BY <1>1, NamesFacts DEF Proper
    <3>2. QED
      BY <3>1, SessionAssumption
  <2>2. CASE x \in DOMAIN scope
    BY <1>3, <2>2 DEF ScopesAgree
  <2>3. CASE x \notin DOMAIN scope
    BY <1>3, <1>7, <2>1, <2>3
  <2>4. QED
    BY <2>2, <2>3
<1>8. ASSUME NEW d \in KeptDecls(c) \cup DefsOf(c), d.name \notin DOMAIN scope
      PROVE  e[d.name] = d.arity
  BY <1>1, <1>3, <1>4, <1>8 DEF DefsOf
<1>9. DOMAIN e = DOMAIN scope \cup Names(c, "set") \cup Names(c, "def")
                   \cup {d.name : d \in KeptDecls(c)}
  BY <1>3, <1>5, <1>6
<1>10. QED
  BY <1>3, <1>7, <1>8, <1>9 DEF e, p

\* The scope of the accepted inputs after an input.
LEMMA OwnGrows ==
  ASSUME TypeOK, ScopesAgree, NEW c \in Cells
  PROVE  LET w == Entered(Earlier(c), c) IN
         /\ w \in Scope
         /\ DOMAIN w = DOMAIN own \cup Names(c, "set") \cup Names(c, "def")
         /\ \A n \in DOMAIN own \ Names(c, "def") : w[n] = own[n]
         /\ \A x \in Var \cap DOMAIN w : w[x] = 0
         /\ \A d \in DefsOf(c) : w[d.name] = d.arity
<1> DEFINE b == Earlier(c)
           w == Entered(b, c)
<1>1. own \in Scope
  BY DEF TypeOK
<1>2. /\ DOMAIN b = DOMAIN own \ Names(c, "def") /\ b = [n \in DOMAIN b |-> b[n]]
      /\ \A n \in DOMAIN b : b[n] = own[n]
  BY DEF Earlier
<1> HIDE DEF b
<1>3. b \in Scope
  BY <1>1, <1>2, ScopeFacts
<1>4. /\ w \in Scope
      /\ DOMAIN w = DOMAIN b \cup Names(c, "set") \cup Names(c, "def")
      /\ \A n \in DOMAIN b : w[n] = b[n]
      /\ \A x \in Names(c, "set") : x \in Var /\ (x \notin DOMAIN b => w[x] = 0)
      /\ \A d \in ToSet(c) : d.kind = "def" /\ d.name \notin DOMAIN b => w[d.name] = d.arity
  BY <1>3, CellFacts, EnteredFacts, ZenonT(60)
<1> HIDE DEF w
<1>5. Names(c, "def") \subseteq Func /\ Names(c, "def") = {d.name : d \in DefsOf(c)}
  BY NamesOfCell
<1>6. \A x \in Var \cap DOMAIN w : w[x] = 0
  BY <1>2, <1>4, <1>5, SessionAssumption DEF ScopesAgree
<1>7. \A d \in DefsOf(c) : w[d.name] = d.arity
  BY <1>2, <1>4, <1>5 DEF DefsOf
<1>8. QED
  BY <1>2, <1>4, <1>6, <1>7 DEF w, b

LEMMA EmptyScope == << >> \in Scope
<1>1. << >> = [n \in {} |-> 0]
  OBVIOUS
<1>2. [n \in {} |-> 0] \in [{} -> Nat]
  OBVIOUS
<1>3. QED
  BY <1>1, <1>2 DEF Scope

\* A function that does not change has the arity that the scope has for it.
LEMMA NotChanged ==
  ASSUME TypeOK, NEW c \in Cells, NEW how, "changed" \notin Happens(c, how)
  PROVE  \A d \in DefsOf(c) : d.name \in DOMAIN scope => scope[d.name] = d.arity
<1> DEFINE fresh == Entered(<< >>, c)
           again == Entered(scope, c)
<1>1. \A f \in Names(c, "def") \cap DOMAIN scope : again[f] = fresh[f]
  BY DEF Happens
<1>2. \A d \in ToSet(c) : d.kind = "def" /\ d.name \notin DOMAIN << >> => fresh[d.name] = d.arity
  BY CellFacts, EmptyScope, EnteredFacts, ZenonT(60)
<1>3. scope \in Scope
  BY DEF TypeOK
<1>4. \A n \in DOMAIN scope : again[n] = scope[n]
  BY <1>3, CellFacts, EnteredFacts, ZenonT(60)
<1> HIDE DEF fresh, again
<1>5. \A d \in DefsOf(c) : fresh[d.name] = d.arity /\ d.name \in Names(c, "def")
  BY <1>2, NamesFacts DEF DefsOf
<1>6. QED
  BY <1>1, <1>4, <1>5

-------------------------------------------------------------------------------
(* The steps.                                                                  *)

\* Happens only adds.
LEMMA HappensFacts ==
  ASSUME NEW c, NEW how
  PROVE  /\ happened \subseteq Happens(c, how) /\ how \in Happens(c, how)
         /\ Happens(c, how) \subseteq happened \cup {how, "changed"}
BY DEF Happens

\* While no function changed and there was no :reset, the scope after an input
\* is what the accepted inputs and this one enter, and possibly more.
LEMMA Agrees ==
  ASSUME TypeOK, DeclsInv, ScopesAgree, NEW c \in Cells, NEW how,
         "changed" \notin Happens(c, how), "reset" \notin Happens(c, how)
  PROVE  \A n \in DOMAIN Entered(Earlier(c), c) :
           /\ n \in DOMAIN Entered(scope, Program(c))
           /\ Entered(scope, Program(c))[n] = Entered(Earlier(c), c)[n]
<1> DEFINE e == Entered(scope, Program(c))
           w == Entered(Earlier(c), c)
<1>1. /\ \A n \in DOMAIN scope : n \in DOMAIN e /\ e[n] = scope[n]
      /\ DOMAIN e = DOMAIN scope \cup Names(c, "set") \cup Names(c, "def")
                      \cup {d.name : d \in KeptDecls(c)}
      /\ \A x \in Var \cap DOMAIN e : e[x] = 0
      /\ \A d \in KeptDecls(c) \cup DefsOf(c) : d.name \notin DOMAIN scope => e[d.name] = d.arity
  BY ScopeGrows
<1>2. /\ DOMAIN w = DOMAIN own \cup Names(c, "set") \cup Names(c, "def")
      /\ \A n \in DOMAIN own \ Names(c, "def") : w[n] = own[n]
      /\ \A x \in Var \cap DOMAIN w : w[x] = 0
      /\ \A d \in DefsOf(c) : w[d.name] = d.arity
  BY OwnGrows
<1> HIDE DEF e, w
<1>3. \A d \in DefsOf(c) : d.name \in DOMAIN scope => scope[d.name] = d.arity
  BY NotChanged
<1>4. \A n \in DOMAIN own : n \in DOMAIN scope /\ scope[n] = own[n]
  BY HappensFacts DEF ScopesAgree, Without
<1>5. ASSUME NEW n \in DOMAIN w
      PROVE  n \in DOMAIN e /\ e[n] = w[n]
  <2>1. CASE n \in Names(c, "def")
    <3>1. PICK d \in DefsOf(c) : d.name = n
      BY <2>1, NamesOfCell
    <3>2. QED
      BY <1>1, <1>2, <1>3, <2>1, <3>1
  <2>2. CASE n \notin Names(c, "def") /\ n \in DOMAIN own
    BY <1>1, <1>2, <1>4, <2>2
  <2>3. CASE n \notin Names(c, "def") /\ n \notin DOMAIN own
    BY <1>1, <1>2, <1>5, <2>3, NamesOfCell
  <2>4. QED
    BY <2>1, <2>2, <2>3
<1>6. QED
  BY <1>5 DEF e, w

\* What fits a scope fits one that agrees with it and has more.
LEMMA FitsMore ==
  ASSUME NEW sc, NEW more, NEW s, Fits(sc, s),
         s.calls \in SUBSET (Func \X Nat),
         \A n \in DOMAIN sc : n \in DOMAIN more /\ more[n] = sc[n]
  PROVE  Fits(more, s)
BY DEF Fits

\* An input that the accepted ones justify is accepted (check_node in the
\* session's scope): more names in the scope do no harm.
LEMMA JustifiedAccepted ==
  ASSUME IInv, NEW c \in Cells, NEW how,
         "changed" \notin Happens(c, how), "reset" \notin Happens(c, how), Justified(c)
  PROVE  Accepts(scope, Program(c))
<1> DEFINE e == Entered(scope, Program(c))
           w == Entered(Earlier(c), c)
<1>1. /\ \A n \in DOMAIN w : n \in DOMAIN e /\ e[n] = w[n]
      /\ \A n \in DOMAIN scope : n \in DOMAIN e /\ e[n] = scope[n]
  BY Agrees, ScopeGrows DEF IInv
<1>2. \A s \in ToSet(c) : Fits(w, s)
  BY ChecksFacts DEF Justified, Accepts
<1>3. \A d \in KeptDecls(c) : Fits(scope, d)
  BY HappensFacts DEF IInv, KeptFit, KeptDecls, Without
<1> HIDE DEF e, w
<1>4. \A s \in ToSet(c) \cup KeptDecls(c) : s.calls \in SUBSET (Func \X Nat)
  BY NamesOfCell, KeptFacts, ZenonT(60) DEF IInv, Statement, Definition
<1>5. \A s \in ToSet(c) \cup KeptDecls(c) : Fits(e, s)
  BY <1>1, <1>2, <1>3, <1>4, FitsMore
<1>6. ToSet(Program(c)) = KeptDecls(c) \cup ToSet(c)
  BY ProgramFacts DEF IInv
<1>7. Checks(e, Program(c))
  BY <1>5, <1>6, ChecksFacts
<1>8. QED
  BY <1>7 DEF Accepts, e

\* When nothing was refused, what is accepted is justified: the scope has no
\* name that the accepted inputs did not enter.
LEMMA AcceptedJustified ==
  ASSUME IInv, NEW c \in Cells, NEW how, Accepts(scope, Program(c)),
         "changed" \notin Happens(c, how), "reset" \notin Happens(c, how),
         "refused" \notin Happens(c, how)
  PROVE  Justified(c)
<1> DEFINE e == Entered(scope, Program(c))
           w == Entered(Earlier(c), c)
<1>1. /\ \A n \in DOMAIN w : n \in DOMAIN e /\ e[n] = w[n]
      /\ DOMAIN e = DOMAIN scope \cup Names(c, "set") \cup Names(c, "def")
                      \cup {d.name : d \in KeptDecls(c)}
      /\ DOMAIN w = DOMAIN own \cup Names(c, "set") \cup Names(c, "def")
  BY Agrees, ScopeGrows, OwnGrows DEF IInv
<1>2. ToSet(Program(c)) = KeptDecls(c) \cup ToSet(c)
  BY ProgramFacts DEF IInv
<1>3. \A s \in ToSet(c) : Fits(e, s)
  BY <1>2, ChecksFacts DEF Accepts
<1> HIDE DEF e, w
<1>4. DOMAIN scope \subseteq DOMAIN own /\ \A d \in KeptDecls(c) : d.name \in DOMAIN own
  BY HappensFacts DEF IInv, ScopesAgree, KeptFit, KeptDecls, Without
<1>5. \A n \in DOMAIN e : n \in DOMAIN w /\ w[n] = e[n]
  <2>1. DOMAIN e \subseteq DOMAIN w
    BY <1>1, <1>4
  <2>2. QED
    BY <1>1, <2>1
<1>6. \A s \in ToSet(c) : s.calls \in SUBSET (Func \X Nat)
  BY NamesOfCell, ZenonT(60) DEF Statement
<1>7. \A s \in ToSet(c) : Fits(w, s)
  BY <1>3, <1>5, <1>6, FitsMore
<1>8. QED
  BY <1>7, ChecksFacts DEF Justified, Accepts, w

LEMMA LatestFacts ==
  ASSUME NEW S, latest \in [S -> Definition], S \subseteq Func, NEW c \in Cells
  PROVE  /\ Else(LatestIn(c), latest) \in [S \cup Names(c, "def") -> Definition]
         /\ \A d \in DefsOf(c) : Else(LatestIn(c), latest)[d.name] = d
         /\ \A f \in S \ Names(c, "def") : Else(LatestIn(c), latest)[f] = latest[f]
<1> DEFINE q == Defs(c)
           At(f) == CHOOSE i \in DOMAIN q : q[i].name = f
           new == LatestIn(c)
<1>1. q \in Seq(Definition) /\ ToSet(q) = DefsOf(c) /\ OneEach(q)
  BY CellDefs
<1>2. new = [f \in Names(c, "def") |-> q[At(f)]]
  BY DEF LatestIn
<1> HIDE DEF q, new
<1>3. ASSUME NEW d \in DefsOf(c)
      PROVE  q[At(d.name)] = d
  <2>1. PICK i \in DOMAIN q : q[i] = d
    BY <1>1 DEF ToSet
  <2>2. At(d.name) \in DOMAIN q /\ q[At(d.name)].name = d.name
    BY <2>1
  <2>3. At(d.name) = i
    BY <1>1, <2>1, <2>2 DEF OneEach, Single
  <2>4. QED
    BY <2>1, <2>3
<1>4. /\ \A d \in DefsOf(c) : d.name \in Names(c, "def") /\ new[d.name] = d
      /\ \A f \in Names(c, "def") : new[f] \in Definition
      /\ DOMAIN new = Names(c, "def")
  BY <1>2, <1>3, NamesOfCell, SMTT(60)
<1>5. DOMAIN latest = S /\ \A f \in S : latest[f] \in Definition
  OBVIOUS
<1> DEFINE both == Else(new, latest)
<1>6. both = [f \in S \cup Names(c, "def") |-> IF f \in Names(c, "def") THEN new[f] ELSE latest[f]]
  BY <1>4, <1>5 DEF Else
<1> HIDE DEF both
<1>7. both \in [S \cup Names(c, "def") -> Definition]
  BY <1>4, <1>5, <1>6
<1>8. (\A d \in DefsOf(c) : both[d.name] = d) /\ \A f \in S \ Names(c, "def") : both[f] = latest[f]
  BY <1>4, <1>6
<1>9. QED
  BY <1>7, <1>8 DEF both, new

LEMMA CheckTypes ==
  ASSUME TypeOK, NEW c \in Cells, Check(c)
  PROVE  /\ varNames' \subseteq Var /\ varNames' = varNames \cup Names(c, "set")
         /\ inputs' \in Nat /\ justified' \in BOOLEAN /\ justified' = Justified(c)
         /\ scope' = Entered(scope, Program(c))
<1>1. Justified(c) \in BOOLEAN
  BY DEF Justified, Accepts, Checks
<1>2. QED
  BY <1>1, NamesOfCell DEF Check, TypeOK

LEMMA RefuseStep ==
  ASSUME IInv, NEW c \in Cells, Refuse(c)
  PROVE  IInv'
<1>0. TypeOK /\ DeclsInv /\ ScopesAgree /\ KeptFit
  BY DEF IInv
<1>1. /\ decls' = decls /\ store' = store /\ own' = own /\ latest' = latest
      /\ verdict' = "refused" /\ happened' = Happens(c, "refused") /\ justified' = Justified(c)
      /\ ~ Accepts(scope, Program(c)) /\ scope' = Entered(scope, Program(c))
      /\ varNames' \subseteq Var /\ varNames \subseteq varNames'
      /\ inputs' \in Nat /\ justified' \in BOOLEAN
  BY <1>0, CheckTypes DEF Refuse
<1>2. /\ scope' \in Scope
      /\ \A n \in DOMAIN scope : n \in DOMAIN scope' /\ scope'[n] = scope[n]
      /\ \A x \in Var \cap DOMAIN scope' : scope'[x] = 0
  BY <1>0, <1>1, ScopeGrows
<1>3. /\ happened \subseteq happened' /\ "refused" \in happened'
      /\ happened' \subseteq happened \cup {"refused", "changed"}
  BY <1>1, HappensFacts
<1>4. TypeOK'
  BY <1>0, <1>1, <1>2, <1>3 DEF TypeOK
<1>5. DeclsInv'
  BY <1>0, <1>1 DEF DeclsInv
<1>6. KeptFit'
  <2>1. ASSUME Without({"reset"})', NEW d \in ToSet(decls)
        PROVE  d.name \in DOMAIN own /\ Fits(scope', d)
    <3>1. d.name \in DOMAIN own /\ Fits(scope, d)
      BY <1>0, <1>3, <2>1 DEF KeptFit, Without
    <3>2. d.calls \in SUBSET (Func \X Nat)
      <4>1. d \in Definition
        BY <1>0, <2>1 DEF TypeOK, ToSet
      <4>2. QED
        BY <4>1, ZenonT(60) DEF Definition, Statement
    <3>3. QED
      BY <1>2, <3>1, <3>2, FitsMore
  <2>2. QED
    BY <1>1, <2>1 DEF KeptFit, Fits
<1>7. ScopesAgree'
  <2>1. Without({"changed", "reset"})' =>
          \A n \in DOMAIN own : n \in DOMAIN scope' /\ scope'[n] = own[n]
    BY <1>0, <1>2, <1>3 DEF ScopesAgree, Without
  <2>2. ~ Without({"changed", "reset", "refused"})'
    BY <1>3 DEF Without
  <2>3. QED
    BY <1>0, <1>1, <1>2, <2>1, <2>2 DEF ScopesAgree
<1>8. FunctionsKept'
  BY <1>3 DEF FunctionsKept, Without
<1>9. JustifiedIsAccepted'
  BY <1>1, JustifiedAccepted DEF JustifiedIsAccepted, Without
<1>10. OnlyJustifiedAccepted'
  BY <1>3 DEF OnlyJustifiedAccepted, Without
<1>11. QED
  BY <1>4, <1>5, <1>6, <1>7, <1>8, <1>9, <1>10 DEF IInv

LEMMA ResetStep ==
  ASSUME IInv, Reset
  PROVE  IInv'
<1>1. /\ scope' = << >> /\ own' = << >> /\ verdict' = "none" /\ "reset" \in happened'
      /\ inputs' = inputs + 1 /\ happened' = happened \cup {"reset"}
      /\ decls' = decls /\ varNames' = varNames /\ store' = store /\ justified' = justified
      /\ latest' = latest
  BY DEF Reset
<1>2. DOMAIN << >> = {}
  OBVIOUS
<1>3. TypeOK'
  BY <1>1, EmptyScope DEF IInv, TypeOK
<1>4. DeclsInv'
  BY <1>1 DEF IInv, DeclsInv
<1>5. KeptFit' /\ OnlyJustifiedAccepted'
  BY <1>1 DEF KeptFit, OnlyJustifiedAccepted, Without
<1>6. ScopesAgree'
  BY <1>1, <1>2 DEF ScopesAgree, Without
<1>7. FunctionsKept'
  BY <1>1, <1>2 DEF FunctionsKept
<1>8. JustifiedIsAccepted'
  BY <1>1 DEF JustifiedIsAccepted
<1>9. QED
  BY <1>3, <1>4, <1>5, <1>6, <1>7, <1>8 DEF IInv

LEMMA ThrowStep ==
  ASSUME IInv, NEW c \in Cells, Accept(c), LoweringThrows(c)
  PROVE  IInv'
<1>0. TypeOK /\ DeclsInv /\ ScopesAgree /\ KeptFit
  BY DEF IInv
<1>1. /\ decls' = decls /\ store' = store /\ latest' = latest
      /\ verdict' = "broken" /\ happened' = Happens(c, "thrown")
      /\ Accepts(scope, Program(c)) /\ Check(c) /\ own' = Entered(Earlier(c), c)
  BY DEF Accept, LoweringThrows
<1>2. /\ varNames' \subseteq Var /\ varNames \subseteq varNames'
      /\ inputs' \in Nat /\ justified' \in BOOLEAN /\ justified' = Justified(c)
      /\ scope' = Entered(scope, Program(c))
  BY <1>0, <1>1, CheckTypes
<1>3. /\ scope' \in Scope
      /\ \A n \in DOMAIN scope : n \in DOMAIN scope' /\ scope'[n] = scope[n]
      /\ DOMAIN scope' = DOMAIN scope \cup Names(c, "set") \cup Names(c, "def")
                           \cup {d.name : d \in KeptDecls(c)}
      /\ \A x \in Var \cap DOMAIN scope' : scope'[x] = 0
  BY <1>0, <1>2, ScopeGrows
<1>4. /\ own' \in Scope
      /\ DOMAIN own' = DOMAIN own \cup Names(c, "set") \cup Names(c, "def")
      /\ \A x \in Var \cap DOMAIN own' : own'[x] = 0
  BY <1>0, <1>1, OwnGrows
<1>5. /\ happened \subseteq happened' /\ "thrown" \in happened'
      /\ happened' \subseteq happened \cup {"thrown", "changed"}
  BY <1>1, HappensFacts
<1>6. TypeOK'
  BY <1>0, <1>1, <1>2, <1>3, <1>4, <1>5 DEF TypeOK
<1>7. DeclsInv'
  BY <1>0, <1>1 DEF DeclsInv
<1>8. KeptFit'
  <2>1. ASSUME Without({"reset"})', NEW d \in ToSet(decls)
        PROVE  d.name \in DOMAIN own' /\ Fits(scope', d)
    <3>1. d.name \in DOMAIN own /\ Fits(scope, d)
      BY <1>0, <1>5, <2>1 DEF KeptFit, Without
    <3>2. d.calls \in SUBSET (Func \X Nat)
      <4>1. d \in Definition
        BY <1>0, <2>1 DEF TypeOK, ToSet
      <4>2. QED
        BY <4>1, ZenonT(60) DEF Definition, Statement
    <3>3. QED
      BY <1>3, <1>4, <3>1, <3>2, FitsMore
  <2>2. QED
    BY <1>1, <2>1 DEF KeptFit, Fits
<1>9. ScopesAgree'
  <2>1. Without({"changed", "reset"})' =>
          \A n \in DOMAIN own' : n \in DOMAIN scope' /\ scope'[n] = own'[n]
    BY <1>0, <1>1, <1>2, Agrees DEF Without
  <2>2. Without({"changed", "reset", "refused"})' => DOMAIN scope' \subseteq DOMAIN own'
    <3>1. ASSUME Without({"changed", "reset", "refused"})'
          PROVE  /\ DOMAIN scope \subseteq DOMAIN own
                 /\ \A d \in KeptDecls(c) : d.name \in DOMAIN own
      BY <1>0, <1>5, <3>1 DEF ScopesAgree, KeptFit, KeptDecls, Without
    <3>2. QED
      BY <1>3, <1>4, <3>1
  <2>3. QED
    BY <1>3, <1>4, <2>1, <2>2 DEF ScopesAgree
<1>10. FunctionsKept'
  BY <1>5 DEF FunctionsKept, Without
<1>11. JustifiedIsAccepted'
  BY <1>1 DEF JustifiedIsAccepted
<1>12. OnlyJustifiedAccepted'
  BY <1>1, <1>2, AcceptedJustified DEF OnlyJustifiedAccepted, Without
<1>13. QED
  BY <1>6, <1>7, <1>8, <1>9, <1>10, <1>11, <1>12 DEF IInv

LEMMA KeepStep ==
  ASSUME IInv, NEW c \in Cells, Accept(c), ~LoweringThrows(c)
  PROVE  IInv'
<1>0. TypeOK /\ DeclsInv /\ ScopesAgree /\ KeptFit /\ FunctionsKept
  BY DEF IInv
<1>1. /\ Accepts(scope, Program(c)) /\ Check(c) /\ Remember(c)
      /\ own' = Entered(Earlier(c), c) /\ latest' = Else(LatestIn(c), latest)
      /\ Run(c) \/ Break(c)
  BY DEF Accept
<1>2. PICK how \in {"ran", "broken"} : verdict' = how /\ happened' = Happens(c, how)
  BY <1>1 DEF Run, Break
<1>3. store' \subseteq store \cup Names(c, "set")
  BY <1>1 DEF Run, Break
<1>4. /\ varNames' \subseteq Var /\ varNames' = varNames \cup Names(c, "set")
      /\ inputs' \in Nat /\ justified' \in BOOLEAN /\ justified' = Justified(c)
      /\ scope' = Entered(scope, Program(c))
  BY <1>0, <1>1, CheckTypes
<1>5. /\ decls' \in Seq(Definition) /\ ToSet(decls') = KeptDecls(c) \cup DefsOf(c)
      /\ OneEach(decls')
  BY <1>0, <1>1, RememberFacts
<1>6. /\ scope' \in Scope
      /\ \A n \in DOMAIN scope : n \in DOMAIN scope' /\ scope'[n] = scope[n]
      /\ DOMAIN scope' = DOMAIN scope \cup Names(c, "set") \cup Names(c, "def")
                           \cup {d.name : d \in KeptDecls(c)}
      /\ \A x \in Var \cap DOMAIN scope' : scope'[x] = 0
      /\ \A d \in KeptDecls(c) \cup DefsOf(c) :
           d.name \notin DOMAIN scope => scope'[d.name] = d.arity
  BY <1>0, <1>4, ScopeGrows
<1>7. /\ own' \in Scope
      /\ DOMAIN own' = DOMAIN own \cup Names(c, "set") \cup Names(c, "def")
      /\ \A x \in Var \cap DOMAIN own' : own'[x] = 0
  BY <1>0, <1>1, OwnGrows
<1>8. /\ happened \subseteq happened' /\ happened' \subseteq happened \cup {how, "changed"}
  BY <1>2, HappensFacts
<1>9. PICK S \in SUBSET Func : latest \in [S -> Definition]
  BY <1>0 DEF TypeOK
<1>10. /\ latest' \in [S \cup Names(c, "def") -> Definition]
       /\ \A d \in DefsOf(c) : latest'[d.name] = d
       /\ \A f \in S \ Names(c, "def") : latest'[f] = latest[f]
  BY <1>1, <1>9, LatestFacts
<1>11. Names(c, "def") = {d.name : d \in DefsOf(c)} /\ Names(c, "def") \subseteq Func
  BY NamesOfCell
<1>12. TypeOK'
  <2>1. latest' \in UNION {[T -> Definition] : T \in SUBSET Func}
    BY <1>9, <1>10, <1>11
  <2>2. store' \subseteq varNames'
    BY <1>0, <1>3, <1>4 DEF TypeOK
  <2>3. happened' \subseteq {"refused", "ran", "broken", "thrown", "changed", "reset"}
    BY <1>0, <1>2, <1>8 DEF TypeOK
  <2>4. QED
    BY <1>2, <1>4, <1>5, <1>6, <1>7, <2>1, <2>2, <2>3 DEF TypeOK
<1>13. DeclsInv'
  <2>1. \A i, j \in DOMAIN decls' : decls'[i].name = decls'[j].name => i = j
    BY <1>5 DEF OneEach, Single
  <2>2. DOMAIN latest = S /\ DOMAIN latest' = S \cup Names(c, "def")
    BY <1>9, <1>10
  <2>3. S = {d.name : d \in ToSet(decls)}
    BY <1>0, <2>2 DEF DeclsInv
  <2>4. DOMAIN latest' = {d.name : d \in KeptDecls(c) \cup DefsOf(c)}
    <3>1. \A f \in S : f \in Names(c, "def") \/ f \in {d.name : d \in KeptDecls(c)}
      BY <2>3 DEF KeptDecls
    <3>2. \A d \in KeptDecls(c) : d.name \in S
      BY <2>3 DEF KeptDecls
    <3>3. QED
      BY <1>11, <2>2, <3>1, <3>2
  <2>5. ASSUME NEW d \in KeptDecls(c)
        PROVE  latest'[d.name] = d
    <3>1. d \in ToSet(decls) /\ d.name \notin Names(c, "def") /\ d.name \in S
      BY <2>3 DEF KeptDecls
    <3>2. latest[d.name] = d
      BY <1>0, <3>1 DEF DeclsInv
    <3>3. QED
      BY <1>10, <3>1, <3>2
  <2>6. QED
    BY <1>5, <1>10, <2>1, <2>4, <2>5 DEF DeclsInv
<1>14. \A s \in KeptDecls(c) \cup DefsOf(c) : Fits(scope', s)
  BY <1>0, <1>1, <1>4, ProgramFacts, ChecksFacts DEF Accepts, DefsOf
<1>15. KeptFit'
  <2>1. Without({"reset"})' => \A d \in KeptDecls(c) : d.name \in DOMAIN own
    BY <1>0, <1>8 DEF KeptFit, KeptDecls, Without
  <2>2. Without({"reset"})' => \A d \in ToSet(decls') : d.name \in DOMAIN own'
    BY <1>5, <1>7, <1>11, <2>1
  <2>3. QED
    BY <1>5, <1>14, <2>2 DEF KeptFit, Fits
<1>16. ScopesAgree'
  <2>1. Without({"changed", "reset"})' =>
          \A n \in DOMAIN own' : n \in DOMAIN scope' /\ scope'[n] = own'[n]
    BY <1>0, <1>1, <1>2, <1>4, Agrees DEF Without
  <2>2. Without({"changed", "reset", "refused"})' => DOMAIN scope' \subseteq DOMAIN own'
    <3>1. ASSUME Without({"changed", "reset", "refused"})'
          PROVE  /\ DOMAIN scope \subseteq DOMAIN own
                 /\ \A d \in KeptDecls(c) : d.name \in DOMAIN own
      BY <1>0, <1>8, <3>1 DEF ScopesAgree, KeptFit, KeptDecls, Without
    <3>2. QED
      BY <1>6, <1>7, <3>1
  <2>3. QED
    BY <1>6, <1>7, <2>1, <2>2 DEF ScopesAgree
<1>17. FunctionsKept'
  <2>1. ASSUME Without({"changed", "refused", "thrown"})', NEW f \in Func, f \in DOMAIN scope'
        PROVE  \E d \in ToSet(decls') : d.name = f /\ d.arity = scope'[f]
    <3>1. "changed" \notin Happens(c, how)
      BY <1>2, <2>1 DEF Without
    <3>2. CASE f \in Names(c, "def")
      <4>1. PICK d \in DefsOf(c) : d.name = f
        BY <1>11, <3>2
      <4>2. d.name \in DOMAIN scope => scope[d.name] = d.arity
        BY <1>0, <3>1, NotChanged
      <4>3. QED
        BY <1>5, <1>6, <4>1, <4>2
    <3>3. CASE f \notin Names(c, "def") /\ f \in DOMAIN scope
      <4>1. PICK d \in ToSet(decls) : d.name = f /\ d.arity = scope[f]
        BY <1>0, <1>8, <2>1, <3>3 DEF FunctionsKept, Without
      <4>2. d \in KeptDecls(c)
        BY <3>3, <4>1 DEF KeptDecls
      <4>3. QED
        BY <1>5, <1>6, <3>3, <4>1, <4>2
    <3>4. CASE f \notin Names(c, "def") /\ f \notin DOMAIN scope
      <4>1. f \notin Names(c, "set")
        BY NamesOfCell, SessionAssumption
      <4>2. PICK d \in KeptDecls(c) : d.name = f
        BY <1>6, <2>1, <3>4, <4>1
      <4>3. QED
        BY <1>5, <1>6, <3>4, <4>2
    <3>5. QED
      BY <3>2, <3>3, <3>4
  <2>2. QED
    BY <2>1 DEF FunctionsKept
<1>18. JustifiedIsAccepted'
  BY <1>2 DEF JustifiedIsAccepted
<1>19. OnlyJustifiedAccepted'
  BY <1>1, <1>2, <1>4, AcceptedJustified DEF OnlyJustifiedAccepted, Without
<1>20. QED
  BY <1>12, <1>13, <1>15, <1>16, <1>17, <1>18, <1>19 DEF IInv

-------------------------------------------------------------------------------
(* The theorems.                                                               *)

LEMMA InitInv == SessionInit => IInv
<1> SUFFICES ASSUME SessionInit PROVE IInv
  OBVIOUS
<1>1. /\ scope = << >> /\ own = << >> /\ latest = << >> /\ decls = <<>> /\ happened = {}
      /\ varNames = {} /\ store = {} /\ verdict = "none" /\ inputs = 0 /\ justified = TRUE
  BY DEF SessionInit
<1>2. DOMAIN << >> = {} /\ ToSet(<<>>) = {} /\ <<>> \in Seq(Definition)
  BY DEF ToSet
<1>3. << >> \in [{} -> Definition]
  <2>1. << >> = [n \in {} |-> 0] /\ [n \in {} |-> 0] \in [{} -> Definition]
    OBVIOUS
  <2>2. QED
    BY <2>1
<1>4. TypeOK
  <2>1. latest \in UNION {[T -> Definition] : T \in SUBSET Func}
    BY <1>1, <1>3
  <2>2. QED
    BY <1>1, <1>2, <2>1, EmptyScope DEF TypeOK
<1>5. DeclsInv
  BY <1>1, <1>2 DEF DeclsInv
<1>6. KeptFit /\ FunctionsKept
  BY <1>1, <1>2 DEF KeptFit, FunctionsKept
<1>7. ScopesAgree
  BY <1>1, <1>2 DEF ScopesAgree
<1>8. JustifiedIsAccepted /\ OnlyJustifiedAccepted
  BY <1>1 DEF JustifiedIsAccepted, OnlyJustifiedAccepted
<1>9. QED
  BY <1>4, <1>5, <1>6, <1>7, <1>8 DEF IInv

LEMMA NextInv == IInv /\ [SessionNext]_sessionVars => IInv'
<1> SUFFICES ASSUME IInv, [SessionNext]_sessionVars PROVE IInv'
  OBVIOUS
<1>1. CASE Reset
  BY <1>1, ResetStep
<1>2. ASSUME NEW c \in Cells, Refuse(c) PROVE IInv'
  BY <1>2, RefuseStep
<1>3. ASSUME NEW c \in Cells, Accept(c) PROVE IInv'
  BY <1>3, ThrowStep, KeepStep
<1>4. CASE UNCHANGED sessionVars
  BY <1>4, ZenonT(60) DEF sessionVars, IInv, TypeOK, DeclsInv, KeptFit, Fits, ScopesAgree, FunctionsKept,
              JustifiedIsAccepted, OnlyJustifiedAccepted, Without
<1>5. QED
  BY <1>1, <1>2, <1>3, <1>4 DEF SessionNext

\* The inductive invariant: what is emitted again is what the accepted inputs
\* defined last, and the scope is theirs but for what is named in it.
THEOREM InductiveInvariant == SessionSpec => []IInv
<1>1. QED
  BY InitInv, NextInv, PTL DEF SessionSpec

\* The parts of the session keep their types; no value is in the store whose name
\* the generated code does not read from there.
THEOREM TypeCorrect == SessionSpec => []TypeOK
<1>1. IInv => TypeOK
  BY DEF IInv
<1>2. QED
  BY <1>1, InductiveInvariant, PTL

\* What is emitted again with the next input is the latest accepted definition of
\* every function, once (the erase and push_back of compile).
THEOREM LatestKept == SessionSpec => []LatestDefinitions
<1>1. ASSUME IInv PROVE LatestDefinitions
  <2>1. /\ decls \in Seq(Definition) /\ DOMAIN latest = {d.name : d \in ToSet(decls)}
        /\ \A d \in ToSet(decls) : latest[d.name] = d
        /\ \A i, j \in DOMAIN decls : decls[i].name = decls[j].name => i = j
    BY <1>1 DEF IInv, TypeOK, DeclsInv
  <2>2. ToSet(decls) = {latest[f] : f \in DOMAIN latest}
    BY <2>1
  <2> DEFINE N == DOMAIN latest
             b == [i \in 1 .. Len(decls) |-> decls[i].name]
  <2>3. Len(decls) \in Nat /\ DOMAIN decls = 1 .. Len(decls)
    BY <2>1
  <2>4. \A i \in 1 .. Len(decls) : b[i] \in N
    BY <2>1, <2>3 DEF ToSet
  <2>5. \A i, j \in 1 .. Len(decls) : b[i] = b[j] => i = j
    BY <2>1, <2>3
  <2>6. \A f \in N : \E i \in 1 .. Len(decls) : b[i] = f
    BY <2>1, <2>3 DEF ToSet
  <2>7. b \in [1 .. Len(decls) -> N]
    BY <2>4
  <2> HIDE DEF b, N
  <2>8. ExistsBijection(1 .. Len(decls), N)
    <3>1. b \in Bijection(1 .. Len(decls), N)
      BY <2>5, <2>6, <2>7, Fun_IsBij
    <3>2. QED
      BY <3>1 DEF ExistsBijection
  <2>9. Cardinality(N) = Len(decls)
    BY <2>3, <2>8, FS_CountingElements
  <2>10. QED
    BY <2>2, <2>9 DEF LatestDefinitions, N
<1>2. QED
  BY <1>1, InductiveInvariant, PTL

\* An input that the accepted inputs justify is accepted, whatever was refused in
\* between (check_node in the session's own scope).
THEOREM JustifiedInputs == SessionSpec => []JustifiedIsAccepted
<1>1. IInv => JustifiedIsAccepted
  BY DEF IInv
<1>2. QED
  BY <1>1, InductiveInvariant, PTL

\* As long as nothing is refused, no input is accepted that the accepted ones do
\* not justify.
THEOREM OnlyJustifiedInputs == SessionSpec => []OnlyJustifiedAccepted
<1>1. IInv => OnlyJustifiedAccepted
  BY DEF IInv
<1>2. QED
  BY <1>1, InductiveInvariant, PTL

LEMMA AcceptedCompiles ==
  ASSUME IInv, NEW c \in Cells, Accept(c), Remember(c), IInv',
         Without({"changed", "refused", "thrown"})', \A d \in ToSet(decls') : d.compiles,
         \A i \in DOMAIN c : c[i].kind = "def" \/ c[i].compiles
  PROVE  Compiles(Program(c))
<1>1. Accepts(scope, Program(c)) /\ Remember(c) /\ scope' = Entered(scope, Program(c))
  BY DEF Accept, Check
<1>2. ToSet(decls') = KeptDecls(c) \cup DefsOf(c)
  BY <1>1, RememberFacts DEF IInv
<1>3. /\ ToSet(Program(c)) = KeptDecls(c) \cup ToSet(c) /\ OneEach(Defs(Program(c)))
      /\ ToSet(Defs(Program(c))) = KeptDecls(c) \cup DefsOf(c)
      /\ KeptDecls(c) \subseteq Definition /\ ToSet(c) \subseteq Statement
  BY ProgramFacts, KeptFacts, NamesOfCell DEF IInv
<1>4. \A s \in ToSet(Program(c)) : s.compiles
  <2>1. \A s \in ToSet(c) : s.kind = "def" \/ s.compiles
    BY DEF ToSet
  <2>2. QED
    BY <1>2, <1>3, <2>1 DEF DefsOf
<1>5. IsInjective([i \in DOMAIN Defs(Program(c)) |-> Defs(Program(c))[i].name])
  BY <1>3 DEF IsInjective, OneEach, Single
<1>6. ASSUME NEW s \in ToSet(Program(c)), NEW call \in s.calls
      PROVE  \E d \in ToSet(Defs(Program(c))) : d.name = call[1] /\ d.arity = call[2]
  <2>1. call[1] \in DOMAIN scope' /\ scope'[call[1]] = call[2]
    BY <1>1, ChecksFacts DEF Accepts, Fits
  <2>2. call \in Func \X Nat
    <3>1. s \in Statement
      BY <1>3 DEF Definition
    <3>2. s.calls \in SUBSET (Func \X Nat)
      BY <3>1, ZenonT(60) DEF Statement
    <3>3. QED
      BY <3>2
  <2>3. \A f \in Func \cap DOMAIN scope' : \E d \in ToSet(decls') : d.name = f /\ d.arity = scope'[f]
    BY DEF IInv, FunctionsKept
  <2>4. QED
    BY <1>2, <1>3, <2>1, <2>2, <2>3
<1>7. \A i \in DOMAIN Program(c) : Program(c)[i] \in ToSet(Program(c))
  BY DEF ToSet
<1>8. QED
  BY <1>4, <1>5, <1>6, <1>7 DEF Compiles

\* An accepted input runs unless something was refused, threw when it was lowered
\* or changed its arity, or a definition that the JIT does not take is emitted
\* again; here the compiler takes every statement that is not a definition.
THEOREM AcceptedInputs ==
  ASSUME \A c \in Cells : \A i \in DOMAIN c : c[i].kind = "def" \/ c[i].compiles
  PROVE  SessionSpec => []AcceptedRuns
<1>1. SessionInit => AcceptedRuns
  BY DEF SessionInit, AcceptedRuns
<1>2. ASSUME IInv, AcceptedRuns, [SessionNext]_sessionVars, IInv'
      PROVE  AcceptedRuns'
  <2>1. CASE Reset
    BY <2>1 DEF Reset, AcceptedRuns
  <2>2. ASSUME NEW c \in Cells, Refuse(c)
        PROVE  AcceptedRuns'
    BY <2>2 DEF Refuse, AcceptedRuns
  <2>3. ASSUME NEW c \in Cells, Accept(c)
        PROVE  AcceptedRuns'
    <3>1. CASE LoweringThrows(c)
      <4>1. "thrown" \in happened'
        BY <3>1, HappensFacts DEF LoweringThrows
      <4>2. QED
        BY <4>1 DEF AcceptedRuns, Without
    <3>2. CASE Remember(c) /\ (Run(c) \/ Break(c))
      <4>1. verdict' # "broken" \/ ~ Compiles(Program(c))
        BY <3>2 DEF Run, Break
      <4>2. QED
        BY <1>2, <2>3, <3>2, <4>1, AcceptedCompiles DEF AcceptedRuns
    <3>3. QED
      BY <2>3, <3>1, <3>2 DEF Accept
  <2>4. CASE UNCHANGED sessionVars
    BY <1>2, <2>4 DEF sessionVars, AcceptedRuns, Without
  <2>5. QED
    BY <1>2, <2>1, <2>2, <2>3, <2>4 DEF SessionNext
<1>3. IInv /\ AcceptedRuns /\ [SessionNext]_sessionVars /\ IInv' => AcceptedRuns'
  BY <1>2
<1>4. QED
  BY <1>1, <1>3, InductiveInvariant, PTL DEF SessionSpec
===============================================================================
