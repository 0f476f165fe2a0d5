-------------------------- MODULE NvModules_proofs ---------------------------
(* Proofs about the module manager: a circle of imports is never accepted,      *)
(* what is reported as one is one, and no walk goes on over a module that was   *)
(* replaced, for files of different stems and any number of files, imports and  *)
(* calls.                                                                       *)
EXTENDS NvModules, TLAPS

(* Every step of a walk looks at the frames of the stack.                      *)
Frame == [name : Spelling, file : File, loaded : Spelling \cup {""}, next : Nat, stale : BOOLEAN]

TypeOK ==
  /\ imports \in [File -> ImportLists]
  /\ DOMAIN modules \subseteq Spelling
  /\ \A n \in DOMAIN modules : modules[n] \in File
  /\ visited \subseteq Spelling
  /\ stack \in Seq(Frame)
  /\ programs \in Seq(File)
  /\ phase \in {"idle", "resolving"} \cup Ended
  /\ dirty \in BOOLEAN

\* A module is stored under the stem of its file.
StoreInv == \A n \in DOMAIN modules : NameOf[modules[n]] = n

\* The frames are a walk of the import graph from the program, and each has
\* loaded its own file; no name is being resolved twice.
WalkInv ==
  /\ phase = "resolving" <=> stack # <<>>
  /\ phase # "idle" => programs # <<>>
  /\ stack # <<>> => stack[1].name = NameOf[main] /\ stack[1].file = main
  /\ \A i \in 1 .. Len(stack) : i > 1 =>
       LET walk == imports[stack[i - 1].file]
           at == stack[i - 1].next - 1
       IN /\ at \in DOMAIN walk
          /\ stack[i].name = walk[at] /\ stack[i].file = Target[walk[at]]
  /\ \A i \in 1 .. Len(stack) : stack[i].next > 0 =>
       /\ stack[i].loaded = NameOf[stack[i].file] /\ stack[i].loaded \in DOMAIN modules
       /\ stack[i].name \in visited
  /\ \A i, j \in 1 .. Len(stack) : i < j /\ stack[j].next > 0 => stack[i].name # stack[j].name

\* What an import that was walked leads to has no circle.
WalkedInv ==
  /\ \A i \in 1 .. Len(stack) : \A k \in 1 .. stack[i].next - 1 :
       LET s == imports[stack[i].file][k]
       IN (i = Len(stack) \/ k < stack[i].next - 1) /\ Found(s) => ~Cyclic(Target[s])
  /\ phase = "ok" => ~Cyclic(main)

\* A walk whose module was replaced has a walk of the same module above it, which
\* ends where the other one is: there it finds a cycle.
StaleInv ==
  \A i \in 1 .. Len(stack) : stack[i].stale =>
    \E j \in i + 1 .. Len(stack) :
      /\ stack[j].file = stack[i].file /\ stack[j].next > 0 /\ stack[i].next > 0
      /\ \/ stack[j].next < stack[i].next
         \/ stack[j].next = stack[i].next /\ j = Len(stack) - 1 /\ stack[Len(stack)].next = 0

\* The file of a frame is reached from those of the frames below it.
PathInv ==
  \A i, j \in 1 .. Len(stack) : i <= j => stack[j].file \in Reachable(stack[i].file)

\* What is in visited was asked for or is the stem of what was; on a manager that
\* no error has left names in, what may be asked for is being resolved.
AskedNames == Asked \cup {NameOf[f] : f \in Roots}
VisitedInv ==
  /\ \A s \in visited : s \in AskedNames \/ \E t \in Asked : s = NameOf[Target[t]]
  /\ phase \in {"idle", "ok", "resolving"} /\ ~dirty /\ OneSpelling =>
       \A s \in visited \cap AskedNames :
         \E i \in 1 .. Len(stack) : stack[i].name = s /\ stack[i].next > 0

IInv ==
  /\ TypeOK /\ StoreInv /\ WalkInv /\ WalkedInv /\ StaleInv /\ PathInv /\ VisitedInv
  /\ CyclesAreReal

-------------------------------------------------------------------------------
(* The import graph.                                                           *)

\* A text that is the stem of a file and finds one finds that file.
LEMMA StemFinds ==
  ASSUME DistinctStems, NEW s \in Spelling, NEW f \in File, Found(s), s = NameOf[f]
  PROVE  Target[s] = f
<1>1. NameOf[Target[s]] = NameOf[f] /\ Target[s] \in File
  BY ModulesAssumption DEF Found, DistinctStems
<1>2. QED
  BY <1>1 DEF DistinctStems

LEMMA ImportFacts ==
  ASSUME TypeOK
  PROVE  \A f \in File :
           /\ imports[f] \in Seq(Spelling)
           /\ ImportedBy(f) \subseteq File
           /\ \A k \in DOMAIN imports[f] :
                /\ imports[f][k] \in Spelling
                /\ Found(imports[f][k]) => Target[imports[f][k]] \in ImportedBy(f)
                /\ Found(imports[f][k]) => imports[f][k] \in Asked
<1> TAKE f \in File
<1>1. imports[f] \in Seq(Spelling)
  BY ModulesAssumption DEF TypeOK
<1>2. ImportedBy(f) \subseteq File
  BY DEF ImportedBy, Found
<1>3. ASSUME NEW k \in DOMAIN imports[f]
      PROVE  /\ imports[f][k] \in Spelling
             /\ imports[f][k] \in ToSet(imports[f])
  BY <1>1, <1>3 DEF ToSet
<1>4. QED
  BY <1>1, <1>2, <1>3 DEF ImportedBy, Asked

\* A file is reached from itself, and with a file what that imports.
LEMMA ReachSelf ==
  ASSUME NEW f \in File
  PROVE  f \in Reachable(f)
BY DEF Reachable

LEMMA ReachStep ==
  ASSUME NEW f \in File, NEW g \in Reachable(f), NEW h \in ImportedBy(g)
  PROVE  h \in Reachable(f)
BY DEF Reachable, ImportClosed, ImportedBy, Found

LEMMA ReachClosed ==
  ASSUME NEW f \in File, NEW S \in SUBSET File, f \in S, ImportClosed(S)
  PROVE  Reachable(f) \subseteq S
BY DEF Reachable

\* A file that imports only files without a circle has none.
LEMMA NoNewCycle ==
  ASSUME NEW f \in File, \A h \in ImportedBy(f) : ~Cyclic(h)
  PROVE  ~Cyclic(f)
<1> SUFFICES ASSUME Cyclic(f) PROVE FALSE
  OBVIOUS
<1>1. PICK g \in Reachable(f) : \E h \in ImportedBy(g) : g \in Reachable(h)
  BY DEF Cyclic
<1>2. PICK h \in ImportedBy(g) : g \in Reachable(h)
  BY <1>1
<1>3. CASE g = f
  BY <1>2, <1>3 DEF Cyclic
<1>4. CASE g # f
  <2> DEFINE S == {f} \cup UNION {Reachable(e) : e \in ImportedBy(f)}
  <2>1. S \in SUBSET File /\ f \in S
    BY DEF Reachable
  <2>2. ImportClosed(S)
    <3>1. ASSUME NEW x \in S, NEW y \in ImportedBy(x) PROVE y \in S
      <4>1. CASE x = f
        <5>1. y \in ImportedBy(f) /\ y \in File
          BY <3>1, <4>1 DEF ImportedBy, Found
        <5>2. QED
          BY <5>1, ReachSelf
      <4>2. CASE x # f
        <5>1. PICK e \in ImportedBy(f) : x \in Reachable(e)
          BY <4>2
        <5>2. e \in File
          BY DEF ImportedBy, Found
        <5>3. QED
          BY <3>1, <5>1, <5>2, ReachStep
      <4>3. QED
        BY <4>1, <4>2
    <3>2. QED
      BY <3>1 DEF ImportClosed
  <2>3. PICK e \in ImportedBy(f) : g \in Reachable(e)
    BY <1>1, <1>4, <2>1, <2>2, ReachClosed
  <2>4. Cyclic(e)
    BY <1>2, <2>3 DEF Cyclic
  <2>5. QED
    BY <2>4
<1>5. QED
  BY <1>3, <1>4

\* The files do not change.
LEMMA GraphFrame ==
  ASSUME imports' = imports
  PROVE  /\ Asked' = Asked
         /\ \A f : Reachable(f)' = Reachable(f) /\ ImportedBy(f)' = ImportedBy(f)
         /\ \A f : Cyclic(f)' <=> Cyclic(f)
<1>1. Asked' = Asked /\ \A f : ImportedBy(f)' = ImportedBy(f)
  BY DEF Asked, ImportedBy
<1>2. \A S : ImportClosed(S)' <=> ImportClosed(S)
  BY <1>1 DEF ImportClosed
<1>3. \A f : Reachable(f)' = Reachable(f)
  BY <1>2 DEF Reachable
<1>4. \A f : Cyclic(f)' <=> Cyclic(f)
  BY <1>1, <1>3 DEF Cyclic
<1>5. QED
  BY <1>1, <1>3, <1>4

-------------------------------------------------------------------------------
(* The stack.                                                                  *)

LEMMA FrameFacts ==
  ASSUME TypeOK
  PROVE  /\ Len(stack) \in Nat
         /\ \A i \in 1 .. Len(stack) :
              /\ stack[i] \in Frame
              /\ stack[i].name \in Spelling /\ stack[i].file \in File
              /\ stack[i].next \in Nat /\ stack[i].stale \in BOOLEAN
              /\ imports[stack[i].file] \in Seq(Spelling)
<1>1. stack \in Seq(Frame) /\ Len(stack) \in Nat /\ \A i \in 1 .. Len(stack) : stack[i] \in Frame
  BY DEF TypeOK
<1>2. \A r \in Frame :
        /\ r.name \in Spelling /\ r.file \in File /\ r.next \in Nat /\ r.stale \in BOOLEAN
  BY ZenonT(60) DEF Frame
<1>3. QED
  BY <1>1, <1>2, ImportFacts

LEMMA FramesOf ==
  ASSUME NEW n \in Nat, NEW s \in [1 .. n -> Frame]
  PROVE  s \in Seq(Frame) /\ Len(s) = n
OBVIOUS

\* The call that is open.
LEMMA TopFacts ==
  ASSUME IInv, DistinctStems, stack # <<>>
  PROVE  /\ Len(stack) \in Nat \ {0} /\ Top = stack[Len(stack)] /\ Top \in Frame
         /\ Len(stack) \in 1 .. Len(stack)
         /\ \A i \in 1 .. Len(stack) - 1 : stack[i].next > 1
         /\ Top.next > 0 => /\ Imports = imports[Top.file]
                            /\ \A k \in DOMAIN Imports : Imports[k] \in Spelling
<1>1. Len(stack) \in Nat \ {0}
  BY DEF IInv, TypeOK
<1>2. Top = stack[Len(stack)] /\ Top \in Frame
  BY <1>1, FrameFacts DEF Top, Last, IInv
<1>3. ASSUME NEW i \in 1 .. Len(stack) - 1 PROVE stack[i].next > 1
  <2> DEFINE j == i + 1
  <2>1. j \in 1 .. Len(stack) /\ j > 1 /\ j - 1 = i /\ i \in 1 .. Len(stack)
    BY <1>1
  <2> HIDE DEF j
  <2>2. stack[i].next - 1 \in DOMAIN imports[stack[i].file]
    BY <2>1 DEF IInv, WalkInv
  <2>3. stack[i].next \in Nat /\ imports[stack[i].file] \in Seq(Spelling)
    BY <2>1, FrameFacts DEF IInv
  <2>4. QED
    BY <2>2, <2>3
<1>4. ASSUME Top.next > 0
      PROVE  Imports = imports[Top.file] /\ \A k \in DOMAIN Imports : Imports[k] \in Spelling
  <2>1. Top.loaded = NameOf[Top.file] /\ Top.loaded \in DOMAIN modules /\ Top.file \in File
    BY <1>1, <1>2, <1>4, FrameFacts DEF IInv, WalkInv
  <2>2. modules[Top.loaded] \in File /\ NameOf[modules[Top.loaded]] = NameOf[Top.file]
    BY <2>1 DEF IInv, TypeOK, StoreInv
  <2>3. modules[Top.loaded] = Top.file
    BY <2>1, <2>2 DEF DistinctStems
  <2>4. imports[Top.file] \in Seq(Spelling)
    BY <2>1, ImportFacts DEF IInv
  <2>5. QED
    BY <2>3, <2>4 DEF Imports
<1>5. QED
  BY <1>1, <1>2, <1>3, <1>4

\* What a frame was asked for by finds its file, or is the stem of the program.
LEMMA NameFacts ==
  ASSUME IInv, DistinctStems, NEW i \in 1 .. Len(stack)
  PROVE  /\ StemOf[stack[i].name] = NameOf[stack[i].file]
         /\ i > 1 => stack[i].name \in Asked /\ Target[stack[i].name] = stack[i].file
         /\ i = 1 => stack[i].file = main /\ stack[i].name = NameOf[main]
                     /\ main \in Roots /\ main \in File
         /\ stack[i].name \in AskedNames
<1>0. Len(stack) \in Nat /\ stack[i].file \in File /\ stack[i].name \in Spelling
  BY FrameFacts DEF IInv
<1>1. CASE i = 1
  <2>1. stack # <<>> /\ stack[i].file = main /\ stack[i].name = NameOf[main]
    BY <1>0, <1>1 DEF IInv, WalkInv
  <2>2. phase = "resolving" /\ programs # <<>> /\ programs \in Seq(File)
    BY <2>1 DEF IInv, WalkInv, TypeOK
  <2>3. main \in ToSet(programs)
    BY <2>2 DEF main, Last, ToSet
  <2>4. QED
    BY <1>0, <1>1, <2>1, <2>3 DEF Roots, AskedNames, DistinctStems
<1>2. CASE i > 1
  <2> DEFINE f == stack[i - 1].file
             at == stack[i - 1].next - 1
  <2>1. i - 1 \in 1 .. Len(stack)
    BY <1>0, <1>2
  <2>2. /\ at \in DOMAIN imports[f]
        /\ stack[i].name = imports[f][at] /\ stack[i].file = Target[imports[f][at]]
    BY <1>2 DEF IInv, WalkInv
  <2>3. f \in File
    BY <2>1, FrameFacts DEF IInv
  <2>4. stack[i].name \in Asked /\ Found(stack[i].name)
    BY <1>0, <2>2, <2>3, ImportFacts, SMTT(60) DEF IInv, Found
  <2>5. StemOf[stack[i].name] = NameOf[stack[i].file]
    BY <1>0, <2>2, <2>4, ModulesAssumption, ZenonT(60) DEF Found
  <2>6. QED
    <3>1. i # 1
      BY <1>2
    <3>2. QED
      BY <1>2, <2>2, <2>4, <2>5, <3>1, ZenonT(60) DEF AskedNames
<1>3. QED
  BY <1>0, <1>1, <1>2

\* The part of a program that a step leaves alone.
LEMMA RootsFrame ==
  ASSUME UNCHANGED <<imports, programs>>
  PROVE  /\ Asked' = Asked /\ Roots' = Roots /\ AskedNames' = AskedNames /\ main' = main
         /\ OneSpelling' <=> OneSpelling
<1>1. Asked' = Asked
  BY GraphFrame
<1>2. Roots' = Roots /\ main' = main
  BY DEF Roots, main
<1>3. QED
  BY <1>1, <1>2 DEF AskedNames, OneSpelling

\* An exception: nothing is resolved any more.
LEMMA ThrowStep ==
  ASSUME IInv, phase = "resolving", NEW how \in {"cycle", "missing"}, Throw(how),
         how = "cycle" /\ ~dirty /\ OneSpelling => Cyclic(main)
  PROVE  IInv'
<1>1. TypeOK'
  BY DEF IInv, TypeOK, Throw, Ended
<1>2. StoreInv'
  BY DEF IInv, StoreInv, Throw
<1>3. stack' = <<>> /\ Len(stack') = 0 /\ phase' = how
  BY DEF Throw
<1>4. WalkInv'
  <2>1. programs' = programs /\ programs # <<>>
    BY DEF IInv, WalkInv, Throw
  <2>2. QED
    BY <1>3, <2>1 DEF WalkInv
<1>5. WalkedInv' /\ StaleInv' /\ PathInv'
  BY <1>3 DEF WalkedInv, StaleInv, PathInv
<1>6. imports' = imports /\ programs' = programs /\ visited' = visited /\ dirty' = dirty
  BY DEF Throw
<1>7. VisitedInv'
  BY <1>3, <1>6, RootsFrame DEF IInv, VisitedInv
<1>8. CyclesAreReal'
  BY <1>3, <1>6, RootsFrame, GraphFrame DEF CyclesAreReal
<1>9. QED
  BY <1>1, <1>2, <1>4, <1>5, <1>7, <1>8 DEF IInv

\* A name that is met while it is being resolved closes a circle.
LEMMA CycleFoundStep ==
  ASSUME IInv, DistinctStems, CycleFound
  PROVE  IInv'
<1> DEFINE n == Len(stack)
<1>1. phase = "resolving" /\ Throw("cycle") /\ stack # <<>> /\ Top.next = 0 /\ Top.name \in visited
  BY DEF IInv, WalkInv, CycleFound
<1>2. n \in Nat \ {0} /\ n \in 1 .. n /\ Top = stack[n]
  BY <1>1, TopFacts
<1> HIDE DEF n
<1>3. ASSUME ~dirty, OneSpelling PROVE Cyclic(main)
  <2>1. Top.name \in visited \cap AskedNames
    BY <1>1, <1>2, NameFacts DEF n
  <2>2. PICK i \in 1 .. n : stack[i].name = Top.name /\ stack[i].next > 0
    BY <1>1, <1>3, <2>1 DEF IInv, VisitedInv, n
  <2> DEFINE j == i + 1
             g == stack[i].file
             h == stack[j].file
  <2>3. i < n /\ j \in 1 .. n /\ j > 1 /\ j - 1 = i /\ n > 1 /\ 1 \in 1 .. n
    <3>1. i # n
      BY <1>1, <1>2, <2>2
    <3>2. QED
      BY <1>2, <3>1
  <2> HIDE DEF j
  <2>4. stack[n].file = g
    <3>1. Top.name \in Asked /\ Target[Top.name] = stack[n].file
      BY <1>2, <2>3, NameFacts DEF n
    <3>2. CASE i > 1
      BY <2>2, <3>1, <3>2, NameFacts DEF n
    <3>3. CASE i = 1
      <4>1. Top.name = NameOf[main] /\ main \in File /\ g = main
        BY <2>2, <3>3, NameFacts DEF n
      <4>2. Top.name \in Spelling /\ Found(Top.name)
        BY <1>2, <3>1, FrameFacts DEF IInv, Found, n
      <4>3. QED
        BY <3>1, <4>1, <4>2, StemFinds
    <3>4. QED
      BY <1>2, <3>2, <3>3
  <2>5. g \in File /\ h \in File
    BY <2>3, FrameFacts DEF IInv, n
  <2>6. h \in ImportedBy(g)
    <3> DEFINE at == stack[i].next - 1
    <3>1. at \in DOMAIN imports[g] /\ h = Target[imports[g][at]]
      BY <2>3 DEF IInv, WalkInv, n
    <3> HIDE DEF at
    <3>2. QED
      BY <2>5, <3>1, ImportFacts DEF IInv, Found
  <2>7. g \in Reachable(h)
    <3>1. j <= n
      BY <1>2, <2>3
    <3>2. QED
      BY <1>2, <2>3, <2>4, <3>1 DEF IInv, PathInv, n
  <2>8. g \in Reachable(main)
    <3>1. stack[1].file = main
      BY <1>1 DEF IInv, WalkInv
    <3>2. 1 <= i
      BY <1>2
    <3>3. QED
      BY <2>3, <3>1, <3>2 DEF IInv, PathInv, n
  <2>9. QED
    BY <2>6, <2>7, <2>8 DEF Cyclic
<1>4. QED
  BY <1>1, <1>3, ThrowStep

\* The module a call has loaded is the one it was made for.
LEMMA LoadedOwn ==
  ASSUME IInv, DistinctStems, stack # <<>>, Top.name \in DOMAIN modules
  PROVE  Top.name = NameOf[Top.file]
<1> DEFINE n == Len(stack)
           g == modules[Top.name]
<1>1. n \in Nat \ {0} /\ n \in 1 .. n /\ Top = stack[n]
  BY TopFacts
<1>2. g \in File /\ NameOf[g] = Top.name
  BY DEF IInv, TypeOK, StoreInv
<1> HIDE DEF n, g
<1>3. CASE n = 1
  BY <1>1, <1>3, NameFacts DEF n
<1>4. CASE n > 1
  <2>1. Target[Top.name] = Top.file /\ Top.file \in File /\ Top.name \in Spelling
    BY <1>1, <1>4, NameFacts, FrameFacts DEF n, IInv
  <2>2. Target[Top.name] = g
    BY <1>2, <2>1, StemFinds DEF Found
  <2>3. QED
    BY <1>2, <2>1, <2>2
<1>5. QED
  BY <1>1, <1>3, <1>4

\* Loading a module: its walk begins.
LEMMA LoadStep ==
  ASSUME IInv, DistinctStems, Load
  PROVE  IInv'
<1> DEFINE n == Len(stack)
           known == Top.name \in DOMAIN modules
           loaded == IF known THEN Top.name ELSE NameOf[Top.file]
           own == NameOf[Top.file]
<1>1. /\ phase = "resolving" /\ stack # <<>> /\ Top.next = 0 /\ Top.name \notin visited
      /\ UNCHANGED <<imports, programs, phase, dirty>>
  BY DEF IInv, WalkInv, Load
<1>2. /\ n \in Nat \ {0} /\ n \in 1 .. n /\ Top = stack[n] /\ Top \in Frame
      /\ \A i \in 1 .. n - 1 : stack[i].next > 1
      /\ Top.name \in Spelling /\ Top.file \in File
  BY <1>1, TopFacts, FrameFacts DEF IInv
<1>3. loaded = own
  BY <1>1, LoadedOwn
<1>4. own \in Spelling
  BY <1>2, ModulesAssumption
<1>5. /\ modules' = IF known THEN modules
                    ELSE [m \in DOMAIN modules \cup {own} |->
                            IF m = own THEN Top.file ELSE modules[m]]
      /\ visited' = visited \cup {Top.name, own}
      /\ stack' = [i \in DOMAIN stack |->
                     IF i = n THEN [Top EXCEPT !.loaded = own, !.next = 1]
                     ELSE [stack[i] EXCEPT !.stale = @ \/ (~known /\ stack[i].loaded = own)]]
  BY <1>3, ZenonT(60) DEF Load
<1>6. /\ DOMAIN modules' = DOMAIN modules \cup {own}
      /\ \A m \in DOMAIN modules' : \/ m \in DOMAIN modules /\ modules'[m] = modules[m]
                                    \/ m = own /\ modules'[m] = Top.file
  <2>1. CASE known
    BY <1>3, <1>5, <2>1
  <2>2. CASE ~known
    BY <1>5, <2>2
  <2>3. QED
    BY <2>1, <2>2
<1>7. /\ Len(stack') = n /\ stack' \in Seq(Frame)
      /\ \A i \in 1 .. n : /\ stack'[i].name = stack[i].name /\ stack'[i].file = stack[i].file
                           /\ i # n => /\ stack'[i].loaded = stack[i].loaded
                                       /\ stack'[i].next = stack[i].next
                                       /\ stack'[i].stale => stack[i].stale \/ stack[i].loaded = own
      /\ stack'[n].loaded = own /\ stack'[n].next = 1 /\ stack'[n].stale = stack[n].stale
  <2> HIDE DEF known, own
  <2>1. stack \in Seq(Frame) /\ DOMAIN stack = 1 .. n
    BY DEF IInv, TypeOK
  <2> HIDE DEF n
  <2>2. \A i \in 1 .. n : stack[i] \in Frame
    BY <2>1 DEF n
  <2>3. \A i \in 1 .. n : stack'[i] \in Frame
    BY <1>2, <1>4, <1>5, <2>1, <2>2, ZenonT(60) DEF Frame
  <2>4. \A i \in 1 .. n : i # n =>
          stack'[i] = [stack[i] EXCEPT !.stale = @ \/ (~known /\ stack[i].loaded = own)]
    BY <1>5, <2>1
  <2>5. stack'[n] = [stack[n] EXCEPT !.loaded = own, !.next = 1]
    BY <1>2, <1>5, <2>1
  <2>6. Len(stack') = n /\ stack' \in Seq(Frame)
    <3>1. stack' \in [1 .. n -> Frame]
      BY <1>5, <2>1, <2>3
    <3>2. QED
      BY <1>2, <3>1, FramesOf
  <2>7. \A i \in 1 .. n : /\ stack'[i].name = stack[i].name /\ stack'[i].file = stack[i].file
                          /\ i # n => /\ stack'[i].loaded = stack[i].loaded
                                      /\ stack'[i].next = stack[i].next
    <3> TAKE i \in 1 .. n
    <3>1. CASE i = n
      BY <2>2, <2>5, <3>1, ZenonT(60) DEF Frame
    <3>2. CASE i # n
      BY <2>2, <2>4, <3>2, ZenonT(60) DEF Frame
    <3>3. QED
      BY <3>1, <3>2
  <2>8. \A i \in 1 .. n : i # n => (stack'[i].stale => stack[i].stale \/ stack[i].loaded = own)
    BY <2>2, <2>4, ZenonT(60) DEF Frame
  <2>9. stack'[n].loaded = own /\ stack'[n].next = 1 /\ stack'[n].stale = stack[n].stale
    BY <1>2, <2>2, <2>5, ZenonT(60) DEF Frame
  <2>10. QED
    BY <2>6, <2>7, <2>8, <2>9
<1> HIDE DEF n, known, loaded, own
<1>8. TypeOK'
  <2>1. \A m \in DOMAIN modules' : m \in Spelling /\ modules'[m] \in File
    BY <1>2, <1>4, <1>6 DEF IInv, TypeOK
  <2>2. visited' \subseteq Spelling
    BY <1>2, <1>4, <1>5 DEF IInv, TypeOK
  <2>3. QED
    BY <1>1, <1>7, <2>1, <2>2 DEF IInv, TypeOK
<1>9. StoreInv'
  BY <1>6 DEF IInv, StoreInv, own
<1>10. main' = main /\ stack[1].name = stack'[1].name /\ stack[1].file = stack'[1].file
  BY <1>1, <1>2, <1>7, RootsFrame
<1>11. WalkInv'
  <2>1. stack' # <<>> /\ phase' = "resolving" /\ programs' = programs /\ programs # <<>>
    BY <1>1, <1>2, <1>7 DEF IInv, WalkInv
  <2>2. stack'[1].name = NameOf[main'] /\ stack'[1].file = main'
    BY <1>1, <1>10 DEF IInv, WalkInv
  <2>3. ASSUME NEW i \in 1 .. n, i > 1
        PROVE  LET walk == imports[stack'[i - 1].file]
                   at == stack'[i - 1].next - 1
               IN /\ at \in DOMAIN walk
                  /\ stack'[i].name = walk[at] /\ stack'[i].file = Target[walk[at]]
    <3>1. i - 1 \in 1 .. n /\ i - 1 # n
      BY <1>2, <2>3
    <3>2. /\ stack'[i - 1].file = stack[i - 1].file /\ stack'[i - 1].next = stack[i - 1].next
          /\ stack'[i].name = stack[i].name /\ stack'[i].file = stack[i].file
      BY <1>7, <3>1
    <3>3. QED
      BY <2>3, <3>2 DEF IInv, WalkInv, n
  <2>4. ASSUME NEW i \in 1 .. n, stack'[i].next > 0
        PROVE  /\ stack'[i].loaded = NameOf[stack'[i].file] /\ stack'[i].loaded \in DOMAIN modules'
               /\ stack'[i].name \in visited'
    <3>1. CASE i = n
      <4>1. stack'[n].loaded = NameOf[stack'[n].file] /\ own \in DOMAIN modules'
        BY <1>2, <1>6, <1>7 DEF own
      <4>2. stack'[n].name \in visited'
        BY <1>2, <1>5, <1>7
      <4>3. QED
        BY <1>7, <3>1, <4>1, <4>2
    <3>2. CASE i # n
      <4>1. /\ stack'[i].loaded = stack[i].loaded /\ stack'[i].name = stack[i].name
            /\ stack'[i].file = stack[i].file /\ stack[i].next > 0
        BY <1>7, <2>4, <3>2
      <4>2. /\ stack[i].loaded = NameOf[stack[i].file] /\ stack[i].loaded \in DOMAIN modules
            /\ stack[i].name \in visited
        BY <4>1 DEF IInv, WalkInv, n
      <4>3. QED
        BY <1>5, <1>6, <4>1, <4>2
    <3>3. QED
      BY <3>1, <3>2
  <2>5. ASSUME NEW i \in 1 .. n, NEW j \in 1 .. n, i < j, stack'[j].next > 0
        PROVE  stack'[i].name # stack'[j].name
    <3>1. CASE j = n
      <4>1. i \in 1 .. n - 1
        BY <1>2, <2>5
      <4>2. stack[i].next > 0
        BY <1>2, <4>1, FrameFacts DEF IInv, n
      <4>3. stack[i].name \in visited
        BY <4>2 DEF IInv, WalkInv, n
      <4>4. QED
        BY <1>1, <1>2, <1>7, <3>1, <4>3
    <3>2. CASE j # n
      BY <1>7, <2>5, <3>2 DEF IInv, WalkInv, n
    <3>3. QED
      BY <3>1, <3>2
  <2>6. QED
    BY <1>1, <1>7, <2>1, <2>2, <2>3, <2>4, <2>5, SMTT(60) DEF WalkInv
<1>12. WalkedInv'
  <2>1. ASSUME NEW i \in 1 .. n, NEW k \in 1 .. stack'[i].next - 1,
               i = n \/ k < stack'[i].next - 1, Found(imports[stack'[i].file][k])
        PROVE  ~Cyclic(Target[imports[stack'[i].file][k]])
    <3>1. i # n
      BY <1>7
    <3>2. QED
      BY <1>7, <2>1, <3>1, SMTT(60) DEF IInv, WalkedInv, n
  <2>2. QED
    BY <1>1, <1>7, <2>1, GraphFrame DEF WalkedInv, Found
<1>13. StaleInv'
  <2> SUFFICES ASSUME NEW i \in 1 .. n, stack'[i].stale
               PROVE  \E j \in i + 1 .. n :
                        /\ stack'[j].file = stack'[i].file /\ stack'[j].next > 0
                        /\ stack'[i].next > 0 /\ stack'[j].next < stack'[i].next
    BY <1>7 DEF StaleInv
  <2>1. stack[i].stale => i # n
    BY <1>2 DEF IInv, StaleInv, n
  <2>2. i # n /\ (stack[i].stale \/ stack[i].loaded = own)
    BY <1>7, <2>1
  <2>3. i \in 1 .. n - 1 /\ stack[i].next > 1
    BY <1>2, <2>2
  <2>4. CASE stack[i].stale
    <3>1. PICK j \in i + 1 .. n :
            /\ stack[j].file = stack[i].file /\ stack[j].next > 0 /\ stack[i].next > 0
            /\ \/ stack[j].next < stack[i].next
               \/ stack[j].next = stack[i].next /\ j = n - 1 /\ stack[n].next = 0
      BY <2>4 DEF IInv, StaleInv, n
    <3>2. j \in 1 .. n /\ j # n
      BY <1>1, <1>2, <3>1
    <3>3. CASE stack[j].next < stack[i].next
      BY <1>7, <2>2, <3>1, <3>2, <3>3
    <3>4. CASE stack[j].next = stack[i].next /\ j = n - 1
      <4> DEFINE m == i + 1
      <4>1. m \in 1 .. n /\ m > 1 /\ m - 1 = i /\ n > 1 /\ n - 1 = j /\ m \in 1 .. n - 1
        BY <1>2, <3>1, <3>4
      <4> HIDE DEF m
      <4>2. stack[m].name = imports[stack[i].file][stack[i].next - 1]
        BY <4>1 DEF IInv, WalkInv, n
      <4>3. Top.name = imports[stack[j].file][stack[j].next - 1]
        BY <1>2, <4>1 DEF IInv, WalkInv, n
      <4>4. stack[m].next > 0
        <5>1. stack[m].next > 1
          BY <1>2, <4>1
        <5>2. stack[m].next \in Nat
          BY <4>1, FrameFacts DEF IInv, n
        <5>3. QED
          BY <5>1, <5>2
      <4>5. stack[m].name \in visited
        BY <4>1, <4>4 DEF IInv, WalkInv, n
      <4>6. QED
        BY <1>1, <3>1, <3>4, <4>2, <4>3, <4>5
    <3>5. QED
      BY <3>1, <3>3, <3>4
  <2>5. CASE stack[i].loaded = own
    <3>1. stack[i].loaded = NameOf[stack[i].file] /\ stack[i].file \in File /\ stack[i].next \in Nat
      BY <2>3, FrameFacts DEF IInv, WalkInv, n
    <3>2. stack[i].file = Top.file
      BY <1>2, <2>5, <3>1, ZenonT(60) DEF DistinctStems, own
    <3>3. n \in i + 1 .. n
      BY <1>2, <2>3
    <3>4. /\ stack'[n].file = stack'[i].file /\ stack'[n].next > 0
          /\ stack'[i].next > 0 /\ stack'[n].next < stack'[i].next
      BY <1>2, <1>7, <2>2, <2>3, <3>1, <3>2
    <3>5. QED
      BY <3>3, <3>4
  <2>6. QED
    BY <2>2, <2>4, <2>5
<1>14. PathInv'
  BY <1>1, <1>7, GraphFrame DEF IInv, PathInv, n
<1>15. VisitedInv'
  <2>1. Top.name \in AskedNames /\ (own \in AskedNames \/ \E t \in Asked : own = NameOf[Target[t]])
    <3>1. CASE n = 1
      BY <1>2, <3>1, NameFacts DEF n, own
    <3>2. CASE n > 1
      BY <1>2, <3>2, NameFacts DEF n, own
    <3>3. QED
      BY <1>2, <3>1, <3>2
  <2>2. \A s \in visited' : s \in AskedNames \/ \E t \in Asked : s = NameOf[Target[t]]
    BY <1>5, <2>1 DEF IInv, VisitedInv
  <2>3. ASSUME ~dirty, OneSpelling, NEW s \in visited' \cap AskedNames
        PROVE  \E i \in 1 .. n : stack'[i].name = s /\ stack'[i].next > 0
    <3>1. CASE s \in visited
      <4>1. PICK i \in 1 .. n : stack[i].name = s /\ stack[i].next > 0
        BY <1>1, <2>3, <3>1 DEF IInv, VisitedInv, n
      <4>2. QED
        BY <1>1, <1>2, <1>7, <4>1
    <3>2. CASE s = Top.name
      BY <1>2, <1>7, <3>2
    <3>3. CASE s = own
      <4>1. CASE n = 1
        BY <1>2, <1>7, <3>3, <4>1, NameFacts DEF n, own
      <4>2. CASE n > 1
        <5>1. Top.name \in Asked /\ Target[Top.name] = Top.file
          BY <1>2, <4>2, NameFacts DEF n
        <5>2. CASE s \in Asked
          <6>1. s \in Spelling /\ Found(s)
            BY <1>4, <3>3, <5>2 DEF Asked
          <6>2. Target[s] = Top.file
            BY <1>2, <3>3, <6>1, StemFinds DEF own
          <6>3. s = Top.name
            BY <2>3, <5>1, <5>2, <6>2 DEF OneSpelling
          <6>4. QED
            BY <3>2, <6>3
        <5>3. CASE s \notin Asked
          <6>1. PICK f \in Roots : s = NameOf[f]
            BY <2>3, <5>3 DEF AskedNames
          <6>2. f \in File
            BY ModulesAssumption DEF Roots, ToSet, IInv, TypeOK
          <6>3. f = Top.file
            BY <1>2, <3>3, <6>1, <6>2, ZenonT(60) DEF DistinctStems, own
          <6>4. Top.name = own
            BY <2>3, <5>1, <6>1, <6>3 DEF OneSpelling, own
          <6>5. QED
            BY <3>2, <3>3, <6>4
        <5>4. QED
          BY <5>2, <5>3
      <4>3. QED
        BY <1>2, <4>1, <4>2
    <3>4. QED
      BY <1>5, <2>3, <3>1, <3>2, <3>3, ZenonT(60)
  <2>4. QED
    BY <1>1, <1>7, <2>2, <2>3, RootsFrame DEF VisitedInv
<1>16. CyclesAreReal'
  BY <1>1 DEF CyclesAreReal
<1>17. QED
  BY <1>8, <1>9, <1>11, <1>12, <1>13, <1>14, <1>15, <1>16 DEF IInv

\* The call that is open goes on to its next import.
Walked == [stack EXCEPT ![Len(stack)].next = @ + 1]

LEMMA WalkedFacts ==
  ASSUME IInv, DistinctStems, stack # <<>>
  PROVE  /\ Walked \in Seq(Frame) /\ Len(Walked) = Len(stack)
         /\ \A i \in 1 .. Len(stack) :
              /\ Walked[i].name = stack[i].name /\ Walked[i].file = stack[i].file
              /\ Walked[i].loaded = stack[i].loaded /\ Walked[i].stale = stack[i].stale
              /\ i # Len(stack) => Walked[i].next = stack[i].next
         /\ Walked[Len(stack)].next = Top.next + 1
<1> DEFINE n == Len(stack)
           f == [Top EXCEPT !.next = Top.next + 1]
<1>1. /\ n \in Nat /\ n \in 1 .. n /\ Top = stack[n] /\ DOMAIN stack = 1 .. n
      /\ stack \in Seq(Frame) /\ \A i \in 1 .. n : stack[i] \in Frame
  BY TopFacts, FrameFacts DEF IInv, TypeOK
<1>2. Walked = [stack EXCEPT ![n] = f]
  BY <1>1 DEF Walked
<1> HIDE DEF n
<1>3. Top.next \in Nat /\ f \in Frame /\ f.next = Top.next + 1 /\ f.name = Top.name
      /\ f.file = Top.file /\ f.loaded = Top.loaded /\ f.stale = Top.stale
  <2>1. Top \in Frame
    BY <1>1
  <2>2. Top.next \in Nat /\ Top.next + 1 \in Nat
    <3>1. \A r \in Frame : r.next \in Nat
      BY ZenonT(60) DEF Frame
    <3>2. Top.next \in Nat
      BY <2>1, <3>1
    <3>3. QED
      BY <3>2
  <2> DEFINE x == Top.next + 1
  <2> HIDE DEF x
  <2>3. \A r \in Frame : x \in Nat => LET e == [r EXCEPT !.next = x] IN
          /\ e \in Frame /\ e.next = x /\ e.name = r.name
          /\ e.file = r.file /\ e.loaded = r.loaded /\ e.stale = r.stale
    BY ZenonT(60) DEF Frame
  <2>4. QED
    BY <2>1, <2>2, <2>3 DEF x
<1> HIDE DEF f
<1>4. /\ Walked[n] = f /\ \A i \in 1 .. n : i # n => Walked[i] = stack[i]
      /\ Walked \in [1 .. n -> Frame]
  BY <1>1, <1>2, <1>3
<1>5. Walked \in Seq(Frame) /\ Len(Walked) = n
  BY <1>1, <1>4, FramesOf
<1>6. ASSUME NEW i \in 1 .. n
      PROVE  /\ Walked[i].name = stack[i].name /\ Walked[i].file = stack[i].file
             /\ Walked[i].loaded = stack[i].loaded /\ Walked[i].stale = stack[i].stale
  <2>1. CASE i = n
    BY <1>1, <1>3, <1>4, <2>1
  <2>2. CASE i # n
    BY <1>4, <2>2
  <2>3. QED
    BY <2>1, <2>2
<1>7. QED
  BY <1>3, <1>4, <1>5, <1>6, ZenonT(60) DEF n

\* The imports of the module the open call walks.
LEMMA NextFacts ==
  ASSUME IInv, DistinctStems, stack # <<>>, Top.next > 0, Top.next \in DOMAIN Imports
  PROVE  LET s == imports[Top.file][Top.next]
         IN /\ Imports = imports[Top.file] /\ Top.next \in DOMAIN imports[Top.file]
            /\ Imports[Top.next] = s /\ s \in Spelling
            /\ Found(s) => Target[s] \in ImportedBy(Top.file) /\ Target[s] \in File
            /\ Found(s) \/ Target[s] \in {Virtual, Missing}
<1> DEFINE s == imports[Top.file][Top.next]
<1>1. Imports = imports[Top.file] /\ Top.file \in File /\ s \in Spelling
  BY TopFacts, FrameFacts DEF IInv
<1>2. Found(s) => Target[s] \in ImportedBy(Top.file) /\ Target[s] \in File
  BY <1>1, ImportFacts DEF IInv, Found
<1>3. Found(s) \/ Target[s] \in {Virtual, Missing}
  BY <1>1, ModulesAssumption DEF Found
<1>4. QED
  BY <1>1, <1>2, <1>3

\* A stale walk has not come past the walk above it, unless that one is about to
\* ask for what it asked for.
LEMMA StaleWalk ==
  ASSUME IInv, DistinctStems, stack # <<>>, Top.next > 0, NEW i \in 1 .. Len(stack), stack[i].stale
  PROVE  \E j \in i + 1 .. Len(stack) :
           /\ stack[j].file = stack[i].file /\ stack[j].next > 0 /\ stack[i].next > 0
           /\ stack[j].next < stack[i].next
           /\ stack[i].next - 1 \in DOMAIN imports[stack[i].file]
           /\ Found(imports[stack[i].file][stack[i].next - 1])
<1> DEFINE n == Len(stack)
           m == i + 1
<1>1. n \in Nat \ {0} /\ Top = stack[n]
  BY TopFacts
<1> HIDE DEF n
<1>2. PICK j \in i + 1 .. n :
        /\ stack[j].file = stack[i].file /\ stack[j].next > 0 /\ stack[i].next > 0
        /\ \/ stack[j].next < stack[i].next
           \/ stack[j].next = stack[i].next /\ j = n - 1 /\ stack[n].next = 0
  BY DEF IInv, StaleInv, n
<1>3. stack[n].next # 0
  BY <1>1
<1>4. m \in 1 .. n /\ m > 1 /\ m - 1 = i
  BY <1>1, <1>2 DEF n
<1> HIDE DEF m
<1>5. /\ stack[i].next - 1 \in DOMAIN imports[stack[i].file]
      /\ stack[m].file = Target[imports[stack[i].file][stack[i].next - 1]]
  BY <1>4 DEF IInv, WalkInv, n
<1>6. stack[m].file \in File
  BY <1>4, FrameFacts DEF IInv, n
<1>7. QED
  BY <1>2, <1>3, <1>5, <1>6, SMTT(60) DEF Found, n

\* The walk goes past a module of the runtime.
LEMMA VirtualStep ==
  ASSUME IInv, DistinctStems, phase = "resolving", Top.next > 0, Top.next \in DOMAIN Imports,
         Target[Imports[Top.next]] = Virtual, stack' = Walked,
         UNCHANGED <<imports, modules, visited, programs, phase, dirty>>
  PROVE  IInv'
<1> DEFINE n == Len(stack)
<1>1. stack # <<>>
  BY DEF IInv, WalkInv
<1>2. n \in Nat \ {0} /\ n \in 1 .. n /\ Top = stack[n] /\ Top.next \in Nat
  BY <1>1, TopFacts, FrameFacts DEF IInv
<1>3. /\ stack' \in Seq(Frame) /\ Len(stack') = n
      /\ \A i \in 1 .. n :
           /\ stack'[i].name = stack[i].name /\ stack'[i].file = stack[i].file
           /\ stack'[i].loaded = stack[i].loaded /\ stack'[i].stale = stack[i].stale
           /\ i # n => stack'[i].next = stack[i].next
      /\ stack'[n].next = stack[n].next + 1
  BY <1>1, <1>2, WalkedFacts
<1> DEFINE s == imports[stack[n].file][stack[n].next]
<1>4. ~Found(s)
  BY <1>1, <1>2, NextFacts, ModulesAssumption, SMTT(60) DEF Found
<1> HIDE DEF n, s
<1>5. \A i \in 1 .. n : stack[i].next \in Nat /\ (stack'[i].next > 0 <=> stack[i].next > 0)
  BY <1>2, <1>3, FrameFacts DEF IInv, n
<1>6. TypeOK' /\ StoreInv'
  BY <1>3 DEF IInv, TypeOK, StoreInv
<1>7. WalkInv'
  <2>1. stack' # <<>> /\ main' = main /\ stack'[1].name = stack[1].name /\ stack'[1].file = stack[1].file
    BY <1>2, <1>3 DEF main
  <2>2. ASSUME NEW i \in 1 .. n, i > 1
        PROVE  LET walk == imports[stack'[i - 1].file]
                   at == stack'[i - 1].next - 1
               IN /\ at \in DOMAIN walk
                  /\ stack'[i].name = walk[at] /\ stack'[i].file = Target[walk[at]]
    <3>1. i - 1 \in 1 .. n /\ i - 1 # n
      BY <1>2, <2>2
    <3>2. /\ stack'[i - 1].file = stack[i - 1].file /\ stack'[i - 1].next = stack[i - 1].next
          /\ stack'[i].name = stack[i].name /\ stack'[i].file = stack[i].file
      BY <1>3, <3>1
    <3>3. QED
      BY <2>2, <3>2 DEF IInv, WalkInv, n
  <2>3. ASSUME NEW i \in 1 .. n, stack'[i].next > 0
        PROVE  /\ stack'[i].loaded = NameOf[stack'[i].file] /\ stack'[i].loaded \in DOMAIN modules
               /\ stack'[i].name \in visited
    <3>1. stack[i].next > 0
      BY <1>5, <2>3
    <3>2. /\ stack[i].loaded = NameOf[stack[i].file] /\ stack[i].loaded \in DOMAIN modules
          /\ stack[i].name \in visited
      BY <3>1 DEF IInv, WalkInv, n
    <3>3. QED
      BY <1>3, <3>2
  <2>4. ASSUME NEW i \in 1 .. n, NEW j \in 1 .. n, i < j, stack'[j].next > 0
        PROVE  stack'[i].name # stack'[j].name
    <3>1. stack[j].next > 0
      BY <1>5, <2>4
    <3>2. stack[i].name # stack[j].name
      BY <2>4, <3>1 DEF IInv, WalkInv, n
    <3>3. QED
      BY <1>3, <3>2
  <2>5. phase = "resolving" /\ programs # <<>>
        /\ stack[1].name = NameOf[main] /\ stack[1].file = main
    BY <1>1 DEF IInv, WalkInv
  <2>6. QED
    BY <1>3, <2>1, <2>2, <2>3, <2>4, <2>5, SMTT(60) DEF WalkInv
<1>8. WalkedInv'
  <2>1. ASSUME NEW i \in 1 .. n, NEW k \in 1 .. stack'[i].next - 1,
               i = n \/ k < stack'[i].next - 1, Found(imports[stack'[i].file][k])
        PROVE  ~Cyclic(Target[imports[stack'[i].file][k]])
    <3>1. CASE i = n
      <4>1. k # stack[n].next
        BY <1>3, <1>4, <2>1, <3>1 DEF s
      <4>2. k \in 1 .. stack[i].next - 1
        BY <1>2, <1>3, <3>1, <4>1
      <4>3. QED
        BY <1>3, <2>1, <3>1, <4>2 DEF IInv, WalkedInv, n
    <3>2. CASE i # n
      BY <1>3, <2>1, <3>2, SMTT(60) DEF IInv, WalkedInv, n
    <3>3. QED
      BY <3>1, <3>2
  <2>2. phase = "resolving" /\ Len(stack') = n
    BY <1>3
  <2>3. QED
    BY <2>1, <2>2, GraphFrame DEF WalkedInv, Found
<1>9. StaleInv'
  <2> SUFFICES ASSUME NEW i \in 1 .. n, stack'[i].stale
               PROVE  \E j \in i + 1 .. n :
                        /\ stack'[j].file = stack'[i].file /\ stack'[j].next > 0
                        /\ stack'[i].next > 0 /\ stack'[j].next < stack'[i].next
    BY <1>3 DEF StaleInv
  <2>1. stack[i].stale
    BY <1>3
  <2>2. PICK j \in i + 1 .. n :
           /\ stack[j].file = stack[i].file /\ stack[j].next > 0 /\ stack[i].next > 0
           /\ stack[j].next < stack[i].next
           /\ Found(imports[stack[i].file][stack[i].next - 1])
    BY <1>1, <1>2, <2>1, StaleWalk DEF n
  <2>3. i # n /\ j \in 1 .. n
    BY <1>2, <2>2
  <2>4. stack'[j].next < stack[i].next
    <3>1. CASE j = n
      <4>1. stack[j].next # stack[i].next - 1
        BY <1>4, <2>2, <3>1 DEF s
      <4>2. stack[j].next \in Nat /\ stack[i].next \in Nat
        BY <1>5, <2>3
      <4>3. stack'[j].next = stack[j].next + 1
        BY <1>3, <3>1
      <4>4. QED
        BY <2>2, <4>1, <4>2, <4>3
    <3>2. CASE j # n
      BY <1>3, <2>2, <2>3, <3>2
    <3>3. QED
      BY <3>1, <3>2
  <2>5. QED
    BY <1>3, <1>5, <2>2, <2>3, <2>4
<1>10. PathInv'
  BY <1>3, GraphFrame DEF IInv, PathInv, n
<1>11. VisitedInv'
  BY <1>3, <1>5, RootsFrame, SMTT(60) DEF IInv, VisitedInv, n
<1>12. CyclesAreReal'
  BY DEF CyclesAreReal
<1>13. QED
  BY <1>6, <1>7, <1>8, <1>9, <1>10, <1>11, <1>12 DEF IInv

LEMMA CallFacts ==
  ASSUME NEW name \in Spelling, NEW file \in File
  PROVE  /\ Call(name, file) \in Frame
         /\ Call(name, file).name = name /\ Call(name, file).file = file
         /\ Call(name, file).next = 0 /\ ~Call(name, file).stale
<1>1. Call(name, file) \in Frame
  BY DEF Call, Frame
<1>2. QED
  BY <1>1, ZenonT(60) DEF Call

\* The walk enters the module it asks for next.
Entered == Append(Walked, Call(Imports[Top.next], Target[Imports[Top.next]]))

LEMMA EnterStep ==
  ASSUME IInv, DistinctStems, phase = "resolving", Top.next > 0, Top.next \in DOMAIN Imports,
         Found(Imports[Top.next]),
         stack' = Entered,
         UNCHANGED <<imports, modules, visited, programs, phase, dirty>>
  PROVE  IInv'
<1> DEFINE n == Len(stack)
           m == n + 1
           s == imports[stack[n].file][stack[n].next]
<1>1. stack # <<>>
  BY DEF IInv, WalkInv
<1>2. n \in Nat \ {0} /\ n \in 1 .. n /\ Top = stack[n] /\ Top.next \in Nat
  BY <1>1, TopFacts, FrameFacts DEF IInv
<1>3. /\ Imports[Top.next] = s /\ s \in Spelling /\ Found(s)
      /\ stack[n].next \in DOMAIN imports[stack[n].file]
      /\ Target[s] \in ImportedBy(stack[n].file) /\ Target[s] \in File
  BY <1>1, <1>2, NextFacts, SMTT(60)
<1> HIDE DEF s
<1>4. /\ Call(s, Target[s]) \in Frame /\ Call(s, Target[s]).name = s
      /\ Call(s, Target[s]).file = Target[s] /\ Call(s, Target[s]).next = 0
      /\ ~Call(s, Target[s]).stale
  BY <1>3, CallFacts
<1>5. stack' = Append(Walked, Call(s, Target[s])) /\ Len(Walked) = n /\ Walked \in Seq(Frame)
  BY <1>1, <1>3, WalkedFacts DEF Entered
<1> HIDE DEF n
<1>6. /\ m \in Nat /\ m \in 1 .. m /\ n # m /\ n < m /\ m \notin 1 .. n
      /\ m - 1 = n /\ 1 \in 1 .. n
  BY <1>2
<1>7. /\ stack' \in Seq(Frame) /\ Len(stack') = m /\ stack'[m] = Call(s, Target[s])
      /\ \A i \in 1 .. n : stack'[i] = Walked[i]
  BY <1>2, <1>4, <1>5
<1> HIDE DEF m
<1>8. /\ stack'[m].name = s /\ stack'[m].file = Target[s] /\ stack'[m].next = 0
      /\ ~stack'[m].stale
  BY <1>4, <1>7
<1>9. /\ \A i \in 1 .. n :
           /\ stack'[i].name = stack[i].name /\ stack'[i].file = stack[i].file
           /\ stack'[i].loaded = stack[i].loaded /\ stack'[i].stale = stack[i].stale
           /\ i # n => stack'[i].next = stack[i].next
      /\ stack'[n].next = stack[n].next + 1
  BY <1>1, <1>2, <1>7, WalkedFacts DEF n
<1>10. \A i \in 1 .. n : stack[i].next \in Nat /\ (stack'[i].next > 0 <=> stack[i].next > 0)
  <2>1. ASSUME NEW i \in 1 .. n
        PROVE  stack[i].next \in Nat /\ (stack'[i].next > 0 <=> stack[i].next > 0)
    <3>1. stack[i].next \in Nat /\ stack[n].next \in Nat /\ stack[n].next > 0
      BY <1>2, FrameFacts DEF IInv, n
    <3>2. CASE i = n
      BY <1>9, <3>1, <3>2
    <3>3. CASE i # n
      BY <1>9, <3>1, <3>3
    <3>4. QED
      BY <3>2, <3>3
  <2>2. QED
    BY <2>1
<1>11. TypeOK' /\ StoreInv'
  BY <1>7 DEF IInv, TypeOK, StoreInv
<1>12. WalkInv'
  <2>1. stack' # <<>> /\ main' = main /\ stack'[1].name = stack[1].name /\ stack'[1].file = stack[1].file
    BY <1>6, <1>7, <1>9 DEF main
  <2>2. ASSUME NEW i \in 1 .. m, i > 1
        PROVE  LET walk == imports[stack'[i - 1].file]
                   at == stack'[i - 1].next - 1
               IN /\ at \in DOMAIN walk
                  /\ stack'[i].name = walk[at] /\ stack'[i].file = Target[walk[at]]
    <3>1. CASE i = m
      <4>1. i - 1 = n
        BY <1>6, <3>1
      <4>2. stack[n].next \in Nat /\ stack'[n].file = stack[n].file
        BY <1>2, <1>9, <1>10
      <4>3. stack'[n].next - 1 = stack[n].next
        BY <1>9, <4>2
      <4>4. QED
        BY <1>3, <1>8, <3>1, <4>1, <4>2, <4>3, SMTT(60) DEF s
    <3>2. CASE i \in 1 .. n
      <4>1. i - 1 \in 1 .. n /\ i - 1 # n
        BY <1>2, <2>2, <3>2
      <4>2. /\ stack'[i - 1].file = stack[i - 1].file /\ stack'[i - 1].next = stack[i - 1].next
            /\ stack'[i].name = stack[i].name /\ stack'[i].file = stack[i].file
        BY <1>9, <3>2, <4>1
      <4>3. QED
        BY <2>2, <3>2, <4>2 DEF IInv, WalkInv, n
    <3>3. QED
      BY <1>2, <3>1, <3>2, SMTT(60) DEF m
  <2>3. ASSUME NEW i \in 1 .. m, stack'[i].next > 0
        PROVE  /\ stack'[i].loaded = NameOf[stack'[i].file] /\ stack'[i].loaded \in DOMAIN modules
               /\ stack'[i].name \in visited
    <3>1. i # m
      BY <1>8, <2>3
    <3>2. i \in 1 .. n
      BY <1>2, <3>1 DEF m
    <3>3. QED
      BY <1>9, <1>10, <2>3, <3>2 DEF IInv, WalkInv, n
  <2>4. ASSUME NEW i \in 1 .. m, NEW j \in 1 .. m, i < j, stack'[j].next > 0
        PROVE  stack'[i].name # stack'[j].name
    <3>1. j # m
      BY <1>8, <2>4
    <3>2. i \in 1 .. n /\ j \in 1 .. n
      BY <1>2, <2>4, <3>1 DEF m
    <3>3. QED
      BY <1>9, <1>10, <2>4, <3>1, <3>2 DEF IInv, WalkInv, n
  <2>5. phase = "resolving" /\ programs # <<>>
        /\ stack[1].name = NameOf[main] /\ stack[1].file = main
    BY <1>1 DEF IInv, WalkInv
  <2>6. QED
    BY <1>7, <2>1, <2>2, <2>3, <2>4, <2>5, SMTT(60) DEF WalkInv
<1>13. WalkedInv'
  <2>1. ASSUME NEW i \in 1 .. m, NEW k \in 1 .. stack'[i].next - 1,
               i = m \/ k < stack'[i].next - 1, Found(imports[stack'[i].file][k])
        PROVE  ~Cyclic(Target[imports[stack'[i].file][k]])
    <3>0. i # m
      BY <1>8, <2>1
    <3>1. i \in 1 .. n /\ k < stack'[i].next - 1
      BY <1>2, <2>1, <3>0 DEF m
    <3>2. CASE i = n
      <4>0. stack[i].next \in Nat /\ stack'[i].next = stack[i].next + 1
        BY <1>9, <1>10, <3>1, <3>2
      <4>1. k \in 1 .. stack[i].next - 1
        BY <3>1, <4>0
      <4>2. QED
        BY <1>9, <2>1, <3>1, <3>2, <4>1 DEF IInv, WalkedInv, n
    <3>3. CASE i # n
      BY <1>9, <2>1, <3>1, <3>3, SMTT(60) DEF IInv, WalkedInv, n
    <3>4. QED
      BY <3>2, <3>3
  <2>2. phase = "resolving" /\ Len(stack') = m
    BY <1>7
  <2>3. QED
    BY <2>1, <2>2, GraphFrame DEF WalkedInv, Found
<1>14. StaleInv'
  <2> SUFFICES ASSUME NEW i \in 1 .. m, stack'[i].stale
               PROVE  \E j \in i + 1 .. m :
                        /\ stack'[j].file = stack'[i].file /\ stack'[j].next > 0 /\ stack'[i].next > 0
                        /\ \/ stack'[j].next < stack'[i].next
                           \/ stack'[j].next = stack'[i].next /\ j = m - 1 /\ stack'[m].next = 0
    BY <1>7 DEF StaleInv
  <2>0. i # m
    BY <1>8
  <2>1. i \in 1 .. n /\ stack[i].stale
    BY <1>2, <1>9, <2>0 DEF m
  <2>2. PICK j \in i + 1 .. n :
           /\ stack[j].file = stack[i].file /\ stack[j].next > 0 /\ stack[i].next > 0
           /\ stack[j].next < stack[i].next
    BY <1>1, <1>2, <2>1, StaleWalk DEF n
  <2>3. i # n /\ j \in 1 .. n /\ j \in i + 1 .. m
    BY <1>2, <1>6, <2>1, <2>2
  <2>4. /\ stack'[i].file = stack[i].file /\ stack'[i].next = stack[i].next
        /\ stack'[j].file = stack[j].file /\ stack'[j].next > 0
    BY <1>9, <1>10, <2>1, <2>2, <2>3
  <2>5. CASE j = n
    <3>1. stack'[j].next = stack[j].next + 1 /\ stack[j].next \in Nat /\ stack[i].next \in Nat
      BY <1>9, <1>10, <2>1, <2>3, <2>5
    <3>2. \/ stack'[j].next < stack'[i].next
          \/ stack'[j].next = stack'[i].next
      BY <2>2, <2>4, <3>1
    <3>3. QED
      BY <1>6, <1>8, <2>2, <2>3, <2>4, <2>5, <3>2
  <2>6. CASE j # n
    <3>1. stack'[j].next < stack'[i].next
      BY <1>9, <2>2, <2>3, <2>4, <2>6
    <3>2. QED
      BY <2>2, <2>3, <2>4, <3>1
  <2>7. QED
    BY <2>5, <2>6
<1>15. PathInv'
  <2>1. ASSUME NEW i \in 1 .. m, NEW j \in 1 .. m, i <= j
        PROVE  stack'[j].file \in Reachable(stack'[i].file)
    <3>1. CASE j \in 1 .. n
      <4>1. i \in 1 .. n
        BY <1>2, <2>1, <3>1
      <4>2. QED
        BY <1>9, <2>1, <3>1, <4>1 DEF IInv, PathInv, n
    <3>2. CASE j = m /\ i \in 1 .. n
      <4>1. i <= n
        BY <1>2, <3>2
      <4>2. stack[n].file \in Reachable(stack[i].file) /\ stack[i].file \in File
        BY <1>2, <3>2, <4>1, FrameFacts DEF IInv, PathInv, n
      <4>3. Target[s] \in Reachable(stack[i].file)
        BY <1>3, <4>2, ReachStep
      <4>4. QED
        BY <1>8, <1>9, <3>2, <4>3
    <3>3. CASE j = m /\ i = m
      BY <1>3, <1>8, <3>3, ReachSelf
    <3>4. QED
      BY <1>2, <3>1, <3>2, <3>3 DEF m
  <2>2. QED
    BY <1>7, <2>1, GraphFrame DEF PathInv
<1>16. VisitedInv'
  <2>1. ASSUME ~dirty, OneSpelling, NEW t \in visited \cap AskedNames
        PROVE  \E i \in 1 .. m : stack'[i].name = t /\ stack'[i].next > 0
    <3>1. PICK i \in 1 .. n : stack[i].name = t /\ stack[i].next > 0
      BY <2>1 DEF IInv, VisitedInv, n
    <3>2. QED
      BY <1>6, <1>9, <1>10, <3>1
  <2>2. QED
    BY <1>7, <2>1, RootsFrame DEF IInv, VisitedInv
<1>17. CyclesAreReal'
  BY DEF CyclesAreReal
<1>18. QED
  BY <1>11, <1>12, <1>13, <1>14, <1>15, <1>16, <1>17 DEF IInv

LEMMA NextImportStep ==
  ASSUME IInv, DistinctStems, NextImport
  PROVE  IInv'
<1>1. phase = "resolving" /\ Top.next > 0 /\ Top.next \in DOMAIN Imports /\ stack # <<>>
  BY DEF IInv, WalkInv, NextImport
<1>2. Found(Imports[Top.next]) \/ Target[Imports[Top.next]] \in {Virtual, Missing}
  BY <1>1, NextFacts
<1>3. CASE Target[Imports[Top.next]] = Missing
  <2>1. Throw("missing")
    BY <1>3 DEF NextImport
  <2>2. QED
    BY <1>1, <2>1, ThrowStep
<1>4. CASE Target[Imports[Top.next]] # Missing
  <2>1. /\ stack' = IF Target[Imports[Top.next]] = Virtual THEN Walked
                    ELSE Entered
        /\ UNCHANGED <<imports, modules, visited, programs, phase, dirty>>
    BY <1>4 DEF NextImport, Walked, Entered
  <2>2. CASE Target[Imports[Top.next]] = Virtual
    BY <1>1, <2>1, <2>2, VirtualStep
  <2>3. CASE Target[Imports[Top.next]] # Virtual
    BY <1>1, <1>2, <1>4, <2>1, <2>3, EnterStep
  <2>4. QED
    BY <2>2, <2>3
<1>5. QED
  BY <1>3, <1>4

\* What a call comes back to.
LEMMA FirstFrames ==
  ASSUME NEW s \in Seq(Frame), NEW k \in 0 .. Len(s)
  PROVE  /\ SubSeq(s, 1, k) \in Seq(Frame) /\ Len(SubSeq(s, 1, k)) = k
         /\ \A i \in 1 .. k : SubSeq(s, 1, k)[i] = s[i]
OBVIOUS

LEMMA FrontFacts ==
  ASSUME IInv, stack # <<>>
  PROVE  /\ Front(stack) \in Seq(Frame) /\ Len(Front(stack)) = Len(stack) - 1
         /\ \A i \in 1 .. Len(stack) - 1 : Front(stack)[i] = stack[i]
<1> DEFINE n == Len(stack)
<1>1. stack \in Seq(Frame) /\ n \in Nat \ {0} /\ n - 1 \in Nat
  BY DEF IInv, TypeOK
<1>2. n - 1 \in 0 .. n
  BY <1>1
<1>3. /\ SubSeq(stack, 1, n - 1) \in Seq(Frame) /\ Len(SubSeq(stack, 1, n - 1)) = n - 1
      /\ \A i \in 1 .. n - 1 : SubSeq(stack, 1, n - 1)[i] = stack[i]
  BY <1>1, <1>2, FirstFrames
<1>4. QED
  BY <1>3 DEF Front

\* A walk that has come to its end has met no circle.
LEMMA NoCircleLeft ==
  ASSUME IInv, DistinctStems, stack # <<>>, Top.next > 0, Top.next \notin DOMAIN Imports
  PROVE  /\ ~Cyclic(Top.file)
         /\ \A k \in DOMAIN imports[Top.file] : k < Top.next
<1> DEFINE n == Len(stack)
           f == Top.file
<1>1. n \in 1 .. n /\ Top = stack[n] /\ Imports = imports[f]
  BY TopFacts
<1>2. f \in File /\ Top.next \in Nat /\ imports[f] \in Seq(Spelling)
  BY <1>1, FrameFacts DEF IInv
<1> HIDE DEF n, f
<1>3. \A k \in DOMAIN imports[f] : k \in 1 .. Top.next - 1
  BY <1>1, <1>2
<1>4. ASSUME NEW h \in ImportedBy(f) PROVE ~Cyclic(h)
  <2>1. PICK t \in ToSet(imports[f]) : Found(t) /\ h = Target[t]
    BY DEF ImportedBy
  <2>2. PICK k \in DOMAIN imports[f] : t = imports[f][k]
    BY DEF ToSet
  <2>3. k \in 1 .. stack[n].next - 1 /\ imports[stack[n].file][k] = t
    BY <1>1, <1>3, <2>2 DEF f
  <2>4. QED
    BY <1>1, <2>1, <2>3 DEF IInv, WalkedInv, n
<1>5. ~Cyclic(f)
  BY <1>2, <1>4, NoNewCycle
<1>6. QED
  BY <1>2, <1>3, <1>5 DEF f

\* The walk of a module ends: the program's own, or that of one it imports.
LEMMA LeaveStep ==
  ASSUME IInv, DistinctStems, Leave
  PROVE  IInv'
<1> DEFINE n == Len(stack)
           m == n - 1
<1>1. /\ phase = "resolving" /\ stack # <<>> /\ Top.next > 0 /\ Top.next \notin DOMAIN Imports
      /\ visited' = visited \ {Top.name} /\ stack' = Front(stack)
      /\ phase' = IF n = 1 THEN "ok" ELSE phase
      /\ UNCHANGED <<imports, modules, programs, dirty>>
  BY DEF IInv, WalkInv, Leave, Return
<1>2. n \in Nat \ {0} /\ n \in 1 .. n /\ Top = stack[n] /\ Top.next \in Nat
  BY <1>1, TopFacts, FrameFacts DEF IInv
<1>3. ~Cyclic(Top.file) /\ \A k \in DOMAIN imports[Top.file] : k < Top.next
  BY <1>1, NoCircleLeft
<1>4. /\ stack' \in Seq(Frame) /\ Len(stack') = m /\ m \in Nat
      /\ \A i \in 1 .. m : stack'[i] = stack[i]
  BY <1>1, <1>2, FrontFacts
<1>5. /\ \A i \in 1 .. m : i \in 1 .. n /\ i # n /\ i < n
      /\ stack[1].name = NameOf[main] /\ stack[1].file = main /\ programs # <<>> /\ main' = main
  BY <1>1, <1>2 DEF IInv, WalkInv, main
<1> HIDE DEF n, m
<1>6. TypeOK' /\ StoreInv'
  <2>1. phase' \in {"resolving", "ok"} /\ visited' \subseteq Spelling
    BY <1>1 DEF IInv, TypeOK
  <2>2. QED
    BY <1>1, <1>4, <2>1 DEF IInv, TypeOK, StoreInv, Ended
<1>7. WalkInv'
  <2>1. phase' = "resolving" <=> stack' # <<>>
    <3>1. CASE n = 1
      BY <1>1, <1>4, <3>1 DEF m
    <3>2. CASE n # 1
      <4>1. m # 0
        BY <1>2, <3>2 DEF m
      <4>2. QED
        BY <1>1, <1>4, <3>2, <4>1
    <3>3. QED
      BY <3>1, <3>2
  <2>2. stack' # <<>> => stack'[1].name = NameOf[main'] /\ stack'[1].file = main'
    <3>1. stack' # <<>> => 1 \in 1 .. m
      BY <1>4
    <3>2. QED
      BY <1>4, <1>5, <3>1
  <2>3. ASSUME NEW i \in 1 .. m, i > 1
        PROVE  LET walk == imports[stack'[i - 1].file]
                   at == stack'[i - 1].next - 1
               IN /\ at \in DOMAIN walk
                  /\ stack'[i].name = walk[at] /\ stack'[i].file = Target[walk[at]]
    <3>1. i - 1 \in 1 .. m /\ i \in 1 .. n
      BY <1>4, <1>5, <2>3
    <3>2. stack'[i - 1] = stack[i - 1] /\ stack'[i] = stack[i]
      BY <1>4, <3>1
    <3>3. QED
      BY <2>3, <3>1, <3>2, SMTT(60) DEF IInv, WalkInv, n
  <2>4. ASSUME NEW i \in 1 .. m, stack[i].next > 0
        PROVE  /\ stack[i].loaded = NameOf[stack[i].file] /\ stack[i].loaded \in DOMAIN modules
               /\ stack[i].name \in visited'
    <3>1. stack[i].name # Top.name
      BY <1>1, <1>2, <1>5 DEF IInv, WalkInv, n
    <3>2. QED
      BY <1>1, <1>5, <2>4, <3>1 DEF IInv, WalkInv, n
  <2>5. ASSUME NEW i \in 1 .. m, NEW j \in 1 .. m, i < j, stack[j].next > 0
        PROVE  stack[i].name # stack[j].name
    BY <1>5, <2>5 DEF IInv, WalkInv, n
  <2>6. QED
    BY <1>1, <1>4, <1>5, <2>1, <2>2, <2>3, <2>4, <2>5, SMTT(60) DEF WalkInv
<1>8. WalkedInv'
  <2>1. ASSUME NEW i \in 1 .. m, NEW k \in 1 .. stack[i].next - 1,
               i = m \/ k < stack[i].next - 1, Found(imports[stack[i].file][k])
        PROVE  ~Cyclic(Target[imports[stack[i].file][k]])
    <3>1. CASE k < stack[i].next - 1
      BY <1>5, <2>1, <3>1 DEF IInv, WalkedInv, n
    <3>2. CASE i = m /\ k = stack[i].next - 1
      <4>1. n > 1 /\ n - 1 = i
        BY <1>2, <3>2 DEF m
      <4>2. stack[n].file = Target[imports[stack[i].file][k]]
        BY <1>2, <3>2, <4>1 DEF IInv, WalkInv, n
      <4>3. QED
        BY <1>2, <1>3, <4>2, SMTT(60)
    <3>3. stack[i].next \in Nat
      BY <1>5, FrameFacts DEF IInv, n
    <3>4. QED
      BY <2>1, <3>1, <3>2, <3>3
  <2>2. phase' = "ok" => ~Cyclic(main)
    <3>1. CASE n = 1
      BY <1>2, <1>3, <1>5, <3>1
    <3>2. CASE n # 1
      BY <1>1, <3>2
    <3>3. QED
      BY <3>1, <3>2
  <2>3. QED
    BY <1>1, <1>4, <1>5, <2>1, <2>2, GraphFrame, SMTT(60) DEF WalkedInv, Found
<1>9. StaleInv'
  <2> SUFFICES ASSUME NEW i \in 1 .. m, stack[i].stale
               PROVE  \E j \in i + 1 .. m :
                        /\ stack[j].file = stack[i].file /\ stack[j].next > 0
                        /\ stack[i].next > 0 /\ stack[j].next < stack[i].next
    <3>1. ASSUME NEW i \in 1 .. m, NEW j \in i + 1 .. m
          PROVE  stack'[i] = stack[i] /\ stack'[j] = stack[j]
      BY <1>4
    <3>2. QED
      BY <1>4, <3>1 DEF StaleInv
  <2>1. PICK j \in i + 1 .. n :
           /\ stack[j].file = stack[i].file /\ stack[j].next > 0 /\ stack[i].next > 0
           /\ stack[j].next < stack[i].next
           /\ stack[i].next - 1 \in DOMAIN imports[stack[i].file]
    BY <1>1, <1>5, StaleWalk DEF n
  <2>2. stack[i].next \in Nat
    BY <1>5, FrameFacts DEF IInv, n
  <2>3. j # n
    <3> SUFFICES ASSUME j = n PROVE FALSE
      OBVIOUS
    <3>1. stack[i].next - 1 < Top.next /\ Top.next < stack[i].next
      BY <1>2, <1>3, <2>1
    <3>2. QED
      BY <1>2, <2>2, <3>1
  <2>4. j \in i + 1 .. m
    BY <1>2, <2>3 DEF m
  <2>5. QED
    BY <2>1, <2>4
<1>10. PathInv'
  <2>1. \A i, j \in 1 .. m : i <= j => stack'[j].file \in Reachable(stack'[i].file)
    BY <1>4, <1>5 DEF IInv, PathInv, n
  <2>2. QED
    BY <1>1, <1>4, <2>1, GraphFrame DEF PathInv
<1>11. VisitedInv'
  <2>1. ASSUME ~dirty, OneSpelling, NEW s \in visited' \cap AskedNames
        PROVE  \E i \in 1 .. m : stack'[i].name = s /\ stack'[i].next > 0
    <3>1. s # Top.name /\ s \in visited \cap AskedNames
      BY <1>1
    <3>2. PICK i \in 1 .. n : stack[i].name = s /\ stack[i].next > 0
      BY <1>1, <2>1, <3>1 DEF IInv, VisitedInv, n
    <3>3. i \in 1 .. m
      <4>1. i # n
        BY <1>2, <3>1, <3>2
      <4>2. QED
        BY <1>2, <4>1 DEF m
    <3>4. QED
      BY <1>4, <3>2, <3>3
  <2>2. \A s \in visited' : s \in AskedNames \/ \E t \in Asked : s = NameOf[Target[t]]
    BY <1>1 DEF IInv, VisitedInv
  <2>3. QED
    BY <1>1, <1>4, <2>1, <2>2, RootsFrame DEF VisitedInv
<1>12. CyclesAreReal'
  BY <1>1 DEF CyclesAreReal
<1>13. QED
  BY <1>6, <1>7, <1>8, <1>9, <1>10, <1>11, <1>12 DEF IInv

\* A call of compile_module: what earlier calls left is what they asked for.
LEMMA CompileStep ==
  ASSUME IInv, DistinctStems, NEW f \in File, Compile(f)
  PROVE  IInv'
<1> DEFINE own == NameOf[f]
<1>1. /\ phase \in {"idle"} \cup Ended /\ phase' = "resolving"
      /\ stack' = <<Call(own, f)>> /\ programs' = Append(programs, f)
      /\ dirty' = (phase \in Ended \ {"ok"} \/ dirty)
      /\ imports' = imports /\ visited' = visited
      /\ programs \in Seq(File)
  BY DEF IInv, TypeOK, Compile
<1>2. stack = <<>>
  BY <1>1 DEF IInv, WalkInv, Ended
<1>3. own \in Spelling
  BY ModulesAssumption
<1> HIDE DEF own
<1>4. /\ Len(stack') = 1 /\ stack'[1] \in Frame /\ stack' \in Seq(Frame)
      /\ stack'[1].name = own /\ stack'[1].file = f
      /\ stack'[1].next = 0 /\ ~stack'[1].stale
  BY <1>1, <1>3, CallFacts
<1>5. /\ programs' \in Seq(File) /\ programs' # <<>> /\ main' = f
      /\ ToSet(programs') = ToSet(programs) \cup {f}
  BY <1>1 DEF main, Last, ToSet
<1>6. \A n \in DOMAIN modules' : n \in Spelling /\ modules'[n] \in File /\ NameOf[modules'[n]] = n
  <2> SUFFICES ASSUME NEW n \in DOMAIN modules'
               PROVE  n \in Spelling /\ modules'[n] \in File /\ NameOf[modules'[n]] = n
    OBVIOUS
  <2>1. /\ n \in DOMAIN modules \cup {NameOf[p] : p \in Prelude}
        /\ modules'[n] = IF n \in DOMAIN modules THEN modules[n]
                         ELSE CHOOSE p \in Prelude : NameOf[p] = n
    BY DEF Compile
  <2>2. CASE n \in DOMAIN modules
    BY <2>1, <2>2 DEF IInv, TypeOK, StoreInv
  <2>3. CASE n \notin DOMAIN modules
    <3>1. \E p \in Prelude : NameOf[p] = n
      BY <2>1, <2>3
    <3>2. modules'[n] \in Prelude /\ NameOf[modules'[n]] = n
      BY <2>1, <2>3, <3>1
    <3>3. QED
      BY <3>2, ModulesAssumption
  <2>4. QED
    BY <2>2, <2>3
<1>7. TypeOK' /\ StoreInv'
  BY <1>1, <1>4, <1>5, <1>6 DEF IInv, TypeOK, StoreInv
<1>8. WalkInv'
  <2>1. stack' # <<>>
    BY <1>1
  <2>2. \A i \in 1 .. Len(stack') : i = 1
    BY <1>4
  <2>3. QED
    BY <1>1, <1>4, <1>5, <2>1, <2>2, SMTT(60) DEF WalkInv, own
<1>9. WalkedInv' /\ StaleInv'
  <2>1. \A i \in 1 .. Len(stack') : ~stack'[i].stale /\ stack'[i].next = 0
    BY <1>4
  <2>2. QED
    BY <1>1, <2>1 DEF WalkedInv, StaleInv
<1>10. PathInv'
  <2>1. \A i \in 1 .. Len(stack') : stack'[i].file = f
    BY <1>4
  <2>2. f \in Reachable(f)'
    BY <1>1, ReachSelf, GraphFrame
  <2>3. QED
    BY <2>1, <2>2 DEF PathInv
<1>11. /\ Asked' = Asked /\ Roots' = Roots \cup {f} /\ AskedNames' = AskedNames \cup {own}
       /\ OneSpelling' => OneSpelling /\ \A t \in Asked : Target[t] = f => t = own
  <2>1. Asked' = Asked
    BY <1>1, GraphFrame
  <2>2. Roots' = Roots \cup {f}
    BY <1>5 DEF Roots
  <2>3. QED
    BY <2>1, <2>2 DEF AskedNames, OneSpelling, own
<1>12. VisitedInv'
  <2>1. \A s \in visited : s \in AskedNames \/ \E t \in Asked : s = NameOf[Target[t]]
    BY DEF IInv, VisitedInv
  <2>2. ASSUME ~dirty', OneSpelling', NEW s \in visited \cap AskedNames'
        PROVE  FALSE
    <3>1. phase \in {"idle", "ok"} /\ ~dirty
      BY <1>1, <2>2 DEF Ended
    <3>2. \A t \in visited : t \notin AskedNames
      BY <1>2, <1>11, <2>2, <3>1 DEF IInv, VisitedInv
    <3>3. s = own
      BY <1>11, <2>2, <3>2
    <3>4. PICK t \in Asked : own = NameOf[Target[t]]
      BY <2>1, <2>2, <3>2, <3>3
    <3>5. Target[t] = f
      BY <3>4 DEF Asked, Found, DistinctStems, own
    <3>6. own \in Asked
      BY <1>11, <2>2, <3>4, <3>5
    <3>7. QED
      BY <2>2, <3>2, <3>3, <3>6 DEF AskedNames
  <2>3. QED
    BY <1>1, <1>11, <2>1, <2>2 DEF VisitedInv
<1>13. CyclesAreReal'
  BY <1>1 DEF CyclesAreReal
<1>14. QED
  BY <1>7, <1>8, <1>9, <1>10, <1>12, <1>13 DEF IInv

-------------------------------------------------------------------------------

LEMMA InitInv == Init => IInv
<1> SUFFICES ASSUME Init PROVE IInv
  OBVIOUS
<1>1. /\ imports \in [File -> ImportLists] /\ stack = <<>> /\ programs = <<>>
      /\ visited = {} /\ phase = "idle" /\ dirty = FALSE /\ DOMAIN modules = {}
      /\ Len(stack) = 0
  BY DEF Init
<1>2. TypeOK
  <2>1. stack \in Seq(Frame) /\ programs \in Seq(File)
    BY <1>1
  <2>2. DOMAIN modules \subseteq Spelling /\ \A n \in DOMAIN modules : modules[n] \in File
    BY <1>1
  <2>3. QED
    BY <1>1, <2>1, <2>2 DEF TypeOK
<1>3. StoreInv /\ WalkInv /\ WalkedInv /\ StaleInv /\ PathInv /\ VisitedInv /\ CyclesAreReal
  BY <1>1 DEF StoreInv, WalkInv, WalkedInv, StaleInv, PathInv, VisitedInv, CyclesAreReal
<1>4. QED
  BY <1>2, <1>3 DEF IInv

LEMMA StutterInv ==
  ASSUME IInv, UNCHANGED vars
  PROVE  IInv'
<1> USE DEF vars
<1>1. TypeOK' /\ StoreInv' /\ WalkInv'
  BY DEF IInv, TypeOK, StoreInv, WalkInv, main
<1>2. WalkedInv' /\ StaleInv' /\ PathInv' /\ VisitedInv' /\ CyclesAreReal'
  BY GraphFrame, RootsFrame
  DEF IInv, WalkedInv, Found, StaleInv, PathInv, VisitedInv, CyclesAreReal
<1>3. QED
  BY <1>1, <1>2 DEF IInv

LEMMA NextInv ==
  ASSUME IInv, DistinctStems, [Next]_vars
  PROVE  IInv'
<1>1. CASE CycleFound
  BY <1>1, CycleFoundStep
<1>2. CASE Load
  BY <1>2, LoadStep
<1>3. CASE NextImport
  BY <1>3, NextImportStep
<1>4. CASE Leave
  BY <1>4, LeaveStep
<1>5. ASSUME NEW f \in File \ Prelude, Compile(f) PROVE IInv'
  BY <1>5, CompileStep
<1>6. CASE UNCHANGED vars
  BY <1>6, StutterInv
<1>7. QED
  BY <1>1, <1>2, <1>3, <1>4, <1>5, <1>6 DEF Next, Resolve

LEMMA InductiveInvariant == DistinctStems => (Spec => []IInv)
<1>1. DistinctStems /\ IInv /\ [Next]_vars => IInv'
  BY NextInv
<1>2. DistinctStems => DistinctStems'
  BY DEF DistinctStems
<1>3. QED
  BY <1>1, <1>2, InitInv, PTL DEF Spec

\* A call of compile_module that comes back without an error was given a program
\* whose imports do not go in a circle: the list of what is being resolved holds
\* each name while its module is walked, whatever text asked for it and whatever
\* an earlier call left in it.
THEOREM CyclesNeverAccepted ==
  ASSUME DistinctStems
  PROVE  Spec => []CyclesRejected
<1>1. IInv => CyclesRejected
  BY DEF IInv, WalkedInv, CyclesRejected
<1>2. QED
  BY <1>1, InductiveInvariant, PTL

\* On a manager that no error has left names in, and for files that are imported
\* by one text each, the error of resolve_dependencies is never a false alarm.
THEOREM CyclesReportedAreReal ==
  ASSUME DistinctStems
  PROVE  Spec => []CyclesAreReal
<1>1. IInv => CyclesAreReal
  BY DEF IInv
<1>2. QED
  BY <1>1, InductiveInvariant, PTL

\* The module whose imports resolve_dependencies walks by reference is still the
\* one in the map whenever the walk goes on: a load that replaces it is that of a
\* second walk of the same file above, which ends in the error of a cycle.
THEOREM ReplacedNeverUsed ==
  ASSUME DistinctStems
  PROVE  Spec => []NoUseOfReplaced
<1>1. ASSUME IInv, stack # <<>>, Top.stale PROVE FALSE
  <2> DEFINE n == Len(stack)
  <2>1. n \in Nat \ {0} /\ Top = stack[n]
    BY <1>1, TopFacts
  <2>2. \E j \in n + 1 .. n : TRUE
    BY <1>1, <2>1 DEF IInv, StaleInv
  <2>3. QED
    BY <2>1, <2>2
<1>2. IInv => NoUseOfReplaced
  BY <1>1 DEF NoUseOfReplaced
<1>3. QED
  BY <1>2, InductiveInvariant, PTL

=============================================================================
