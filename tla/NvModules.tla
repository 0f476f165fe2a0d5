------------------------------ MODULE NvModules ------------------------------
(* The module manager (frontend/module_manager.cpp): resolving the imports of a *)
(* program depth first.  A module has two names: the text of the import that    *)
(* asked for it (here a spelling) and the stem of its file, under which it is   *)
(* stored.  The batch compiler makes one call on a new manager; the REPL makes  *)
(* many on the same one.                                                        *)
EXTENDS Integers, SequencesExt

CONSTANTS
  File,          \* the source files
  Prelude,       \* those of the standard library that are always loaded
  Spelling,      \* the texts that stand in import statements
  NameOf,        \* [File -> Spelling]: the stem of a file
  Target,        \* [Spelling -> File \cup {Virtual, Missing}]: what a text finds
  StemOf,        \* [Spelling -> Spelling]: the stem of a text
  Virtual,       \* a module of the runtime, which has no file
  Missing,       \* no such module
  ImportLists,   \* the lists of imports a file may have
  MaxCompiles    \* bound: the calls of compile_module

ASSUME ModulesAssumption ==
  /\ Prelude \subseteq File
  /\ NameOf \in [File -> Spelling]
  /\ Target \in [Spelling -> File \cup {Virtual, Missing}]
  /\ StemOf \in [Spelling -> Spelling]
  /\ Virtual \notin File /\ Missing \notin File
  /\ \A s \in Spelling : Target[s] \in File => StemOf[s] = NameOf[Target[s]]
  /\ ImportLists \subseteq Seq(Spelling)

VARIABLES
  imports,       \* what each file imports
  modules,       \* the modules stored, by name
  visited,       \* the names being resolved
  stack,         \* the calls of resolve_dependencies, innermost last
  programs,      \* the programs compile_module was called for, in order
  phase,         \* "idle", "resolving" or how the last call ended
  dirty          \* history: an earlier call ended in an error
vars == <<imports, modules, visited, stack, programs, phase, dirty>>

Ended == {"ok", "cycle", "missing"}

Init ==
  /\ imports \in [File -> ImportLists]
  /\ \A p \in Prelude : imports[p] = <<>>
  /\ modules = << >>
  /\ visited = {}
  /\ stack = <<>>
  /\ programs = <<>>
  /\ phase = "idle"
  /\ dirty = FALSE

(* A call of resolve_dependencies: stale says that the module whose imports it *)
(* is walking has been replaced in the map meanwhile.                          *)
Call(name, file) ==
  [name |-> name, file |-> file, loaded |-> "", next |-> 0, stale |-> FALSE]
Top == Last(stack)
main == Last(programs)
Imports == imports[modules[Top.loaded]]

(* compile_module: the prelude first, then the program.                        *)
Compile(f) ==
  /\ phase \in {"idle"} \cup Ended
  /\ Len(programs) < MaxCompiles
  /\ modules' = [n \in DOMAIN modules \cup {NameOf[p] : p \in Prelude} |->
                   IF n \in DOMAIN modules THEN modules[n]
                   ELSE CHOOSE p \in Prelude : NameOf[p] = n]
  /\ stack' = <<Call(NameOf[f], f)>>
  /\ programs' = Append(programs, f)
  /\ phase' = "resolving"
  /\ dirty' = (phase \in Ended \ {"ok"} \/ dirty)
  /\ UNCHANGED <<imports, visited>>

(* An exception leaves every call; nothing is taken out of visited.            *)
Throw(how) ==
  /\ phase' = how
  /\ stack' = <<>>
  /\ UNCHANGED <<imports, modules, visited, programs, dirty>>

Return ==
  /\ stack' = Front(stack)
  /\ phase' = IF Len(stack) = 1 THEN "ok" ELSE phase

\* Mutant of CycleFound: a module that is being resolved counts as done.
CycleSkipped ==
  /\ phase = "resolving" /\ Top.next = 0
  /\ Top.name \in visited
  /\ Return
  /\ UNCHANGED <<imports, modules, visited, programs, dirty>>

CycleFound ==
  /\ phase = "resolving" /\ Top.next = 0
  /\ Top.name \in visited
  /\ Throw("cycle")

(* load_module: a name the map has is not loaded again; any other is read and  *)
(* stored under the file's own name, which may replace what is there.          *)
Load ==
  /\ phase = "resolving" /\ Top.next = 0
  /\ Top.name \notin visited
  /\ LET known == Top.name \in DOMAIN modules
         loaded == IF known THEN Top.name ELSE NameOf[Top.file]
     IN /\ modules' = IF known THEN modules
                      ELSE [n \in DOMAIN modules \cup {loaded} |->
                              IF n = loaded THEN Top.file ELSE modules[n]]
        /\ visited' = visited \cup {Top.name, loaded}
        /\ stack' = [i \in DOMAIN stack |->
                       IF i = Len(stack) THEN [Top EXCEPT !.loaded = loaded, !.next = 1]
                       ELSE [stack[i] EXCEPT !.stale =
                               @ \/ (~known /\ stack[i].loaded = loaded)]]
  /\ UNCHANGED <<imports, programs, phase, dirty>>

\* Mutant of NextImport: the walk does not go past a module of the runtime.
NextImportStays ==
  /\ phase = "resolving" /\ Top.next > 0
  /\ Top.next \in DOMAIN Imports
  /\ LET s == Imports[Top.next]
         walked == [stack EXCEPT ![Len(stack)].next = @ + 1]
     IN \/ Target[s] = Missing /\ Throw("missing")
        \/ /\ Target[s] # Missing
           /\ stack' = IF Target[s] = Virtual THEN stack
                       ELSE Append(walked, Call(s, Target[s]))
           /\ UNCHANGED <<imports, modules, visited, programs, phase, dirty>>

(* The next import of the module: not found, of the runtime, or a file.        *)
NextImport ==
  /\ phase = "resolving" /\ Top.next > 0
  /\ Top.next \in DOMAIN Imports
  /\ LET s == Imports[Top.next]
         walked == [stack EXCEPT ![Len(stack)].next = @ + 1]
     IN \/ Target[s] = Missing /\ Throw("missing")
        \/ /\ Target[s] # Missing
           /\ stack' = IF Target[s] = Virtual THEN walked
                       ELSE Append(walked, Call(s, Target[s]))
           /\ UNCHANGED <<imports, modules, visited, programs, phase, dirty>>

\* Mutant of Leave: the names stay in visited.
LeaveKeepsName ==
  /\ phase = "resolving" /\ Top.next > 0
  /\ Top.next \notin DOMAIN Imports
  /\ Return
  /\ UNCHANGED <<imports, modules, visited, programs, dirty>>

(* Two names were entered, the first is taken out.                             *)
Leave ==
  /\ phase = "resolving" /\ Top.next > 0
  /\ Top.next \notin DOMAIN Imports
  /\ visited' = visited \ {Top.name}
  /\ Return
  /\ UNCHANGED <<imports, modules, programs, dirty>>

Resolve == CycleFound \/ Load \/ NextImport \/ Leave

Next == Resolve \/ \E f \in File \ Prelude : Compile(f)

Spec == Init /\ [][Next]_vars
FairSpec == Spec /\ WF_vars(Resolve)     \* the compiler runs on

-------------------------------------------------------------------------------
(* The import graph on disk.                                                   *)

Found(s) == Target[s] \in File
ImportedBy(f) == {Target[s] : s \in {t \in ToSet(imports[f]) : Found(t)}}

(* What every set of files has that has f and what its members import.         *)
ImportClosed(S) == \A g \in S : ImportedBy(g) \subseteq S
Reachable(f) == {g \in File : \A S \in SUBSET File : f \in S /\ ImportClosed(S) => g \in S}

Cyclic(f) == \E g \in Reachable(f) : \E h \in ImportedBy(g) : g \in Reachable(h)

(* No file is asked for in two ways; a program and the prelude are, by stem.   *)
Asked == {s \in UNION {ToSet(imports[f]) : f \in File} : Found(s)}
Roots == Prelude \cup ToSet(programs)
OneSpelling ==
  /\ \A s, t \in Asked : Target[s] = Target[t] => s = t
  /\ \A s \in Asked : Target[s] \in Roots => s = NameOf[Target[s]]

(* What the proofs assume of the files: no two have one stem, and a stem has    *)
(* no dot, so it is the stem of itself.                                         *)
DistinctStems ==
  /\ \A f, g \in File : NameOf[f] = NameOf[g] => f = g
  /\ \A f \in File : StemOf[NameOf[f]] = NameOf[f]

(* A program whose imports go in a circle is never accepted, whatever names    *)
(* its modules are imported by and whatever the manager resolved before: the   *)
(* merge, which has no such test, would not end.                               *)
CyclesRejected == phase = "ok" => ~Cyclic(main)

(* What is reported as a cycle is one: here for a manager that no error has    *)
(* left names in, and files that are imported under one name each.             *)
CyclesAreReal == phase = "cycle" /\ ~dirty /\ OneSpelling => Cyclic(main)

(* resolve_dependencies walks the imports of a module it holds by reference;   *)
(* it never goes on once a later load has replaced the module in the map.      *)
NoUseOfReplaced == stack # <<>> => ~Top.stale

(* A call of compile_module comes back, also when imports go in a circle.      *)
CompileReturns == phase = "resolving" ~> phase \in Ended

=============================================================================
