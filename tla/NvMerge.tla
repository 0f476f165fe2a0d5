------------------------------- MODULE NvMerge -------------------------------
(* The module manager's other half: get_combined_ast (frontend/                 *)
(* module_manager.cpp) merges what was loaded into one program.                 *)
EXTENDS NvModules

(* get_combined_ast: process_module in depth-first order, the prelude before   *)
(* the program and whatever else is stored after it.                           *)

\* Mutant of Process: a module before the modules it imports.
RECURSIVE ProcessBefore(_, _)
ProcessBefore(order, name) ==
  IF Contains(order, name) \/ name \notin DOMAIN modules THEN order
  ELSE LET Visit(o, s) == ProcessBefore(o, StemOf[s])
       IN FoldLeft(Visit, Append(order, name), imports[modules[name]])

RECURSIVE Process(_, _)
Process(order, name) ==
  IF Contains(order, name) \/ name \notin DOMAIN modules THEN order
  ELSE LET Visit(o, s) == Process(o, StemOf[s])
       IN Append(FoldLeft(Visit, order, imports[modules[name]]), name)

Combined ==
  LET roots == SetToSeq({NameOf[p] : p \in Prelude}) \o <<NameOf[main]>>
  IN FoldLeft(Process, <<>>, roots \o SetToSeq(DOMAIN modules \ ToSet(roots)))

(* The merged program has every module the program needs, once, and each one   *)
(* after those it imports.  Only the batch compiler merges, after its one call *)
(* of compile_module (get_combined_ast).                                       *)
DependenciesFirst ==
  phase = "ok" /\ Len(programs) = 1 =>
    LET place(f) == CHOOSE i \in DOMAIN Combined : Combined[i] = NameOf[f]
    IN /\ IsInjective(Combined)
       /\ \A f \in Reachable(main) :
            /\ Contains(Combined, NameOf[f])
            /\ \A g \in ImportedBy(f) : place(g) < place(f)

=============================================================================
