--------------------------- MODULE MCNvConstructs ---------------------------
(***************************************************************************)
(* The two constructs of the language whose whole state is in the runtime of  *)
(* one call: try (NvExceptions) and par_for (NvParallelFor), in one           *)
(* specification.  The bodies of a par_for raise nothing here, so the two      *)
(* share no variable: "construct" is the one that runs, the other is at rest. *)
(***************************************************************************)
EXTENDS NvExceptions, MCNvParallelFor

VARIABLE construct

constructsVars == <<construct, vars, parForVars>>

ExceptionsRest ==
  /\ features = {}
  /\ depth = 0 /\ pending = NoErr /\ handled = NoErr /\ outer = <<>> /\ exited = FALSE
  /\ stack = <<>> /\ typeOf = [e \in Err |-> CHOOSE type \in Type : TRUE] /\ thrown = 0
  /\ raisedIn = 0 /\ left = 0 /\ returned = FALSE

ConstructsInit ==
  /\ ParForInit
  /\ \/ construct = "try" /\ Init
     \/ construct = "par_for" /\ ExceptionsRest

TryStep == construct = "try" /\ Next /\ UNCHANGED <<construct, parForVars>>
ParForStep == construct = "par_for" /\ ParForNext /\ UNCHANGED <<construct, vars>>

ConstructsNext == TryStep \/ ParForStep

ConstructsSpec == ConstructsInit /\ [][ConstructsNext]_constructsVars

=============================================================================
