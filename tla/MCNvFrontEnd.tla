---------------------------- MODULE MCNvFrontEnd ----------------------------
(***************************************************************************)
(* What a program goes through before it runs, in one specification: the     *)
(* module manager finds its imports (NvModules), the session checks it and   *)
(* keeps its definitions (NvSession), and each function is lowered and given  *)
(* its drops (NvDrops).  A part hands the next one a program and shares no    *)
(* variable with it, so each is checked on inputs of its own; "part" is the   *)
(* one at work, and the others are at rest.                                  *)
(***************************************************************************)
EXTENDS MCNvModules, MCNvSession, MCNvDrops

VARIABLE part

frontEndVars == <<part, vars, sessionVars, dropsVars>>

ModulesRest ==
  /\ imports = [f \in File |-> <<>>] /\ modules = << >> /\ visited = {} /\ stack = <<>>
  /\ programs = <<>> /\ phase = "idle" /\ dirty = FALSE
DropsRest ==
  /\ fn = [sound |-> FALSE, owning |-> FALSE, ordered |-> FALSE] /\ at = <<>> /\ resume = <<>>
  /\ val = <<>> /\ obj = <<>> /\ kept = <<>> /\ luck = <<>> /\ out = <<>>

FrontEndInit ==
  \/ part = "modules" /\ Init /\ SessionInit /\ DropsRest
  \/ part = "session" /\ ModulesRest /\ SessionInit /\ DropsRest
  \/ part = "drops" /\ ModulesRest /\ SessionInit /\ DropsInit

ModulesStep == part = "modules" /\ Next /\ UNCHANGED <<part, sessionVars, dropsVars>>
SessionStep == part = "session" /\ SessionNext /\ UNCHANGED <<part, vars, dropsVars>>
DropsStep == part = "drops" /\ DropsNext /\ UNCHANGED <<part, vars, sessionVars>>

FrontEndNext == ModulesStep \/ SessionStep \/ DropsStep

\* The fairness of NvModules: the compiler runs on.
FrontEndSpec ==
  /\ FrontEndInit /\ [][FrontEndNext]_frontEndVars
  /\ WF_vars(part = "modules" /\ Resolve)

=============================================================================
