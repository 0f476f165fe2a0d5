------------------------------ MODULE NvSession ------------------------------
(* The interactive session (frontend/interactive): every input is checked in    *)
(* one scope that all inputs share, compiled together with the definitions of  *)
(* the earlier ones, and run in a JIT of its own.  What goes from one input to  *)
(* the next is the scope, the definitions to emit again and the values in the   *)
(* runtime's store.  A statement is                                            *)
(*   "def"   name(arity) { a body that reads, calls }                          *)
(*   "set"   name = an expression that reads, calls                            *)
(*   "expr"  an expression that reads, calls                                   *)
(* and compiles says whether lowering takes it.                                *)
EXTENDS Integers, FiniteSets, SequencesExt

CONSTANTS
  Func, Var,   \* the names of functions and of variables
  Cells,       \* the inputs, sequences of statements
  MaxInputs    \* bound: the inputs and resets of a session

Statement ==
  [kind : {"def", "set", "expr"}, name : Func \cup Var \cup {""}, arity : Nat,
   reads : SUBSET (Func \cup Var), calls : SUBSET (Func \X Nat), compiles : BOOLEAN]

ASSUME SessionAssumption ==
  /\ Func \cap Var = {}
  /\ \A c \in Cells :
       /\ c \in Seq(Statement)
       /\ \A i \in DOMAIN c :
            /\ c[i].kind = "def" => c[i].name \in Func
            /\ c[i].kind = "set" => c[i].name \in Var
       /\ \A i, j \in DOMAIN c :
            c[i].kind = "def" /\ c[j].kind = "def" /\ c[i].name = c[j].name => i = j

VARIABLES
  scope,     \* the names the checker has: a function's arity, 0 for a variable
  decls,     \* repl_decls: the definitions to emit again
  varNames,  \* repl_var_names: what the generated code reads from the store
  store,     \* the variables that have a value in the runtime's store
  verdict,   \* how the last input ended
  inputs,
  \* History: the last input's right to be accepted, the scope of the accepted
  \* inputs alone, their latest definitions, and what has happened.
  justified, own, latest, happened
sessionVars == <<scope, decls, varNames, store, verdict, inputs,
          justified, own, latest, happened>>
history == <<justified, own, latest, happened>>

SessionInit ==
  /\ scope = << >> /\ decls = <<>> /\ varNames = {} /\ store = {}
  /\ verdict = "none" /\ inputs = 0
  /\ justified = TRUE /\ own = << >> /\ latest = << >> /\ happened = {}

\* Where f says nothing, g does.
Else(f, g) ==
  [n \in DOMAIN f \cup DOMAIN g |-> IF n \in DOMAIN f THEN f[n] ELSE g[n]]

\* The statements of s that are not in out, in their order.
Omit(s, out) ==
  LET kept[n \in 0 .. Len(s)] ==
        IF n = 0 THEN <<>>
        ELSE IF s[n] \in out THEN kept[n - 1] ELSE Append(kept[n - 1], s[n])
  IN kept[Len(s)]

Names(c, kind) == {c[i].name : i \in {j \in DOMAIN c : c[j].kind = kind}}
Defs(c) == Omit(c, {s \in ToSet(c) : s.kind # "def"})
Replaced(c) == {d \in ToSet(decls) : d.name \in Names(c, "def")}

\* Mutant of Program: an old definition stays beside the new one.
ProgramWithBoth(c) == decls \o c

(* What is compiled: the definitions of earlier inputs that this one does not  *)
(* give again, and the input.                                                  *)
Program(c) == Omit(decls, Replaced(c)) \o c

(* The names the checker enters while it looks at a program: those assigned,   *)
(* then the functions.  A function is entered as a constant, and entering a    *)
(* constant again changes nothing (put_key).                                   *)
Entered(sc, p) ==
  Else(sc,
  Else([x \in Names(p, "set") |-> 0],
       [f \in Names(p, "def") |->
          p[CHOOSE i \in DOMAIN p : p[i].kind = "def" /\ p[i].name = f].arity]))

(* check_node on every statement, bodies of functions included.                *)
Checks(sc, p) ==
  \A i \in DOMAIN p :
    /\ p[i].reads \subseteq DOMAIN sc
    /\ \A call \in p[i].calls : call[1] \in DOMAIN sc /\ sc[call[1]] = call[2]

Accepts(sc, p) == Checks(Entered(sc, p), p)

(* Lowering refuses a name defined twice and a call of another arity; the JIT  *)
(* a call of what is not there.                                                *)
Compiles(p) ==
  /\ \A i \in DOMAIN p : p[i].compiles
  /\ IsInjective([i \in DOMAIN Defs(p) |-> Defs(p)[i].name])
  /\ \A i \in DOMAIN p : \A call \in p[i].calls :
       \E d \in ToSet(Defs(p)) : d.name = call[1] /\ d.arity = call[2]

(* The accepted inputs so far and c as one program.                            *)
Earlier(c) == [n \in DOMAIN own \ Names(c, "def") |-> own[n]]
Justified(c) == Accepts(Earlier(c), c)

LatestIn(c) ==
  [f \in Names(c, "def") |->
     Defs(c)[CHOOSE i \in DOMAIN Defs(c) : Defs(c)[i].name = f]]

Happens(c, how) ==
  happened \cup {how} \cup
  (IF \E f \in Names(c, "def") \cap DOMAIN scope : Entered(scope, c)[f] #
        Entered(<< >>, c)[f]
   THEN {"changed"} ELSE {})

\* Mutant of Check: the names go into a scope that is dropped.
CheckInOwnScope(c) ==
  /\ varNames' = varNames \cup Names(c, "set")
  /\ scope' = scope
  /\ justified' = Justified(c)
  /\ inputs' = inputs + 1

(* The names are noted before the check, and the checker works on the          *)
(* session's own scope.                                                        *)
Check(c) ==
  /\ varNames' = varNames \cup Names(c, "set")
  /\ scope' = Entered(scope, Program(c))
  /\ justified' = Justified(c)
  /\ inputs' = inputs + 1

Refuse(c) ==
  /\ ~Accepts(scope, Program(c))
  /\ Check(c)
  /\ verdict' = "refused"
  /\ happened' = Happens(c, "refused")
  /\ UNCHANGED <<decls, store, own, latest>>

\* Mutant of Remember: a redefinition is kept beside the earlier definition.
RememberAll(c) == decls' = decls \o Defs(c)

(* The definitions are kept before the JIT verifies, compiles and runs it.      *)
Remember(c) == decls' = Omit(decls, Replaced(c)) \o Defs(c)

(* The program is lowered; an exception there, as for an integer literal that   *)
(* is too long, comes before anything is kept.                                 *)
LoweringThrows(c) ==
  /\ \E s \in ToSet(c) : ~s.compiles
  /\ verdict' = "broken"
  /\ happened' = Happens(c, "thrown")
  /\ UNCHANGED <<decls, latest, store>>

Run(c) ==
  /\ Compiles(Program(c))
  /\ verdict' = "ran"
  /\ store' = store \cup Names(c, "set")
  /\ happened' = Happens(c, "ran")

Break(c) ==
  /\ ~Compiles(Program(c))
  /\ verdict' = "broken"
  /\ happened' = Happens(c, "broken")
  /\ UNCHANGED store

\* Mutant of Accept: the checker's errors are printed and no more.
AcceptWithErrors(c) ==
  /\ Check(c)
  /\ own' = Entered(Earlier(c), c)
  /\ \/ LoweringThrows(c)
     \/ /\ Remember(c)
        /\ latest' = Else(LatestIn(c), latest)
        /\ Run(c) \/ Break(c)

Accept(c) ==
  /\ Accepts(scope, Program(c))
  /\ Check(c)
  /\ own' = Entered(Earlier(c), c)
  /\ \/ LoweringThrows(c)
     \/ /\ Remember(c)
        /\ latest' = Else(LatestIn(c), latest)
        /\ Run(c) \/ Break(c)

(* :reset makes a new checker and leaves the rest that this module has.        *)
Reset ==
  /\ scope' = << >>
  /\ verdict' = "none"
  /\ inputs' = inputs + 1
  /\ own' = << >>
  /\ happened' = happened \cup {"reset"}
  /\ UNCHANGED <<decls, varNames, store, justified, latest>>

SessionNext ==
  /\ inputs < MaxInputs
  /\ Reset \/ \E c \in Cells : Refuse(c) \/ Accept(c)

SessionSpec == SessionInit /\ [][SessionNext]_sessionVars
-------------------------------------------------------------------------------

Without(what) == happened \cap what = {}

(* What goes with the next input is, for every function of the session, the    *)
(* latest definition that was accepted and got through lowering, and no other. *)
LatestDefinitions ==
  /\ ToSet(decls) = {latest[f] : f \in DOMAIN latest}
  /\ Len(decls) = Cardinality(DOMAIN latest)

(* An input that the accepted inputs before it justify is accepted, whatever   *)
(* was refused in between, as long as no function changed its arity and there  *)
(* was no :reset.                                                              *)
JustifiedIsAccepted ==
  Without({"changed", "reset"}) /\ justified => verdict # "refused"

(* When nothing was refused either, no other input is.                         *)
OnlyJustifiedAccepted ==
  Without({"changed", "reset", "refused"}) => justified

(* An input that is accepted also runs, unless a cell was refused or its        *)
(* lowering threw (its names are left in the scope), a function changed its     *)
(* arity, or a definition that the JIT does not take is emitted again.         *)
AcceptedRuns ==
  Without({"changed", "refused", "thrown"}) /\ verdict = "broken" =>
    \E d \in ToSet(decls) : ~d.compiles

=============================================================================
