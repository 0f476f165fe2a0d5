------------------------------ MODULE Futures ------------------------------
(***************************************************************************)
(* What spawn and wait promise, with no thread table: a body that has been *)
(* spawned runs once and finishes once, and a thread that waits for it is  *)
(* given the result of that body, after the body finished and only once.   *)
(***************************************************************************)
CONSTANTS
  Actor,      \* the threads: the main one and one for each body
  Body,       \* the bodies that may be spawned
  NoBody      \* "no body"

VARIABLES
  status,     \* how far each body is
  waiting,    \* the body each thread is waiting for
  answer      \* the result a thread has been given, until its wait returns

vars == <<status, waiting, answer>>

Init ==
  /\ status = [k \in Body |-> "none"]
  /\ waiting = [a \in Actor |-> NoBody]
  /\ answer = [a \in Actor |-> NoBody]

Spawn(k) ==
  /\ status[k] = "none"
  /\ status' = [status EXCEPT ![k] = "running"]
  /\ UNCHANGED <<waiting, answer>>

Finish(k) ==
  /\ status[k] = "running"
  /\ status' = [status EXCEPT ![k] = "finished"]
  /\ UNCHANGED <<waiting, answer>>

WaitFor(a, k) ==
  /\ waiting[a] = NoBody
  /\ \A b \in Actor : waiting[b] # k
  /\ status[k] \in {"running", "finished"}
  /\ waiting' = [waiting EXCEPT ![a] = k]
  /\ UNCHANGED <<status, answer>>

Take(a) ==
  /\ waiting[a] # NoBody
  /\ answer[a] = NoBody
  /\ status[waiting[a]] = "finished"
  /\ status' = [status EXCEPT ![waiting[a]] = "taken"]
  /\ answer' = [answer EXCEPT ![a] = waiting[a]]
  /\ UNCHANGED waiting

Return(a) ==
  /\ answer[a] # NoBody
  /\ waiting' = [waiting EXCEPT ![a] = NoBody]
  /\ answer' = [answer EXCEPT ![a] = NoBody]
  /\ UNCHANGED status

Next ==
  \/ \E k \in Body : Spawn(k) \/ Finish(k)
  \/ \E a \in Actor : Take(a) \/ Return(a) \/ \E k \in Body : WaitFor(a, k)

Spec == Init /\ [][Next]_vars
=============================================================================
