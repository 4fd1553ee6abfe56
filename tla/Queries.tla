------------------------------ MODULE Queries -------------------------------
(***************************************************************************)
(* What the clients promise, without threads, reads or requests.           *)
(*                                                                         *)
(* A node is configured, and reconfigured, in one step.  A caller asks;    *)
(* then it either gets the answer of a node that was configured at some    *)
(* time since it asked, or it is told nothing.  An answer is never that of *)
(* a node nobody configured, of one replaced before the question, or of    *)
(* an earlier question; and an operation answers in its own terms.         *)
(***************************************************************************)
EXTENDS Naturals

CONSTANTS
  Callers,
  Ops,            \* the operations
  StatusOps,      \* those that answer yes or no
  MaxGeneration,  \* bound: how often the node is reconfigured
  Address,        \* Address[g]: the URL of the node of generation g
  NoUrl           \* the source of an outcome that is nobody's answer

VARIABLES
  generation,     \* the generation configured now
  asking,         \* asking[c]: c waits for an answer
  op,             \* op[c]: what c asks or asked last
  since,          \* since[c]: the generation configured when c asked
  outcome         \* outcome[c]: what c was told, and by which node

vars == <<generation, asking, op, since, outcome>>

Nothing == [value |-> "none", from |-> NoUrl]

Init ==
  /\ generation = 0
  /\ asking = [c \in Callers |-> FALSE]
  /\ op \in [Callers -> Ops]
  /\ since = [c \in Callers |-> 0]
  /\ outcome = [c \in Callers |-> Nothing]

Reconfigure ==
  /\ generation < MaxGeneration
  /\ generation' = generation + 1
  /\ UNCHANGED <<asking, op, since, outcome>>

Ask(c, o) ==
  /\ ~asking[c]
  /\ asking' = [asking EXCEPT ![c] = TRUE]
  /\ op' = [op EXCEPT ![c] = o]
  /\ since' = [since EXCEPT ![c] = generation]
  /\ outcome' = [outcome EXCEPT ![c] = Nothing]
  /\ UNCHANGED generation

Tell(c, value, from) ==
  /\ asking[c]
  /\ asking' = [asking EXCEPT ![c] = FALSE]
  /\ outcome' = [outcome EXCEPT ![c] = [value |-> value, from |-> from]]
  /\ UNCHANGED <<generation, op, since>>

Answer(c, g) ==
  /\ g \in since[c] .. generation
  /\ Tell(c, IF op[c] \in StatusOps THEN "true" ELSE "answer", Address[g])

\* No answer; "threw" if an Error passed through the method.
GiveUp(c) ==
  \/ Tell(c, IF op[c] \in StatusOps THEN "false" ELSE "null", NoUrl)
  \/ Tell(c, "threw", NoUrl)

Forget(c) ==
  /\ ~asking[c]
  /\ outcome' = [outcome EXCEPT ![c] = Nothing]
  /\ UNCHANGED <<generation, asking, op, since>>

Next ==
  \/ Reconfigure
  \/ \E c \in Callers :
       \/ \E o \in Ops : Ask(c, o)
       \/ \E g \in 0 .. MaxGeneration : Answer(c, g)
       \/ GiveUp(c)
       \/ Forget(c)

Spec == Init /\ [][Next]_vars

=============================================================================
