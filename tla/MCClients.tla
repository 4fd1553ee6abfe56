----------------------------- MODULE MCClients ------------------------------
(* Finite instances of Clients.                                            *)
EXTENDS Clients, TLC

CONSTANTS c1, c2, h0, h1, p0, p1

\* Consecutive settings differ in every property, so that a URL that mixes two
\* of them is the URL of none.
MCSettings ==
  [g \in Generations |->
     IF g % 2 = 0 THEN [ssl |-> FALSE, hostName |-> h0, port |-> p0]
                  ELSE [ssl |-> TRUE,  hostName |-> h1, port |-> p1]]

MCSymmetry == Permutations(Callers) \cup Permutations(Threads)

=============================================================================
