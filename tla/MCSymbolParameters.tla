------------------------- MODULE MCSymbolParameters -------------------------
(* Finite instances of SymbolParameters.                                   *)
EXTENDS SymbolParameters

\* A signature that never fits, two that fit the wider windows only, and one
\* that always does.
MCText == [s \in Symbols |-> CASE s = "head" -> 9 [] s = "long" -> 2
                               [] s = "longer" -> 3 [] s = "short" -> 0]
=============================================================================
