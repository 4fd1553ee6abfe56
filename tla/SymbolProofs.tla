---------------------------- MODULE SymbolProofs ----------------------------
(* What holds of SymbolParameters for any signatures, widths and number of     *)
(* resizes.                                                                    *)
EXTENDS SymbolParameters, TLAPS

\* The state of one signature.
State == [wrapped : BOOLEAN, indents : Nat, observed : BOOLEAN]

\* What undoing the wrapping makes of a state.
LEMMA ResetState ==
  ASSUME NEW y \in State
  PROVE  /\ Reset(y) \in State
         /\ Reset(y).wrapped = FALSE
         /\ Reset(y).indents = IF y.indents > 0 THEN y.indents - 1 ELSE y.indents
         /\ Reset(y).observed = y.observed
<1> DEFINE n == IF y.indents > 0 THEN y.indents - 1 ELSE y.indents
<1>1. n \in Nat
  <2>1. y.indents \in Nat
    BY DEF State
  <2> QED BY <2>1
<1>2. Reset(y) = [y EXCEPT !.wrapped = FALSE, !.indents = n]
  BY DEF Reset
<1> HIDE DEF n
<1>3. /\ Reset(y) \in State
      /\ Reset(y).wrapped = FALSE /\ Reset(y).indents = n
      /\ Reset(y).observed = y.observed
  BY <1>1, <1>2 DEF State
<1> QED BY <1>3 DEF n

\* What wrapping makes of it: a signature that is not rendered is observed, one
\* that overflows gets an indent.
LEMMA WrapState ==
  ASSUME NEW s \in Symbols, NEW y \in State
  PROVE  /\ Wrap(s, y) \in State
         /\ ~Rendered(s) => /\ Wrap(s, y).observed = TRUE
                            /\ Wrap(s, y).wrapped = y.wrapped
                            /\ Wrap(s, y).indents = y.indents
         /\ Rendered(s) => Wrap(s, y).observed = y.observed
         /\ Rendered(s) /\ Overflows(s, y) => /\ Wrap(s, y).wrapped = TRUE
                                              /\ Wrap(s, y).indents = y.indents + 1
         /\ Rendered(s) /\ ~Overflows(s, y) => Wrap(s, y) = y
<1>1. y.indents \in Nat /\ y.indents + 1 \in Nat
  BY DEF State
<1>2. CASE ~Rendered(s)
  BY <1>1, <1>2 DEF Wrap, State
<1>3. CASE Rendered(s) /\ Overflows(s, y)
  BY <1>1, <1>3 DEF Wrap, State
<1>4. CASE Rendered(s) /\ ~Overflows(s, y)
  BY <1>4 DEF Wrap
<1> QED BY <1>2, <1>3, <1>4

\* A frame leaves a state.
LEMMA FrameState ==
  ASSUME NEW s \in Symbols, NEW y \in State
  PROVE  Rewrap(s, y) \in State /\ Observe(s, y) \in State
<1>1. [y EXCEPT !.observed = FALSE] \in State
  BY DEF State
<1> QED BY <1>1, ResetState, WrapState DEF Rewrap, Observe

\* The variables of SymbolParameters keep their types: a signature never has
\* fewer than no indents.
THEOREM SymbolTypeCorrect == SymbolSpec => []SymbolTypeOK
<1>1. SymbolInit => SymbolTypeOK
  <2> SUFFICES ASSUME SymbolInit PROVE SymbolTypeOK
    OBVIOUS
  <2>1. symbol \in [Symbols -> [wrapped : BOOLEAN, indents : Nat, observed : BOOLEAN]]
    <3>1. [wrapped |-> FALSE, indents |-> 0, observed |-> FALSE]
            \in [wrapped : BOOLEAN, indents : Nat, observed : BOOLEAN]
      OBVIOUS
    <3> QED BY <3>1 DEF SymbolInit
  <2>2. 0 \in 0..MaxResizes
    BY SymbolAssumption
  <2> QED BY <2>1, <2>2 DEF SymbolInit, SymbolTypeOK
<1>2. SymbolTypeOK /\ [SymbolNext]_symbolVars => SymbolTypeOK'
  <2> SUFFICES ASSUME SymbolTypeOK, [SymbolNext]_symbolVars PROVE SymbolTypeOK'
    OBVIOUS
  <2> USE SymbolAssumption
  <2>0. symbol \in [Symbols -> State]
    BY DEF SymbolTypeOK, State
  <2>1. CASE WrapAll
    <3>1. symbol' \in [Symbols -> State]
      BY <2>0, <2>1, WrapState DEF WrapAll
    <3> QED BY <2>1, <3>1 DEF WrapAll, SymbolTypeOK, State
  <2>2. CASE Frame
    <3>1. \A s \in Symbols :
            Observe(s, IF started /\ resized THEN Rewrap(s, symbol[s]) ELSE symbol[s])
              \in State
      BY <2>0, FrameState
    <3>2. symbol' \in [Symbols -> State]
      BY <3>1, <2>2 DEF Frame
    <3> QED BY <2>2, <3>2 DEF Frame, SymbolTypeOK, State
  <2>3. CASE ShowMembers BY <2>3 DEF ShowMembers, SymbolTypeOK
  <2>4. CASE ToggleContent BY <2>4 DEF ToggleContent, SymbolTypeOK
  <2>5. CASE \E w \in Widths : Resize(w) BY <2>5 DEF Resize, SymbolTypeOK
  <2>6. CASE UNCHANGED symbolVars BY <2>6 DEF symbolVars, SymbolTypeOK
  <2> QED BY <2>1, <2>2, <2>3, <2>4, <2>5, <2>6 DEF SymbolNext
<1> QED BY <1>1, <1>2, PTL DEF SymbolSpec

-----------------------------------------------------------------------------
Needed(s, w) == Text[s] > w

\* The invariant behind both properties. It speaks of signatures that are hidden
\* as well: what is neither observed nor about to be resized is as its text
\* demands. What is observed is not wrapped, and before the script nothing is
\* either.
Calm(s) ==
  LET y == symbol[s] IN
  /\ y.observed => ~y.wrapped
  /\ ~started => ~y.wrapped /\ ~y.observed
  /\ started /\ ~resized /\ ~y.observed => (y.wrapped <=> Needed(s, width))
  /\ y.indents \in {Indents(y), Indents(y) + 1}
  /\ s \notin coincided => y.indents = Indents(y)

\* Wrapping a signature that is not wrapped and has no indent.
LEMMA WrapsOnce ==
  ASSUME NEW s \in Symbols, NEW y \in State, ~y.wrapped
  PROVE  LET z == Wrap(s, y) IN
         /\ ~Rendered(s) => z.observed /\ ~z.wrapped /\ z.indents = y.indents
         /\ Rendered(s) => /\ z.observed = y.observed
                           /\ z.wrapped <=> Needed(s, width)
                           /\ z.indents = IF z.wrapped THEN y.indents + 1 ELSE y.indents
<1>1. Overflows(s, y) <=> Needed(s, width)
  BY DEF Overflows, Needed
<1> QED BY <1>1, WrapState

\* Running the script, the symbols being as the server sent them.
LEMMA RunCalm ==
  ASSUME SymbolTypeOK, WrapAll, NEW s \in Symbols, Calm(s)
  PROVE  Calm(s)'
<1> DEFINE y == symbol[s]
<1>1. y \in State /\ ~y.wrapped /\ ~y.observed
  BY DEF SymbolTypeOK, State, WrapAll, Calm
<1>2. symbol'[s] = Wrap(s, y)
  BY DEF WrapAll
<1>3. started' /\ resized' = resized /\ width' = width /\ coincided' = coincided
  BY DEF WrapAll
<1>4. y.indents \in {0, 1} /\ (s \notin coincided => y.indents = 0)
  BY <1>1 DEF Calm, Indents
<1> HIDE DEF y
<1>5. CASE ~Rendered(s)
  BY <1>1, <1>2, <1>3, <1>4, <1>5, WrapsOnce DEF Calm, Indents
<1>6. CASE Rendered(s)
  BY <1>1, <1>2, <1>3, <1>4, <1>6, WrapsOnce DEF Calm, Needed, Indents
<1> QED BY <1>5, <1>6

\* A frame. Whatever it was before, a rendered signature is not observed after it,
\* and wrapped as needed if it was resized or observed.
LEMMA FrameCalm ==
  ASSUME SymbolTypeOK, Frame, NEW s \in Symbols, Calm(s)
  PROVE  Calm(s)'
<1> DEFINE y == symbol[s]
           r == IF started /\ resized THEN Rewrap(s, y) ELSE y
           z == Reset(y)
           o == [r EXCEPT !.observed = FALSE]
<1>1. y \in State /\ r \in State
  BY FrameState DEF SymbolTypeOK, State
<1>2. symbol'[s] = Observe(s, r)
  BY DEF Frame
<1>3. /\ started' = started /\ resized' = FALSE /\ width' = width
      /\ s \notin coincided' => s \notin coincided /\ ~(resized /\ y.observed /\ Rendered(s))
  BY DEF Frame
<1>4. z \in State /\ ~z.wrapped /\ z.observed = y.observed
      /\ z.indents \in {0, 1} /\ (s \notin coincided \/ y.observed => z.indents = 0)
  <2>1. /\ y.indents \in Nat /\ (y.observed => ~y.wrapped)
        /\ y.indents \in {Indents(y), Indents(y) + 1}
        /\ s \notin coincided => y.indents = Indents(y)
    BY <1>1 DEF State, Calm
  <2> DEFINE n == IF y.indents > 0 THEN y.indents - 1 ELSE y.indents
  <2>2. n \in {0, 1} /\ (s \notin coincided \/ ~y.wrapped => n = 0)
    BY <2>1 DEF Indents
  <2>3. z.indents = n /\ z \in State /\ ~z.wrapped /\ z.observed = y.observed
    BY <1>1, ResetState
  <2> QED BY <2>1, <2>2, <2>3
<1>5. o \in State /\ o.wrapped = r.wrapped /\ o.indents = r.indents /\ ~o.observed
  BY <1>1 DEF State
<1>6. started /\ resized => r = Wrap(s, z)
  BY DEF Rewrap
<1>7. ~(started /\ resized) => r = y
  OBVIOUS
<1>8. Calm(s)
  OBVIOUS
<1> HIDE DEF y, r, z, o
<1>9. CASE ~Rendered(s)
  <2>1. symbol'[s] = r
    BY <1>2, <1>9 DEF Observe
  <2>2. CASE started /\ resized
    BY <2>1, <2>2, <1>3, <1>4, <1>6, <1>9, WrapsOnce DEF Calm, Indents
  <2>3. CASE ~(started /\ resized)
    BY <2>1, <2>3, <1>3, <1>7, <1>8 DEF Calm, Needed, Indents, y
  <2> QED BY <2>2, <2>3
<1>10. CASE Rendered(s) /\ r.observed
  <2>1. symbol'[s] = Wrap(s, o)
    BY <1>2, <1>10, <1>5 DEF Observe, o
  <2>2. CASE started /\ resized
    <3>1. /\ r.observed = z.observed /\ (r.wrapped <=> Needed(s, width))
          /\ r.indents = IF r.wrapped THEN z.indents + 1 ELSE z.indents
      BY <1>4, <1>6, <1>10, <2>2, WrapsOnce
    <3>2. s \in coincided' /\ z.indents = 0
      BY <1>3, <1>4, <1>10, <2>2, <3>1
    <3>3. /\ Wrap(s, o).wrapped <=> Needed(s, width)
          /\ ~Wrap(s, o).observed
          /\ Wrap(s, o).indents \in {Indents(Wrap(s, o)), Indents(Wrap(s, o)) + 1}
      <4>1. CASE o.wrapped
        <5>1. o.indents = 1 /\ Overflows(s, o) /\ Needed(s, width)
          BY <4>1, <3>1, <3>2, <1>5 DEF Overflows
        <5>2. /\ Wrap(s, o).wrapped = TRUE /\ Wrap(s, o).indents = o.indents + 1
              /\ Wrap(s, o).observed = o.observed
          BY <5>1, <1>5, <1>10, WrapState
        <5>3. Wrap(s, o).indents = 2 /\ Indents(Wrap(s, o)) = 1
          BY <5>1, <5>2 DEF Indents
        <5> QED BY <5>1, <5>2, <5>3, <1>5
      <4>2. CASE ~o.wrapped
        BY <4>2, <3>1, <3>2, <1>5, <1>10, WrapsOnce DEF Indents
      <4> QED BY <4>1, <4>2
    <3>4. /\ symbol'[s].wrapped <=> Needed(s, width)
          /\ ~symbol'[s].observed
          /\ symbol'[s].indents \in {Indents(symbol'[s]), Indents(symbol'[s]) + 1}
      BY <2>1, <3>3
    <3> QED BY <2>2, <3>2, <3>4, <1>3 DEF Calm, Needed
  <2>3. CASE ~(started /\ resized)
    <3>1. /\ ~o.wrapped /\ started /\ o.indents \in {0, 1}
          /\ s \notin coincided => o.indents = 0
      BY <1>5, <1>7, <1>8, <1>10, <2>3 DEF Calm, y, Indents
    <3> QED BY <2>1, <3>1, <1>3, <1>5, <1>10, WrapsOnce DEF Calm, Needed, Indents
  <2> QED BY <2>2, <2>3
<1>11. CASE Rendered(s) /\ ~r.observed
  <2>1. symbol'[s] = r
    BY <1>2, <1>11 DEF Observe
  <2>2. CASE started /\ resized
    BY <2>1, <2>2, <1>3, <1>4, <1>6, <1>11, WrapsOnce DEF Calm, Needed, Indents
  <2>3. CASE ~(started /\ resized)
    BY <2>1, <2>3, <1>3, <1>7, <1>8 DEF Calm, Needed, Indents, y
  <2> QED BY <2>2, <2>3
<1> QED BY <1>9, <1>10, <1>11

\* Every signature is calm in every state.
THEOREM AllCalm == SymbolSpec => [](\A s \in Symbols : Calm(s))
<1>1. SymbolInit => \A s \in Symbols : Calm(s)
  <2> SUFFICES ASSUME SymbolInit, NEW s \in Symbols PROVE Calm(s)
    OBVIOUS
  <2>1. symbol[s] = [wrapped |-> FALSE, indents |-> 0, observed |-> FALSE]
    BY DEF SymbolInit
  <2>2. symbol[s].wrapped = FALSE /\ symbol[s].indents = 0 /\ symbol[s].observed = FALSE
    BY <2>1
  <2> QED BY <2>2 DEF SymbolInit, Calm, Indents
<1>2. SymbolTypeOK /\ (\A s \in Symbols : Calm(s)) /\ [SymbolNext]_symbolVars
        => (\A s \in Symbols : Calm(s))'
  <2> SUFFICES ASSUME SymbolTypeOK, [SymbolNext]_symbolVars, NEW s \in Symbols, Calm(s)
               PROVE  Calm(s)'
    OBVIOUS
  <2>1. CASE WrapAll BY <2>1, RunCalm
  <2>2. CASE Frame BY <2>2, FrameCalm
  <2>3. CASE ShowMembers BY <2>3 DEF ShowMembers, Calm, Needed, Indents
  <2>4. CASE ToggleContent BY <2>4 DEF ToggleContent, Calm, Needed, Indents
  <2>5. CASE \E w \in Widths : Resize(w) BY <2>5 DEF Resize, Calm, Needed, Indents
  <2>6. CASE UNCHANGED symbolVars BY <2>6 DEF symbolVars, Calm, Needed, Indents
  <2> QED BY <2>1, <2>2, <2>3, <2>4, <2>5, <2>6 DEF SymbolNext
<1> QED BY <1>1, <1>2, SymbolTypeCorrect, PTL DEF SymbolSpec

\* Once the script has run, a signature that is rendered and waits for no frame
\* is wrapped exactly if it does not fit.
THEOREM WrappedCorrect == SymbolSpec => []WrappedAsNeeded
<1>1. (\A s \in Symbols : Calm(s)) => WrappedAsNeeded
  BY DEF Calm, Needed, WrappedAsNeeded
<1> QED BY <1>1, AllCalm, PTL

\* A parameter has the indent of a wrapped signature or none, and at most one
\* more, which it owes to a frame in which its signature was both resized and
\* shown.
THEOREM IndentedCorrect == SymbolSpec => []OneSpareIndent
<1>1. ASSUME \A s \in Symbols : Calm(s) PROVE OneSpareIndent
  <2> SUFFICES ASSUME NEW s \in Symbols
               PROVE  symbol[s].indents - Indents(symbol[s])
                        \in IF s \in coincided THEN {0, 1} ELSE {0}
    BY DEF OneSpareIndent
  <2>1. Indents(symbol[s]) \in {0, 1}
    BY DEF Indents
  <2>2. /\ symbol[s].indents \in {Indents(symbol[s]), Indents(symbol[s]) + 1}
        /\ s \notin coincided => symbol[s].indents = Indents(symbol[s])
    BY <1>1 DEF Calm
  <2> QED BY <2>1, <2>2
<1> QED BY <1>1, AllCalm, PTL
=============================================================================
