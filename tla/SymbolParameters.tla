-------------------------- MODULE SymbolParameters --------------------------
(* How the documentation site breaks long signatures into lines                *)
(* (docs/0.1.0/scripts/symbol-parameters-wrapper_deferred.js). A signature      *)
(* wider than its block is wrapped, and every parameter gets an indent, an      *)
(* element of the page. A signature that is not rendered has no width; it is    *)
(* given to a ResizeObserver and wrapped once it has one. The members of a page *)
(* are rendered by the load handler (initTabs), after this script; and the      *)
(* filter button takes the whole content away and brings it back.               *)
EXTENDS Integers

CONSTANTS Symbols,    \* signatures with a parameters block
          Members,    \* those in a tab body
          Widths,     \* of the content, less leftPaddingPx
          Text,       \* width of a signature on one line
          MaxResizes  \* bound: how often the window is resized

ASSUME SymbolAssumption ==
  /\ Members \subseteq Symbols
  /\ Widths \subseteq Int
  /\ Text \in [Symbols -> Int]
  /\ MaxResizes \in Nat

VARIABLES
  started,    \* has the script run?
  width,      \* of the content
  resized,    \* is a resize event to be dispatched?
  tabsOpen,   \* has the load handler shown the members?
  displayed,  \* is the content displayed?
  symbol,     \* per signature: wrapped, indents of a parameter, observed
  resizes,    \* resizes so far
  coincided   \* history: signatures wrapped by a resize while still observed

symbolVars == <<started, width, resized, tabsOpen, displayed, symbol, resizes, coincided>>

Rendered(s) == displayed /\ (s \in Members => tabsOpen)

SymbolInit ==
  /\ started = FALSE /\ resized = FALSE /\ tabsOpen = FALSE /\ displayed = TRUE
  /\ width \in Widths
  /\ symbol = [s \in Symbols |-> [wrapped |-> FALSE, indents |-> 0, observed |-> FALSE]]
  /\ resizes = 0
  /\ coincided = {}

-----------------------------------------------------------------------------
\* wrapped parameters are blocks: they take up the whole width.
Overflows(s, y) == y.wrapped \/ Text[s] > width

\* Mutation: a signature without a width is left alone.
WrapRendered(s, y) ==
  IF Rendered(s) /\ Overflows(s, y)
    THEN [y EXCEPT !.wrapped = TRUE, !.indents = @ + 1]
    ELSE y

\* wrapSymbolParameters on a signature in state y.
Wrap(s, y) ==
  IF ~Rendered(s) THEN [y EXCEPT !.observed = TRUE]
  ELSE IF Overflows(s, y) THEN [y EXCEPT !.wrapped = TRUE, !.indents = @ + 1]
  ELSE y

\* Mutation: an indent is taken away although there may be none.
ResetAlways(y) == [y EXCEPT !.wrapped = FALSE, !.indents = @ - 1]

\* resetSymbolParametersWrapping: the first indent of a parameter goes.
Reset(y) ==
  [y EXCEPT !.wrapped = FALSE, !.indents = IF @ > 0 THEN @ - 1 ELSE @]

\* Mutation: the observer goes on observing.
WrapAgain(s, y) == IF y.observed /\ Rendered(s) THEN Wrap(s, y) ELSE y

\* symbolResizeObserver: a signature that has got a width is wrapped.
Observe(s, y) ==
  IF y.observed /\ Rendered(s) THEN Wrap(s, [y EXCEPT !.observed = FALSE]) ELSE y

\* Mutation: window.onresize does not undo the wrapping.
RewrapOnly(s, y) == Wrap(s, y)

\* window.onresize.
Rewrap(s, y) == Wrap(s, Reset(y))

-----------------------------------------------------------------------------
\* The script is deferred: the document is parsed, and wrapped at once.
WrapAll ==
  /\ ~started
  /\ started' = TRUE
  /\ symbol' = [s \in Symbols |-> Wrap(s, symbol[s])]
  /\ UNCHANGED <<width, resized, tabsOpen, displayed, resizes, coincided>>

\* The browser renders a frame: resize events come first, then observers.
Frame ==
  /\ symbol' = [s \in Symbols |->
       Observe(s, IF started /\ resized THEN Rewrap(s, symbol[s]) ELSE symbol[s])]
  /\ coincided' = coincided \cup
       {s \in Symbols : resized /\ symbol[s].observed /\ Rendered(s)}
  /\ resized' = FALSE
  /\ UNCHANGED <<started, width, tabsOpen, displayed, resizes>>

Resize(w) ==
  /\ w # width
  /\ resizes < MaxResizes
  /\ width' = w
  /\ resized' = TRUE
  /\ resizes' = resizes + 1
  /\ UNCHANGED <<started, tabsOpen, displayed, symbol, coincided>>

\* The load handler, which waits for deferred scripts.
ShowMembers ==
  /\ started /\ ~tabsOpen
  /\ tabsOpen' = TRUE
  /\ UNCHANGED <<started, width, resized, displayed, symbol, resizes, coincided>>

\* The filter button (Filtering), which works from the load handler on.
ToggleContent ==
  /\ tabsOpen
  /\ displayed' = ~displayed
  /\ UNCHANGED <<started, width, resized, tabsOpen, symbol, resizes, coincided>>

SymbolNext ==
  \/ WrapAll \/ Frame \/ ShowMembers \/ ToggleContent
  \/ \E w \in Widths : Resize(w)

\* The script runs, the page loads, and the browser renders it.
SymbolFairness ==
  WF_symbolVars(WrapAll) /\ WF_symbolVars(ShowMembers) /\ WF_symbolVars(Frame)

SymbolSpec == SymbolInit /\ [][SymbolNext]_symbolVars /\ SymbolFairness

-----------------------------------------------------------------------------
\* The variables have their types: in particular no indent is taken away from a
\* parameter that has none (lines 56-69).
SymbolTypeOK ==
  /\ started \in BOOLEAN /\ resized \in BOOLEAN
  /\ tabsOpen \in BOOLEAN /\ displayed \in BOOLEAN
  /\ width \in Widths
  /\ symbol \in [Symbols -> [wrapped : BOOLEAN, indents : Nat, observed : BOOLEAN]]
  /\ resizes \in 0..MaxResizes
  /\ coincided \in SUBSET Symbols

\* Once the script has run, what is rendered and waits for no frame is wrapped
\* exactly if it does not fit, however often it was resized, hidden and shown,
\* resized while hidden included (lines 23-31, 79-83).
WrappedAsNeeded ==
  \A s \in Symbols :
    started /\ ~resized /\ Rendered(s) /\ ~symbol[s].observed
      => (symbol[s].wrapped <=> Text[s] > width)

\* The indents of a parameter are as wrapping needs them.
Indents(y) == IF y.wrapped THEN 1 ELSE 0

\* "only need it once, otherwise will be executed multiple times" (line 8): a
\* parameter has one indent if the signature is wrapped, and else none. Where a
\* signature is shown and resized between two frames, the observer wraps what the
\* resize has wrapped: that costs one indent too many, and no more however often
\* it happens (lines 48, 66-67, 79-83).
OneSpareIndent ==
  \A s \in Symbols :
    symbol[s].indents - Indents(symbol[s]) \in IF s \in coincided THEN {0, 1} ELSE {0}

\* A signature that is rendered gets wrapped if it needs to, although the script
\* has seen it without a width; it is not left waiting.
GetsWrapped ==
  \A s \in Symbols :
    started /\ Rendered(s)
      ~> ((symbol[s].wrapped <=> Text[s] > width) \/ ~Rendered(s))
=============================================================================
