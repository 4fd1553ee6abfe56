---------------------------- MODULE SharedChoice ----------------------------
(* What the filter buttons of the documentation site promise: there is one     *)
(* choice of hidden source sets, windows open pages in accordance with it, and *)
(* a click changes it and its window at once. A page may fail to load its      *)
(* filters, and then shows none as active.                                     *)
CONSTANTS Windows, Pages, SourceSets, Buttons
VARIABLES choice, page, active

ChoiceInit ==
  /\ choice = {}
  /\ \A w \in Windows : page[w] \notin Pages /\ active[w] = {}

OpenPage(w, p) ==
  /\ page' = [page EXCEPT ![w] = p]
  /\ active' = [active EXCEPT ![w] = Buttons[p] \ choice]
  /\ UNCHANGED choice

OpenUnfiltered(w, p) ==
  /\ page' = [page EXCEPT ![w] = p]
  /\ active' = [active EXCEPT ![w] = {}]
  /\ UNCHANGED choice

Hide(w, s) ==
  /\ s \in active[w]
  /\ active' = [active EXCEPT ![w] = @ \ {s}]
  /\ choice' = choice \cup {s}
  /\ UNCHANGED page

\* A source set is shown, possibly with others that have a button.
Show(w, S) ==
  /\ S # {} /\ S \cap active[w] = {}
  /\ page[w] \in Pages /\ S \subseteq Buttons[page[w]]
  /\ active' = [active EXCEPT ![w] = @ \cup S]
  /\ choice' = choice \ S
  /\ UNCHANGED page

ChoiceNext ==
  \E w \in Windows :
    \/ \E p \in Pages : OpenPage(w, p) \/ OpenUnfiltered(w, p)
    \/ \E s \in SourceSets : Hide(w, s)
    \/ \E S \in SUBSET SourceSets : Show(w, S)

ChoiceSpec == ChoiceInit /\ [][ChoiceNext]_<<choice, page, active>>
=============================================================================
