----------------------------- MODULE Appearance -----------------------------
(* The dark theme of the documentation site and its navigation column           *)
(* (docs/0.1.0/scripts/platform-content-handler.js and the script in the head    *)
(* of every page). The theme a reader has chosen is kept in the item             *)
(* 'dokka-dark-mode', which all windows share; until then it is the system's.    *)
(* The button works once the load handler has run.                               *)
CONSTANTS Windows, Unset

ASSUME AppearanceAssumption == Unset \notin BOOLEAN

VARIABLES
  systemDark,  \* prefers-color-scheme
  stored,      \* the item 'dokka-dark-mode'
  visited,     \* windows that show a page
  ready,       \* windows whose load handler has run
  dark,        \* per window, does html have the class theme-dark?
  column,      \* windows whose leftColumn has the class open
  opened       \* history: windows opened, or toggled, since stored changed last

appearanceVars == <<systemDark, stored, visited, ready, dark, column, opened>>

AppearanceInit ==
  /\ systemDark \in BOOLEAN
  /\ stored \in BOOLEAN \cup {Unset}
  /\ visited = {} /\ ready = {} /\ column = {} /\ opened = {}
  /\ dark = [w \in Windows |-> FALSE]

\* The theme the script in the head chooses.
Chosen == IF stored = Unset THEN systemDark ELSE stored

\* A window opens, reloads or leaves for another page.
Open(w) ==
  /\ dark' = [dark EXCEPT ![w] = Chosen]
  /\ visited' = visited \cup {w}
  /\ opened' = opened \cup {w}
  /\ ready' = ready \ {w}
  /\ column' = column \ {w}
  /\ UNCHANGED <<systemDark, stored>>

\* The end of the load handler: darkModeSwitch, initHidingLeftNavigation.
Ready(w) ==
  /\ w \in visited \ ready
  /\ ready' = ready \cup {w}
  /\ UNCHANGED <<systemDark, stored, visited, dark, column, opened>>

\* Mutation: the opposite of what was stored is stored.
FlipStored(w) == IF stored = Unset THEN ~systemDark ELSE ~stored

\* What a toggle in w stores: the theme w has then.
Stored(w) == ~dark[w]

\* A click on the theme button.
Toggle(w) ==
  /\ w \in ready
  /\ dark' = [dark EXCEPT ![w] = ~@]
  /\ stored' = Stored(w)
  /\ opened' = IF stored' = stored THEN opened \cup {w} ELSE {w}
  /\ UNCHANGED <<systemDark, visited, ready, column>>

\* Clicks on leftToggler, which do not reach main, and on main.
ToggleColumn(w) ==
  /\ w \in ready
  /\ column' = IF w \in column THEN column \ {w} ELSE column \cup {w}
  /\ UNCHANGED <<systemDark, stored, visited, ready, dark, opened>>

CloseColumn(w) ==
  /\ w \in column
  /\ column' = column \ {w}
  /\ UNCHANGED <<systemDark, stored, visited, ready, dark, opened>>

SystemChanges ==
  /\ systemDark' = ~systemDark
  /\ UNCHANGED <<stored, visited, ready, dark, column, opened>>

AppearanceNext ==
  \/ SystemChanges
  \/ \E w \in Windows :
       Open(w) \/ Ready(w) \/ Toggle(w) \/ ToggleColumn(w) \/ CloseColumn(w)

AppearanceSpec == AppearanceInit /\ [][AppearanceNext]_appearanceVars

-----------------------------------------------------------------------------
\* Once the reader has chosen a theme, a page opened since has it, and so has the
\* window it was chosen in, although windows opened before may have the other and
\* are toggled from there (lines 39-51): a reload never changes what was chosen.
ThemeKept == stored # Unset => \A w \in opened : dark[w] = stored
=============================================================================
