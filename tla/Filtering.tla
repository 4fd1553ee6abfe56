----------------------------- MODULE Filtering -----------------------------
(* The source set filter of the documentation site (docs/0.1.0/scripts,       *)
(* platform-content-handler.js): the buttons at the top right of a page show   *)
(* and hide what belongs to a source set, and the choice is kept in the item   *)
(* 'inactive-filters' of localStorage, which all windows of the site share.    *)
(* A handler works on the variables of its window at once, and then reads and  *)
(* writes the item once per source set it has changed. Handlers of windows in  *)
(* one process exclude each other; between processes nothing does.             *)
EXTENDS FiniteSets

CONSTANTS Windows, Pages, SourceSets,
          Buttons,        \* page -> the source sets it has a button for
          Dependencies,   \* sourceset_dependencies: a source set -> others
          Blank           \* what a window shows before it is sent to a page

ASSUME FilteringAssumption ==
  /\ Buttons \in [Pages -> (SUBSET SourceSets) \ {{}}]
  /\ \A s \in DOMAIN Dependencies : Dependencies[s] \in SUBSET SourceSets
  /\ Blank \notin Pages

VARIABLES
  oneProcess,    \* do all windows run in one process? The browser decides.
  inactive,      \* the item 'inactive-filters', as a set
  page,          \* per window the page
  loaded,        \* windows that got through initializeFiltering
  active,        \* filteringContext.activeFilters, which is also what is shown
  hidden,        \* windows whose main-content has display: none
  noticed,       \* windows that show sourcesetNotification
  orphaned,      \* windows that show a notification no variable refers to
  adding,        \* what the running handler still has to add to the item
  removing,      \* what it still has to remove from it
  copy,          \* what it has read of the item, if it has
  copied,        \* windows whose handler is between reading and writing
  undisturbed,   \* history: windows since whose load no other wrote the item
  raced          \* history: windows whose running handler met another window's

shown == <<page, loaded, active, hidden, noticed, orphaned>>
handler == <<adding, removing, copy, copied>>
vars == <<oneProcess, inactive, shown, handler, undisturbed, raced>>

Idle(w) == adding[w] = {} /\ removing[w] = {}

\* Windows other than w whose handlers are running.
Rivals(w) == {v \in Windows \ {w} : ~Idle(v)}

\* Scripts of one process run one after another.
Turn(w) == oneProcess => Rivals(w) = {}

FilteringInit ==
  /\ oneProcess \in BOOLEAN
  /\ inactive = {}
  /\ page = [w \in Windows |-> Blank]
  /\ loaded = {}
  /\ active = [w \in Windows |-> {}]
  /\ hidden = {} /\ noticed = {} /\ orphaned = {}
  /\ adding = [w \in Windows |-> {}]
  /\ removing = [w \in Windows |-> {}]
  /\ copy = [w \in Windows |-> {}]
  /\ copied = {}
  /\ undisturbed = {} /\ raced = {}

-----------------------------------------------------------------------------
\* Mutation: the elements are refreshed before the active filters are assigned.
RefreshTooEarly(w, A) ==
  /\ active' = [active EXCEPT ![w] = A]
  /\ hidden' = IF active[w] = {} THEN hidden \cup {w} ELSE hidden \ {w}
  /\ noticed' = IF active[w] = {} THEN noticed \cup {w} ELSE noticed \ {w}
  /\ UNCHANGED orphaned

\* refreshFiltering with A as the active filters: the elements and the buttons
\* show A, the content is hidden and a message put in its place if A is empty.
Refresh(w, A) ==
  /\ active' = [active EXCEPT ![w] = A]
  /\ hidden' = IF A = {} THEN hidden \cup {w} ELSE hidden \ {w}
  /\ noticed' = IF A = {} THEN noticed \cup {w} ELSE noticed \ {w}
  /\ orphaned' = IF A = {} /\ w \in noticed THEN orphaned \cup {w} ELSE orphaned

\* The part of a load that replaces the page and its variables by new ones.
Open(w, p) ==
  /\ Idle(w) /\ Turn(w)
  /\ page' = [page EXCEPT ![w] = p]
  /\ undisturbed' = undisturbed \cup {w}
  /\ raced' = raced \cup Rivals(w)
  /\ UNCHANGED <<oneProcess, inactive, handler>>

\* The load handler up to initializeFiltering, on a new page: no notification
\* of the page before is left, and what was chosen before is shown.
Load(w, p) ==
  /\ Open(w, p)
  /\ loaded' = loaded \cup {w}
  /\ LET A == Buttons[p] \ inactive IN
       /\ active' = [active EXCEPT ![w] = A]
       /\ hidden' = IF A = {} THEN hidden \cup {w} ELSE hidden \ {w}
       /\ noticed' = IF A = {} THEN noticed \cup {w} ELSE noticed \ {w}
       /\ orphaned' = orphaned \ {w}

\* sourceset_dependencies.js did not arrive: JSON.parse throws, and with it the
\* load handler. The page is as the server sent it, without active filters.
LoadAborts(w, p) ==
  /\ Open(w, p)
  /\ loaded' = loaded \ {w}
  /\ active' = [active EXCEPT ![w] = {}]
  /\ hidden' = hidden \ {w}
  /\ noticed' = noticed \ {w}
  /\ orphaned' = orphaned \ {w}

-----------------------------------------------------------------------------
\* A click on the button of s, where filterButtonHandler gets to.
Click(w, s) ==
  /\ page[w] # Blank
  /\ s \in Buttons[page[w]]
  /\ Idle(w) /\ Turn(w)
  /\ raced' = raced \cup IF Rivals(w) = {} THEN {} ELSE Rivals(w) \cup {w}
  /\ UNCHANGED <<oneProcess, inactive, page, loaded, copy, copied, undisturbed>>

FilterSourceset(w, s) ==
  /\ Click(w, s)
  /\ s \in active[w]
  /\ Refresh(w, active[w] \ {s})
  /\ adding' = [adding EXCEPT ![w] = {s}]
  /\ UNCHANGED removing

\* filteringContext.dependencies has an entry for s. (It is empty if the load
\* handler failed.)
HasEntry(w, s) == w \in loaded /\ s \in DOMAIN Dependencies

\* Mutation: what s depends on is not restricted to the page's buttons.
TogetherAnywhere(w, s) == Dependencies[s] \cup {s}

\* What is shown with s: what it depends on, restricted to the page's buttons.
Together(w, s) == (Dependencies[s] \cap Buttons[page[w]]) \cup {s}

\* Mutation: what s depends on is shown, but stays in the item.
UnfilterFirstOnly(w, s) ==
  /\ Click(w, s)
  /\ active[w] = {}
  /\ HasEntry(w, s)
  /\ Refresh(w, Together(w, s))
  /\ removing' = [removing EXCEPT ![w] = {s}]
  /\ UNCHANGED adding

\* Where nothing is active, a source set comes with those it depends on. If
\* there is no entry for it, concat is called on undefined: the handler throws
\* and nothing changes.
UnfilterFirst(w, s) ==
  /\ Click(w, s)
  /\ active[w] = {}
  /\ HasEntry(w, s)
  /\ Refresh(w, Together(w, s))
  /\ removing' = [removing EXCEPT ![w] = Together(w, s)]
  /\ UNCHANGED adding

UnfilterNext(w, s) ==
  /\ Click(w, s)
  /\ active[w] # {} /\ s \notin active[w]
  /\ Refresh(w, active[w] \cup {s})
  /\ removing' = [removing EXCEPT ![w] = {s}]
  /\ UNCHANGED adding

-----------------------------------------------------------------------------
\* localStorage.getItem in addSourcesetFilterToCache, removeSourcesetFilterFromCache.
ReadCache(w) ==
  /\ ~Idle(w) /\ w \notin copied
  /\ copy' = [copy EXCEPT ![w] = inactive]
  /\ copied' = copied \cup {w}
  /\ UNCHANGED <<oneProcess, inactive, shown, adding, removing, undisturbed, raced>>

\* Mutation: what was in the item is not kept when a source set is added.
WriteCacheAnew(w) ==
  /\ w \in copied
  /\ copied' = copied \ {w}
  /\ undisturbed' = undisturbed \cap {w}
  /\ \/ \E s \in adding[w] :
          /\ inactive' = {s}
          /\ adding' = [adding EXCEPT ![w] = @ \ {s}]
          /\ UNCHANGED removing
     \/ \E s \in removing[w] :
          /\ inactive' = copy[w] \ {s}
          /\ removing' = [removing EXCEPT ![w] = @ \ {s}]
          /\ UNCHANGED adding
  /\ raced' = IF adding'[w] = {} /\ removing'[w] = {} THEN raced \ {w} ELSE raced
  /\ UNCHANGED <<oneProcess, shown, copy>>

\* localStorage.setItem, and on to the next source set. (removeSourceset...
\* writes only if there is an item, which there is once anything is inactive.)
WriteCache(w) ==
  /\ w \in copied
  /\ copied' = copied \ {w}
  /\ undisturbed' = undisturbed \cap {w}
  /\ \/ \E s \in adding[w] :
          /\ inactive' = copy[w] \cup {s}
          /\ adding' = [adding EXCEPT ![w] = @ \ {s}]
          /\ UNCHANGED removing
     \/ \E s \in removing[w] :
          /\ inactive' = copy[w] \ {s}
          /\ removing' = [removing EXCEPT ![w] = @ \ {s}]
          /\ UNCHANGED adding
  /\ raced' = IF adding'[w] = {} /\ removing'[w] = {} THEN raced \ {w} ELSE raced
  /\ UNCHANGED <<oneProcess, shown, copy>>

FilteringNext ==
  \E w \in Windows :
    \/ \E p \in Pages : Load(w, p) \/ LoadAborts(w, p)
    \/ \E s \in SourceSets :
         FilterSourceset(w, s) \/ UnfilterFirst(w, s) \/ UnfilterNext(w, s)
    \/ ReadCache(w)
    \/ WriteCache(w)

FilteringSpec == FilteringInit /\ [][FilteringNext]_vars

-----------------------------------------------------------------------------
\* The variables have their types, and a page has a button for every source
\* set it shows (lines 213-216): one without could not be hidden.
FilteringTypeOK ==
  /\ oneProcess \in BOOLEAN
  /\ inactive \in SUBSET SourceSets
  /\ page \in [Windows -> Pages \cup {Blank}]
  /\ loaded \in SUBSET Windows
  /\ \A w \in loaded : page[w] # Blank
  /\ active \in [Windows -> SUBSET SourceSets]
  /\ \A w \in Windows : page[w] # Blank => active[w] \subseteq Buttons[page[w]]
  /\ hidden \in SUBSET Windows /\ noticed \in SUBSET Windows
  /\ orphaned \in SUBSET Windows
  /\ adding \in [Windows -> SUBSET SourceSets]
  /\ removing \in [Windows -> SUBSET SourceSets]
  /\ copy \in [Windows -> SUBSET SourceSets]
  /\ copied \in SUBSET Windows
  /\ undisturbed \in SUBSET Windows
  /\ raced \in SUBSET Windows
  /\ \A w \in raced : ~Idle(w)

\* Documentation gives way to the message exactly where every source set is
\* filtered, there is never more than one message, and it goes when the
\* documentation comes back (refreshNoContentNotification); a page whose load
\* handler failed shows its documentation.
MessageInPlace ==
  /\ hidden = noticed
  /\ orphaned = {}
  /\ \A w \in Windows : w \in hidden <=> w \in loaded /\ active[w] = {}

\* What a window shows is what the item says, as long as no other window
\* has written it: a reload, or the same page in a new window, shows the same.
\* (The buttons work on the window's variables and the item is changed by steps
\* of its own, for source sets that come together as well: lines 228-263.)
ReloadShowsSame ==
  \A w \in undisturbed \cap loaded :
    Idle(w) => active[w] = Buttons[page[w]] \ inactive

\* What a click on the button of s leaves active.
AfterClick(w, s) ==
  CASE s \in active[w] -> active[w] \ {s}
    [] s \notin active[w] /\ active[w] # {} -> active[w] \cup {s}
    [] active[w] = {} /\ HasEntry(w, s) -> Together(w, s)
    [] OTHER -> active[w]

\* "All documentation is filtered, please adjust your source set filters in
\* top-right corner of the screen": wherever that is said, the button of a
\* source set brings its documentation back (line 341).
MessageHelps ==
  \A w \in noticed : \A s \in Buttons[page[w]] : s \in AfterClick(w, s)

-----------------------------------------------------------------------------
\* What the handlers under way will have made of the item.
Intended == (inactive \cup UNION {adding[w] : w \in Windows})
              \ UNION {removing[w] : w \in Windows}

\* One choice, shared by all windows, changed by a click as a whole.
Choice == INSTANCE SharedChoice WITH choice <- Intended

\* The windows share one choice: Filtering implements SharedChoice, no click is
\* lost, and a page opens as chosen, whoever made the choice last: all the time
\* in one process, and between processes as long as no handler runs in two
\* windows at once. (Two that read 'inactive-filters' before either writes it,
\* lines 248-263, lose a click; after that, the choice is shared as before.)
SharesChoice ==
  /\ Choice!ChoiceInit
  /\ [][oneProcess \/ (raced = {} /\ raced' = {})
          => Choice!ChoiceNext]_<<Intended, page, active>>
=============================================================================
