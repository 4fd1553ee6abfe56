------------------------------ MODULE Anchors ------------------------------
(* Anchors and tabs of a page of the documentation site                        *)
(* (docs/0.1.0/scripts/platform-content-handler.js). The part of the URL after *)
(* # names a row of the page: it is highlighted and scrolled to, in the tab it *)
(* belongs to. Three things race: the load handler, hashchange events, and the *)
(* timers by which a scroll is put off that comes before the load handler has  *)
(* got to topNavbarOffset. The browser scrolls as well, but only to what is    *)
(* rendered, and tab bodies are not before the load handler (style.css). Rows  *)
(* whose source sets are all filtered are not rendered either; how the filter  *)
(* is chosen is in Filtering.                                                  *)
EXTENDS Naturals, Sequences

CONSTANTS Anchors,    \* rows that have an anchor
          NoAnchor,   \* no row: the top of the page, or a hash that names none
          Kind,       \* the section a row is in
          OwnToggle,  \* rows that carry data-togglable themselves
          Tabs,       \* the tab buttons, each the set of sections it shows
          DefaultTab, \* the button that is active in the page as served
          Sourcesets, \* those the page has a filter button for
          SetsOf,     \* the source sets a row belongs to
          MaxMoves    \* bound: how often the reader follows a link or reloads

ASSUME AnchorsAssumption ==
  /\ NoAnchor \notin Anchors
  /\ OwnToggle \subseteq Anchors
  /\ DefaultTab \in Tabs
  /\ \A b, c \in Tabs : b \cap c # {} => b = c
  /\ {} \notin Tabs
  /\ \A a \in Anchors : \E b \in Tabs : Kind[a] \in b
  /\ \A a \in Anchors : SetsOf[a] \subseteq Sourcesets /\ SetsOf[a] # {}
  /\ MaxMoves \in Nat

VARIABLES
  status,       \* "parsing", "scripted", then "ready" or "aborted" by the load handler
  hash,         \* window.location.hash
  events,       \* hashchange events that wait
  timers,       \* the rows that timers of waitAndScroll are to scroll to
  navbar,       \* is topNavbarOffset set?
  highlighted,  \* highlightedAnchor
  scrolled,     \* the row the page was scrolled to last
  open,         \* the sections with data-active, those of a tab or none
  active,       \* the source sets shown, filteringContext.activeFilters
  activeTab,    \* the item 'active-tab' of localStorage
  moves,        \* links followed and reloads
  strayed,      \* history: has the reader chosen a tab since the last handleAnchor?
  refiltered,   \* history: has the reader changed the filter since then?
  overtaken     \* history: was a link followed while a timer ran?

anchorsVars == <<status, hash, events, timers, navbar, highlighted, scrolled, open,
                active, activeTab, moves, strayed, refiltered, overtaken>>

\* A page that has just been parsed. Nothing is filtered before the load handler.
Fresh ==
  /\ status' = "parsing"
  /\ events' = 0 /\ timers' = <<>> /\ navbar' = FALSE
  /\ highlighted' = NoAnchor /\ scrolled' = NoAnchor /\ open' = {}
  /\ active' = Sourcesets
  /\ strayed' = FALSE /\ refiltered' = FALSE /\ overtaken' = FALSE

\* The page is opened, maybe by a link to a row; maybe a tab was chosen before.
AnchorsInit ==
  /\ status = "parsing"
  /\ hash \in Anchors \cup {NoAnchor}
  /\ events = 0 /\ timers = <<>> /\ navbar = FALSE
  /\ highlighted = NoAnchor /\ scrolled = NoAnchor /\ open = {}
  /\ active = Sourcesets
  /\ activeTab \in Tabs \cup {{}}
  /\ moves = 0
  /\ strayed = FALSE /\ refiltered = FALSE /\ overtaken = FALSE

Reload ==
  /\ status \in {"ready", "aborted"}
  /\ moves < MaxMoves
  /\ moves' = moves + 1
  /\ Fresh
  /\ UNCHANGED <<hash, activeTab>>

\* The script is async: from here on it listens to hashchange.
Listen ==
  /\ status = "parsing"
  /\ status' = "scripted"
  /\ UNCHANGED <<hash, events, timers, navbar, highlighted, scrolled, open, active,
                 activeTab, moves, strayed, refiltered, overtaken>>

-----------------------------------------------------------------------------
\* With the source sets in A shown, a has data-filterable-current="", and so no
\* place on the page. (If A is empty, the whole of main-content has none.)
Filtered(a, A) == SetsOf[a] \cap A = {}

\* Where scrolling to a's offset ends, with the sections in o and the source sets
\* in A shown: what is not rendered has the offset 0.
Offset(a, o, A) == IF Kind[a] \in o /\ ~Filtered(a, A) THEN a ELSE NoAnchor

\* findAnyTab and toggleSections: the tab of a row is opened if the row's own
\* style hides it, because it is filtered, or carries data-togglable and its
\* section is not shown. Other rows in a section that is not shown stay there.
Reveal(a, o, A) ==
  IF Filtered(a, A) \/ (a \in OwnToggle /\ Kind[a] \notin o)
    THEN CHOOSE b \in Tabs : Kind[a] \in b
    ELSE o

\* Mutation: the highlight goes only when the next one comes.
HandleAnchorKeeping(o, A) ==
  IF hash \in Anchors
    THEN /\ highlighted' = hash
         /\ open' = Reveal(hash, o, A)
         /\ IF navbar
              THEN scrolled' = Offset(hash, open', A) /\ UNCHANGED timers
              ELSE timers' = Append(timers, hash) /\ UNCHANGED scrolled
    ELSE open' = o /\ UNCHANGED <<timers, scrolled, highlighted>>

\* Mutation: the row is scrolled to before its tab is opened.
HandleAnchorTooEarly(o, A) ==
  IF hash \in Anchors
    THEN /\ highlighted' = hash
         /\ open' = Reveal(hash, o, A)
         /\ IF navbar
              THEN scrolled' = Offset(hash, o, A) /\ UNCHANGED timers
              ELSE timers' = Append(timers, hash) /\ UNCHANGED scrolled
    ELSE highlighted' = NoAnchor /\ open' = o /\ UNCHANGED <<timers, scrolled>>

\* handleAnchor, with the sections in o and the source sets in A shown when it
\* starts.
HandleAnchor(o, A) ==
  IF hash \in Anchors
    THEN /\ highlighted' = hash
         /\ open' = Reveal(hash, o, A)
         /\ IF navbar
              THEN scrolled' = Offset(hash, open', A) /\ UNCHANGED timers
              ELSE timers' = Append(timers, hash) /\ UNCHANGED scrolled
    ELSE /\ highlighted' = NoAnchor
         /\ open' = o
         /\ UNCHANGED <<timers, scrolled>>

\* Mutation: the tab that is active in the page as served is not shown.
StoredTab == activeTab

\* initTabs: the tab chosen last, if the page has it, or else the one that is
\* active: the default, unless an early hashchange has opened another.
InitialTab ==
  IF activeTab \in Tabs THEN activeTab ELSE IF open # {} THEN open ELSE DefaultTab

\* The load handler up to initTabs: what the item 'inactive-filters' leaves of
\* the source sets is shown.
LoadFilter ==
  /\ status = "scripted"
  /\ status' = "ready"
  /\ active' \in SUBSET Sourcesets
  /\ strayed' = FALSE /\ refiltered' = FALSE
  /\ UNCHANGED <<hash, events, activeTab, moves, overtaken>>

\* Mutation: handleAnchor before initTabs.
LoadAnchorFirst ==
  /\ LoadFilter
  /\ highlighted' = hash
  /\ timers' = IF hash \in Anchors THEN Append(timers, hash) ELSE timers
  /\ open' = InitialTab
  /\ navbar' = TRUE
  /\ UNCHANGED scrolled

\* Mutation: the page relies on hashchange for its first anchor, too.
LoadWithoutAnchor ==
  /\ LoadFilter
  /\ open' = InitialTab
  /\ navbar' = TRUE
  /\ UNCHANGED <<timers, scrolled, highlighted>>

\* The load handler: initializeFiltering, initTabs, handleAnchor and
\* topNavbarOffset, in this order.
Load ==
  /\ LoadFilter
  /\ HandleAnchor(InitialTab, active')
  /\ navbar' = TRUE

\* initializeFiltering throws if sourceset_dependencies.js did not arrive, and
\* nothing of the rest happens.
LoadAborts ==
  /\ status = "scripted"
  /\ status' = "aborted"
  /\ UNCHANGED <<hash, events, timers, navbar, highlighted, scrolled, open, active,
                 activeTab, moves, strayed, refiltered, overtaken>>

-----------------------------------------------------------------------------
\* The reader goes to another anchor of the page, by a link or back and forth.
FollowLink(a) ==
  /\ a # hash
  /\ moves < MaxMoves
  /\ hash' = a
  /\ moves' = moves + 1
  /\ events' = IF status = "parsing" THEN events ELSE events + 1
  /\ scrolled' =
       IF a \in Anchors /\ Kind[a] \in open /\ ~Filtered(a, active) THEN a ELSE scrolled
  /\ overtaken' = (overtaken \/ timers # <<>>)
  /\ UNCHANGED <<status, timers, navbar, highlighted, open, active, activeTab, strayed,
                 refiltered>>

\* window.onhashchange.
HashChange ==
  /\ events > 0
  /\ events' = events - 1
  /\ HandleAnchor(open, active)
  /\ strayed' = FALSE /\ refiltered' = FALSE
  /\ UNCHANGED <<status, hash, navbar, active, activeTab, moves, overtaken>>

\* 50 ms after waitAndScroll. If topNavbarOffset is still missing, the call of
\* waitForScroll, which does not exist, throws.
Timer ==
  /\ timers # <<>>
  /\ timers' = Tail(timers)
  /\ scrolled' = IF navbar THEN Offset(Head(timers), open, active) ELSE scrolled
  /\ UNCHANGED <<status, hash, events, navbar, highlighted, open, active, activeTab,
                 moves, strayed, refiltered, overtaken>>

\* A click on a tab: toggleSectionsEventHandler, which is registered first of all
\* and again by initTabs, so that an aborted page has it, too.
ChooseTab(b) ==
  /\ status \in {"ready", "aborted"}
  /\ open' = b
  /\ activeTab' = b
  /\ strayed' = (strayed \/ b # open)
  /\ UNCHANGED <<status, hash, events, timers, navbar, highlighted, scrolled, active,
                 moves, refiltered, overtaken>>

\* A click on the button of s: filterButtonHandler. The first source set to be
\* shown comes with those it depends on.
ClickFilter(s) ==
  /\ status = "ready"
  /\ active' \in
       CASE s \in active -> {active \ {s}}
         [] active = {} -> {A \in SUBSET Sourcesets : s \in A}
         [] OTHER -> {active \cup {s}}
  /\ refiltered' = TRUE
  /\ UNCHANGED <<status, hash, events, timers, navbar, highlighted, scrolled, open,
                 activeTab, moves, strayed, overtaken>>

AnchorsNext ==
  \/ Reload \/ Listen \/ Load \/ LoadAborts
  \/ \E a \in Anchors \cup {NoAnchor} : FollowLink(a)
  \/ HashChange \/ Timer
  \/ \E b \in Tabs : ChooseTab(b)
  \/ \E s \in Sourcesets : ClickFilter(s)

AnchorsSpec == AnchorsInit /\ [][AnchorsNext]_anchorsVars

\* A page goes on loading, events are dispatched, timers expire.
AnchorsFairness ==
  /\ WF_anchorsVars(Listen)
  /\ WF_anchorsVars(Load \/ LoadAborts)
  /\ WF_anchorsVars(HashChange)
  /\ WF_anchorsVars(Timer)

FairAnchorsSpec == AnchorsSpec /\ AnchorsFairness

-----------------------------------------------------------------------------
\* The variables have their types; a tab is open in a page that is ready; before
\* that, topNavbarOffset is missing.
AnchorsTypeOK ==
  /\ status \in {"parsing", "scripted", "ready", "aborted"}
  /\ hash \in Anchors \cup {NoAnchor}
  /\ events \in 0..MaxMoves
  /\ timers \in Seq(Anchors)
  /\ navbar = (status = "ready")
  /\ highlighted \in Anchors \cup {NoAnchor}
  /\ scrolled \in Anchors \cup {NoAnchor}
  /\ open \in Tabs \cup (IF status = "ready" THEN {} ELSE {{}})
  /\ active \in SUBSET Sourcesets
  /\ activeTab \in Tabs \cup {{}}
  /\ moves \in 0..MaxMoves
  /\ strayed \in BOOLEAN /\ refiltered \in BOOLEAN /\ overtaken \in BOOLEAN

\* Once all events are handled, the row the URL names is highlighted and no
\* other: not the one of a hash left meanwhile, nor any if it names none. Where
\* the load handler has not run, or failed, it may also be that none is.
HighlightFollowsHash ==
  events = 0 => highlighted \in IF status = "ready" THEN {hash} ELSE {hash, NoAnchor}

\* A row is not highlighted where the reader cannot see it: the row the URL names
\* is in the open tab, whichever tab was stored, in a page whose load handler
\* failed as well, unless the reader chose another since (of rows that carry
\* data-togglable; that of the others is opened only if they are filtered).
TargetInOpenTab ==
  events = 0 /\ hash \in OwnToggle /\ highlighted = hash /\ ~strayed
    => Kind[hash] \in open

\* Nothing is left to happen, and what the reader sees is what handleAnchor left.
Settled ==
  status = "ready" /\ events = 0 /\ timers = <<>> /\ ~strayed /\ ~refiltered

\* "Hash change is needed in order to allow for linking inside the same page
\* with anchors" (line 98): in the end the page is at the row the URL names. If
\* that row is filtered, the page is at its top.
SettledAtHash ==
  Settled /\ hash \in OwnToggle =>
    scrolled = IF Filtered(hash, active) THEN NoAnchor ELSE hash

\* Of a row that is shown, the only way for the page to end elsewhere is a link
\* followed while a timer ran for an earlier one.
SettledUnlessOvertaken == ~overtaken => SettledAtHash

\* Whatever the order of script, load, events and timers, and although a timer
\* that expires before the load handler is lost: a page that is opened or moved
\* to a row is scrolled to it, unless its source sets are filtered, the reader
\* chose a tab or a filter or followed a link while a timer ran, or the load
\* handler failed.
AnchorReached ==
  \A a \in OwnToggle :
    hash = a ~> \/ scrolled = a \/ hash # a \/ Filtered(a, active)
                \/ strayed \/ refiltered \/ overtaken \/ status = "aborted"
=============================================================================
