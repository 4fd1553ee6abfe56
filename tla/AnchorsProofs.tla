--------------------------- MODULE AnchorsProofs ----------------------------
(* What Anchors promises, for every page: any rows, tabs and source sets, and  *)
(* any number of links followed and reloads.                                   *)
EXTENDS Anchors, SequenceTheorems, TLAPS

\* There are no more events than links were followed, and before the script is
\* there none waits and no row is highlighted.
Bounded ==
  /\ AnchorsTypeOK
  /\ events <= moves
  /\ status = "parsing" => events = 0 /\ highlighted = NoAnchor

\* Where the page is when it was scrolled to a, with the source sets in A shown.
Place(a, A) == IF Filtered(a, A) THEN NoAnchor ELSE a

\* Unless a link was followed while a timer ran, timers are for the row that
\* the URL names.
Current == ~overtaken => \A i \in 1..Len(timers) : timers[i] = hash

-----------------------------------------------------------------------------
LEMMA InitialTabIsOne == ASSUME Bounded PROVE InitialTab \in Tabs
  BY AnchorsAssumption DEF Bounded, AnchorsTypeOK, InitialTab

\* A row that carries data-togglable is in the tab that is open afterwards.
LEMMA RevealShows ==
  ASSUME NEW a \in Anchors, NEW o \in Tabs \cup {{}}, NEW A
  PROVE  /\ Reveal(a, o, A) \in Tabs \cup {o}
         /\ a \in OwnToggle => Kind[a] \in Reveal(a, o, A)
<1>1. \E b \in Tabs : Kind[a] \in b
  BY AnchorsAssumption
<1>2. LET b == CHOOSE b \in Tabs : Kind[a] \in b IN b \in Tabs /\ Kind[a] \in b
  BY <1>1
<1> QED BY <1>2 DEF Reveal

\* What handleAnchor leaves: the row the URL names is highlighted and shown, and
\* it is scrolled to, or a timer for it is started.
LEMMA HandleAnchorResult ==
  ASSUME Bounded, NEW o \in Tabs \cup {{}}, NEW A, HandleAnchor(o, A)
  PROVE  /\ highlighted' = hash
         /\ open' \in Tabs \cup {o}
         /\ hash \in OwnToggle => Kind[hash] \in open'
         /\ \/ timers' = timers
            \/ hash \in Anchors /\ timers' = Append(timers, hash)
         /\ scrolled' \in Anchors \cup {NoAnchor}
         /\ hash \in OwnToggle =>
              IF navbar THEN scrolled' = Place(hash, A) ELSE timers' # <<>>
<1> USE AnchorsAssumption DEF Bounded, AnchorsTypeOK
<1>1. CASE hash \in Anchors
  <2>1. open' = Reveal(hash, o, A) /\ highlighted' = hash
    BY <1>1 DEF HandleAnchor
  <2>2. open' \in Tabs \cup {o} /\ (hash \in OwnToggle => Kind[hash] \in open')
    BY <1>1, <2>1, RevealShows
  <2>3. CASE navbar
    <3>1. timers' = timers /\ scrolled' = Offset(hash, open', A)
      BY <1>1, <2>3 DEF HandleAnchor
    <3> QED BY <1>1, <2>1, <2>2, <2>3, <3>1 DEF Offset, Place
  <2>4. CASE ~navbar
    <3>1. timers' = Append(timers, hash) /\ scrolled' = scrolled
      BY <1>1, <2>4 DEF HandleAnchor
    <3>2. Append(timers, hash) # <<>>
      BY <1>1, AppendProperties
    <3> QED BY <1>1, <2>1, <2>2, <2>4, <3>1, <3>2
  <2> QED BY <2>3, <2>4
<1>2. CASE hash \notin Anchors
  BY <1>2 DEF HandleAnchor
<1> QED BY <1>1, <1>2

-----------------------------------------------------------------------------
LEMMA BoundedInit == AnchorsInit => Bounded
<1>1. <<>> \in Seq(Anchors)
  BY EmptySeq
<1>2. MaxMoves \in Nat
  BY AnchorsAssumption
<1> SUFFICES ASSUME AnchorsInit PROVE Bounded
  OBVIOUS
<1>3. open \in Tabs \cup (IF status = "ready" THEN {} ELSE {{}})
  BY DEF AnchorsInit
<1>4. navbar = (status = "ready")
  BY DEF AnchorsInit
<1>5. events \in 0..MaxMoves /\ moves \in 0..MaxMoves /\ events <= moves
  BY <1>2 DEF AnchorsInit
<1>6. activeTab \in Tabs \cup {{}}
  BY DEF AnchorsInit
<1> QED BY <1>1, <1>3, <1>4, <1>5, <1>6 DEF AnchorsInit, Bounded, AnchorsTypeOK

LEMMA BoundedStep == Bounded /\ [AnchorsNext]_anchorsVars => Bounded'
<1> SUFFICES ASSUME Bounded, [AnchorsNext]_anchorsVars PROVE Bounded'
  OBVIOUS
<1>0. MaxMoves \in Nat
  BY AnchorsAssumption
<1> USE <1>0 DEF Bounded, AnchorsTypeOK
<1>1. CASE Reload
  <2>1. <<>> \in Seq(Anchors)
    BY EmptySeq
  <2>2. open' \in Tabs \cup (IF status' = "ready" THEN {} ELSE {{}})
    BY <1>1 DEF Reload, Fresh
  <2>3. navbar' = (status' = "ready")
    BY <1>1 DEF Reload, Fresh
  <2>4. activeTab' \in Tabs \cup {{}}
    BY <1>1 DEF Reload
  <2>5. events' = 0 /\ moves' \in 0..MaxMoves
    BY <1>1 DEF Reload, Fresh
  <2>6. hash' \in Anchors \cup {NoAnchor} /\ timers' \in Seq(Anchors)
    BY <1>1, <2>1 DEF Reload, Fresh
  <2>7. /\ highlighted' = NoAnchor /\ scrolled' = NoAnchor /\ status' = "parsing"
        /\ active' = Sourcesets
        /\ strayed' = FALSE /\ refiltered' = FALSE /\ overtaken' = FALSE
    BY <1>1 DEF Reload, Fresh
  <2>8. events' \in 0..MaxMoves /\ events' <= moves'
    BY <2>5
  <2>9. active' \in SUBSET Sourcesets
    BY <2>7
  <2>10. AnchorsTypeOK'
    BY <2>2, <2>3, <2>4, <2>5, <2>6, <2>7, <2>8, <2>9
  <2> QED BY <2>5, <2>7, <2>8, <2>10
<1>2. CASE Listen
  BY <1>2 DEF Listen
<1>3. CASE Load
  <2>1. status' = "ready" /\ navbar' = TRUE /\ HandleAnchor(InitialTab, active')
        /\ active' \in SUBSET Sourcesets /\ strayed' = FALSE /\ refiltered' = FALSE
        /\ UNCHANGED <<hash, events, activeTab, moves, overtaken>>
    BY <1>3 DEF Load, LoadFilter
  <2>2. InitialTab \in Tabs
    BY InitialTabIsOne
  <2>3. open' \in Tabs /\ highlighted' = hash /\ timers' \in Seq(Anchors)
        /\ scrolled' \in Anchors \cup {NoAnchor}
    BY <2>1, <2>2, HandleAnchorResult, AppendProperties
  <2>4. /\ open' \in Tabs \cup (IF status' = "ready" THEN {} ELSE {{}})
        /\ navbar' = (status' = "ready")
    BY <2>1, <2>3
  <2> QED BY <2>1, <2>3, <2>4
<1>4. CASE LoadAborts
  BY <1>4 DEF LoadAborts
<1>5. ASSUME NEW a \in Anchors \cup {NoAnchor}, FollowLink(a) PROVE Bounded'
  BY <1>5 DEF FollowLink
<1>6. CASE HashChange
  <2>1. events > 0 /\ events' = events - 1 /\ strayed' = FALSE /\ refiltered' = FALSE
        /\ HandleAnchor(open, active)
        /\ UNCHANGED <<status, hash, navbar, active, activeTab, moves, overtaken>>
    BY <1>6 DEF HashChange
  <2>2. open \in Tabs \cup {{}}
    OBVIOUS
  <2>3. open' \in Tabs \cup {open} /\ highlighted' = hash /\ timers' \in Seq(Anchors)
        /\ scrolled' \in Anchors \cup {NoAnchor}
    BY <2>1, <2>2, HandleAnchorResult, AppendProperties
  <2>4. open' \in Tabs \cup (IF status' = "ready" THEN {} ELSE {{}})
    BY <2>1, <2>3
  <2>5. events' \in 0..MaxMoves /\ events' <= moves'
    BY <2>1
  <2>6. AnchorsTypeOK'
    BY <2>1, <2>3, <2>4, <2>5
  <2>7. status' # "parsing"
    BY <2>1
  <2> QED BY <2>5, <2>6, <2>7
<1>7. CASE Timer
  <2>1. Tail(timers) \in Seq(Anchors) /\ Head(timers) \in Anchors
    BY <1>7, HeadTailProperties DEF Timer
  <2> QED BY <1>7, <2>1 DEF Timer, Offset
<1>8. ASSUME NEW b \in Tabs, ChooseTab(b) PROVE Bounded'
  BY <1>8 DEF ChooseTab
<1>9. ASSUME NEW s \in Sourcesets, ClickFilter(s) PROVE Bounded'
  <2>1. active' \in SUBSET Sourcesets
    BY <1>9 DEF ClickFilter
  <2> QED BY <1>9, <2>1 DEF ClickFilter
<1>10. CASE UNCHANGED anchorsVars
  BY <1>10 DEF anchorsVars
<1> QED BY <1>1, <1>2, <1>3, <1>4, <1>5, <1>6, <1>7, <1>8, <1>9, <1>10 DEF AnchorsNext

LEMMA AllBounded == AnchorsSpec => []Bounded
  BY BoundedInit, BoundedStep, PTL DEF AnchorsSpec

\* The variables have their types, and an open page always shows a tab.
THEOREM AnchorsTypeCorrect == AnchorsSpec => []AnchorsTypeOK
<1>1. Bounded => AnchorsTypeOK
  BY DEF Bounded
<1> QED BY AllBounded, <1>1, PTL

-----------------------------------------------------------------------------
LEMMA HighlightStep ==
  ASSUME Bounded, HighlightFollowsHash, [AnchorsNext]_anchorsVars
  PROVE  HighlightFollowsHash'
<1> USE DEF HighlightFollowsHash
<1>1. CASE Load
  <2>1. HandleAnchor(InitialTab, active') /\ hash' = hash
    BY <1>1 DEF Load, LoadFilter
  <2> QED BY <2>1, InitialTabIsOne, HandleAnchorResult
<1>2. CASE HashChange
  <2>1. HandleAnchor(open, active) /\ hash' = hash /\ open \in Tabs \cup {{}}
    BY <1>2 DEF HashChange, Bounded, AnchorsTypeOK
  <2> QED BY <2>1, HandleAnchorResult
<1>3. ASSUME NEW a \in Anchors \cup {NoAnchor}, FollowLink(a) PROVE HighlightFollowsHash'
  BY <1>3 DEF FollowLink, Bounded, AnchorsTypeOK
<1>4. ASSUME ~Load, ~HashChange, \A a \in Anchors \cup {NoAnchor} : ~FollowLink(a)
      PROVE  HighlightFollowsHash'
  BY <1>4 DEF AnchorsNext, Reload, Fresh, Listen, LoadAborts, Timer, ChooseTab,
              ClickFilter, anchorsVars
<1> QED BY <1>1, <1>2, <1>3, <1>4

\* Once all hashchange events are handled, the row the URL names is highlighted
\* and no other, however links, reloads and events interleave.
THEOREM HighlightCorrect == AnchorsSpec => []HighlightFollowsHash
<1>1. AnchorsInit => HighlightFollowsHash
  BY DEF AnchorsInit, HighlightFollowsHash
<1>2. Bounded /\ HighlightFollowsHash /\ [AnchorsNext]_anchorsVars => HighlightFollowsHash'
  BY HighlightStep
<1> QED BY <1>1, <1>2, AllBounded, PTL DEF AnchorsSpec

-----------------------------------------------------------------------------
LEMMA TargetStep ==
  ASSUME Bounded, TargetInOpenTab, [AnchorsNext]_anchorsVars
  PROVE  TargetInOpenTab'
<1> USE DEF TargetInOpenTab
<1>1. CASE Load
  <2>1. HandleAnchor(InitialTab, active') /\ hash' = hash
    BY <1>1 DEF Load, LoadFilter
  <2> QED BY <2>1, InitialTabIsOne, HandleAnchorResult
<1>2. CASE HashChange
  <2>1. HandleAnchor(open, active) /\ hash' = hash /\ open \in Tabs \cup {{}}
    BY <1>2 DEF HashChange, Bounded, AnchorsTypeOK
  <2> QED BY <2>1, HandleAnchorResult
<1>3. ASSUME NEW a \in Anchors \cup {NoAnchor}, FollowLink(a) PROVE TargetInOpenTab'
  BY <1>3, AnchorsAssumption DEF FollowLink, Bounded, AnchorsTypeOK
<1>4. CASE Reload
  <2>1. highlighted' = NoAnchor /\ hash' = hash
    BY <1>4 DEF Reload, Fresh
  <2> QED BY <2>1, AnchorsAssumption
<1>5. ASSUME NEW b \in Tabs, ChooseTab(b) PROVE TargetInOpenTab'
  BY <1>5 DEF ChooseTab, Bounded, AnchorsTypeOK
<1>6. ASSUME ~Load, ~HashChange, ~Reload, \A b \in Tabs : ~ChooseTab(b),
             \A a \in Anchors \cup {NoAnchor} : ~FollowLink(a)
      PROVE  TargetInOpenTab'
  BY <1>6 DEF AnchorsNext, Listen, LoadAborts, Timer, ClickFilter, anchorsVars
<1> QED BY <1>1, <1>2, <1>3, <1>4, <1>5, <1>6

\* A highlighted row that the URL names is in the open tab, whichever tab was
\* stored and whether or not the load handler failed, unless the reader chose
\* another since.
THEOREM TargetCorrect == AnchorsSpec => []TargetInOpenTab
<1>1. AnchorsInit => TargetInOpenTab
  BY AnchorsAssumption DEF AnchorsInit, TargetInOpenTab
<1>2. Bounded /\ TargetInOpenTab /\ [AnchorsNext]_anchorsVars => TargetInOpenTab'
  BY TargetStep
<1> QED BY <1>1, <1>2, AllBounded, PTL DEF AnchorsSpec

-----------------------------------------------------------------------------
LEMMA CurrentStep ==
  ASSUME Bounded, Current, [AnchorsNext]_anchorsVars
  PROVE  Current'
<1> USE DEF Current
<1>0. timers \in Seq(Anchors)
  BY DEF Bounded, AnchorsTypeOK
<1>1. ASSUME NEW o \in Tabs \cup {{}}, NEW A, HandleAnchor(o, A),
             UNCHANGED <<hash, overtaken>>
      PROVE  Current'
  <2>1. CASE timers' = timers
    BY <1>1, <2>1
  <2>2. CASE hash \in Anchors /\ timers' = Append(timers, hash)
    BY <1>0, <1>1, <2>2, AppendProperties
  <2> QED BY <1>1, <2>1, <2>2, HandleAnchorResult
<1>2. CASE Load
  BY <1>1, <1>2, InitialTabIsOne DEF Load, LoadFilter
<1>3. CASE HashChange
  BY <1>1, <1>3 DEF HashChange, Bounded, AnchorsTypeOK
<1>4. ASSUME NEW a \in Anchors \cup {NoAnchor}, FollowLink(a) PROVE Current'
  <2>1. timers' = timers /\ (~overtaken' => timers = <<>>)
    BY <1>4 DEF FollowLink
  <2>2. Len(<<>>) = 0
    BY EmptySeq
  <2> QED BY <2>1, <2>2
<1>5. CASE Timer
  <2>1. timers # <<>> /\ timers' = Tail(timers) /\ UNCHANGED <<hash, overtaken>>
    BY <1>5 DEF Timer
  <2>2. /\ Len(timers') = Len(timers) - 1
        /\ \A i \in 1..Len(timers') : timers'[i] = timers[i + 1]
    BY <1>0, <2>1, HeadTailProperties
  <2>3. Len(timers) \in Nat
    BY <1>0, LenProperties
  <2> QED BY <2>1, <2>2, <2>3
<1>6. CASE Reload
  <2>1. timers' = <<>>
    BY <1>6 DEF Reload, Fresh
  <2> QED BY <2>1, EmptySeq
<1>7. ASSUME ~Load, ~HashChange, ~Timer, ~Reload,
             \A a \in Anchors \cup {NoAnchor} : ~FollowLink(a)
      PROVE  Current'
  BY <1>7 DEF AnchorsNext, Listen, LoadAborts, ChooseTab, ClickFilter, anchorsVars
<1> QED BY <1>2, <1>3, <1>4, <1>5, <1>6, <1>7

LEMMA SettledStep ==
  ASSUME Bounded, Current, HighlightFollowsHash, TargetInOpenTab, SettledUnlessOvertaken,
         [AnchorsNext]_anchorsVars
  PROVE  SettledUnlessOvertaken'
<1> USE DEF SettledUnlessOvertaken, SettledAtHash, Settled, Place
<1>1. CASE Load
  <2>1. HandleAnchor(InitialTab, active') /\ hash' = hash /\ ~navbar
    BY <1>1 DEF Load, LoadFilter, Bounded, AnchorsTypeOK
  <2> QED BY <2>1, InitialTabIsOne, HandleAnchorResult
<1>2. CASE HashChange
  <2>1. HandleAnchor(open, active) /\ UNCHANGED <<hash, status, active>> /\ open \in Tabs \cup {{}}
    BY <1>2 DEF HashChange, Bounded, AnchorsTypeOK
  <2>2. status = "ready" => navbar
    BY DEF Bounded, AnchorsTypeOK
  <2> QED BY <2>1, <2>2, HandleAnchorResult
<1>3. ASSUME NEW a \in Anchors \cup {NoAnchor}, FollowLink(a)
      PROVE  SettledUnlessOvertaken'
  BY <1>3 DEF FollowLink, Bounded, AnchorsTypeOK
<1>4. CASE Timer
  <2> SUFFICES ASSUME ~overtaken', Settled', hash' \in OwnToggle
                    PROVE  scrolled' = Place(hash, active)
    BY <1>4 DEF Timer
  <2>1. ~overtaken /\ status = "ready" /\ events = 0 /\ ~strayed /\ hash \in OwnToggle
        /\ timers # <<>> /\ hash' = hash /\ active' = active
    BY <1>4 DEF Timer
  <2>2. Head(timers) = hash
    <3>1. Head(timers) = timers[1] /\ 1 \in 1..Len(timers)
      BY <2>1, EmptySeq, HeadTailProperties, LenProperties DEF Bounded, AnchorsTypeOK
    <3> QED BY <2>1, <3>1 DEF Current
  <2>3. Kind[hash] \in open /\ navbar
    BY <2>1, TargetInOpenTab, HighlightFollowsHash
       DEF TargetInOpenTab, HighlightFollowsHash, Bounded, AnchorsTypeOK
  <2> QED BY <1>4, <2>1, <2>2, <2>3 DEF Timer, Offset
<1>5. ASSUME ~Load, ~HashChange, ~Timer, \A a \in Anchors \cup {NoAnchor} : ~FollowLink(a)
      PROVE  SettledUnlessOvertaken'
  BY <1>5 DEF AnchorsNext, Reload, Fresh, Listen, LoadAborts, ChooseTab, ClickFilter, anchorsVars
<1> QED BY <1>1, <1>2, <1>3, <1>4, <1>5

\* Once nothing is left to happen the page is at the row the URL names, or at its
\* top if that row is filtered, unless a link was followed while a timer ran for
\* an earlier one.
THEOREM SettledCorrect == AnchorsSpec => []SettledUnlessOvertaken
<1>1. AnchorsInit => Current /\ SettledUnlessOvertaken
  BY EmptySeq DEF AnchorsInit, Current, SettledUnlessOvertaken, SettledAtHash, Settled
<1>2. Bounded /\ Current /\ [AnchorsNext]_anchorsVars => Current'
  BY CurrentStep
<1>3. Bounded /\ Current /\ HighlightFollowsHash /\ TargetInOpenTab /\ SettledUnlessOvertaken
        /\ [AnchorsNext]_anchorsVars => SettledUnlessOvertaken'
  BY SettledStep
<1> QED BY <1>1, <1>2, <1>3, AllBounded, HighlightCorrect, TargetCorrect,
       PTL DEF AnchorsSpec
=============================================================================
