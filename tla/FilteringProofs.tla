--------------------------- MODULE FilteringProofs ---------------------------
(* What holds of Filtering for any windows, pages, source sets and             *)
(* dependencies, in one process or several.                                    *)
EXTENDS Filtering, TLAPS

ClickStep(w, s) ==
  FilterSourceset(w, s) \/ UnfilterFirst(w, s) \/ UnfilterNext(w, s)

\* What is shown with a source set has a button on the page.
LEMMA TogetherHasButtons ==
  ASSUME NEW w \in Windows, NEW s \in Buttons[page[w]]
  PROVE  Together(w, s) \subseteq Buttons[page[w]] /\ s \in Together(w, s)
BY DEF Together

\* The variables keep their types, and a page has a button for every source set it
\* shows.
THEOREM FilteringTypeCorrect == FilteringSpec => []FilteringTypeOK
<1>1. FilteringInit => FilteringTypeOK
  BY FilteringAssumption DEF FilteringInit, FilteringTypeOK
<1>2. FilteringTypeOK /\ [FilteringNext]_vars => FilteringTypeOK'
  <2> SUFFICES ASSUME FilteringTypeOK, [FilteringNext]_vars PROVE FilteringTypeOK'
    OBVIOUS
  <2> USE FilteringAssumption DEF Idle, Rivals
  <2>1. ASSUME NEW w \in Windows, NEW p \in Pages, Load(w, p) PROVE FilteringTypeOK'
    BY <2>1 DEF Load, Open, handler, FilteringTypeOK
  <2>2. ASSUME NEW w \in Windows, NEW p \in Pages, LoadAborts(w, p) PROVE FilteringTypeOK'
    BY <2>2 DEF LoadAborts, Open, handler, FilteringTypeOK
  <2>3. ASSUME NEW w \in Windows, NEW s \in SourceSets, FilterSourceset(w, s)
        PROVE FilteringTypeOK'
    BY <2>3 DEF FilterSourceset, Click, Refresh, FilteringTypeOK
  <2>4. ASSUME NEW w \in Windows, NEW s \in SourceSets, UnfilterFirst(w, s)
        PROVE FilteringTypeOK'
    <3>1. page[w] \in Pages /\ s \in Buttons[page[w]]
      BY <2>4 DEF UnfilterFirst, Click, FilteringTypeOK
    <3>2. Together(w, s) \subseteq Buttons[page[w]] /\ Together(w, s) \subseteq SourceSets
      BY <3>1, TogetherHasButtons
    <3>3. /\ raced' \subseteq raced \cup Rivals(w) \cup {w}
          /\ removing' = [removing EXCEPT ![w] = Together(w, s)] /\ adding' = adding
      BY <2>4 DEF UnfilterFirst, Click
    <3>4. ~Idle(w)' /\ \A v \in Windows \ {w} : Idle(v)' <=> Idle(v)
      BY <3>1, <3>3, TogetherHasButtons DEF FilteringTypeOK
    <3>5. raced' \in SUBSET Windows /\ \A v \in raced' : ~Idle(v)'
      BY <3>3, <3>4 DEF FilteringTypeOK
    <3> HIDE DEF Idle, Rivals
    <3> QED BY <2>4, <3>1, <3>2, <3>5 DEF UnfilterFirst, Click, Refresh, FilteringTypeOK
  <2>5. ASSUME NEW w \in Windows, NEW s \in SourceSets, UnfilterNext(w, s)
        PROVE FilteringTypeOK'
    BY <2>5 DEF UnfilterNext, Click, Refresh, FilteringTypeOK
  <2>6. ASSUME NEW w \in Windows, ReadCache(w) PROVE FilteringTypeOK'
    BY <2>6 DEF ReadCache, shown, FilteringTypeOK
  <2>7. ASSUME NEW w \in Windows, WriteCache(w) PROVE FilteringTypeOK'
    BY <2>7 DEF WriteCache, shown, FilteringTypeOK
  <2>8. CASE UNCHANGED vars
    BY <2>8 DEF vars, shown, handler, FilteringTypeOK
  <2> QED BY <2>1, <2>2, <2>3, <2>4, <2>5, <2>6, <2>7, <2>8 DEF FilteringNext
<1> QED BY <1>1, <1>2, PTL DEF FilteringSpec

-----------------------------------------------------------------------------
\* A page whose load handler failed has no active filters, so a click on it does
\* nothing. Without this MessageInPlace is not inductive.
Placed ==
  /\ MessageInPlace
  /\ \A w \in Windows : w \notin loaded => active[w] = {}

LEMMA AllPlaced == FilteringSpec => []Placed
<1>1. FilteringInit => Placed
  BY DEF FilteringInit, Placed, MessageInPlace
<1>2. FilteringTypeOK /\ Placed /\ [FilteringNext]_vars => Placed'
  <2> SUFFICES ASSUME FilteringTypeOK, Placed, [FilteringNext]_vars PROVE Placed'
    OBVIOUS
  <2> USE DEF Placed, MessageInPlace
  <2>1. ASSUME NEW w \in Windows, NEW p \in Pages, Load(w, p) PROVE Placed'
    BY <2>1 DEF Load, Open, FilteringTypeOK
  <2>2. ASSUME NEW w \in Windows, NEW p \in Pages, LoadAborts(w, p) PROVE Placed'
    BY <2>2 DEF LoadAborts, Open, FilteringTypeOK
  <2>3. ASSUME NEW w \in Windows, NEW s \in SourceSets, ClickStep(w, s) PROVE Placed'
    <3>1. w \in loaded
      BY <2>3 DEF ClickStep, FilterSourceset, UnfilterFirst, UnfilterNext, HasEntry
    <3>2. loaded' = loaded
      BY <2>3 DEF ClickStep, FilterSourceset, UnfilterFirst, UnfilterNext, Click
    <3>3. CASE FilterSourceset(w, s)
      BY <3>1, <3>2, <3>3 DEF FilterSourceset, Refresh, FilteringTypeOK
    <3>4. CASE UnfilterFirst(w, s)
      <4>1. Together(w, s) # {}
        BY DEF Together
      <4> QED BY <3>1, <3>2, <3>4, <4>1 DEF UnfilterFirst, Refresh, FilteringTypeOK
    <3>5. CASE UnfilterNext(w, s)
      BY <3>1, <3>2, <3>5 DEF UnfilterNext, Refresh, FilteringTypeOK
    <3> QED BY <2>3, <3>3, <3>4, <3>5 DEF ClickStep
  <2>4. ASSUME NEW w \in Windows, ReadCache(w) \/ WriteCache(w) PROVE Placed'
    BY <2>4 DEF ReadCache, WriteCache, shown
  <2>5. CASE UNCHANGED vars
    BY <2>5 DEF vars, shown
  <2> QED BY <2>1, <2>2, <2>3, <2>4, <2>5 DEF FilteringNext, ClickStep
<1> QED BY <1>1, <1>2, FilteringTypeCorrect, PTL DEF FilteringSpec

\* The message stands for the documentation exactly where every source set is
\* filtered, and there is one of it.
THEOREM MessageCorrect == FilteringSpec => []MessageInPlace
<1>1. Placed => MessageInPlace
  BY DEF Placed
<1> QED BY <1>1, AllPlaced, PTL

-----------------------------------------------------------------------------
\* What the handler of w is about to make of the item.
Meant(w) == (inactive \cup adding[w]) \ removing[w]

\* A handler adds or removes, and has read the item only if it has something left
\* to write.
Busy ==
  /\ \A w \in Windows : adding[w] = {} \/ removing[w] = {}
  /\ \A w \in copied : ~Idle(w)

\* The invariant behind ReloadShowsSame: what a window shows is what its handler
\* is about to make of the item, and what it has read of it is still there.
Agrees(w) ==
  /\ w \in loaded => active[w] = Buttons[page[w]] \ Meant(w)
  /\ w \in copied => copy[w] = inactive

LEMMA BusyStep ==
  ASSUME FilteringTypeOK, Busy, [FilteringNext]_vars
  PROVE  Busy'
<1> USE DEF Busy, Idle
<1>1. ASSUME NEW w \in Windows, NEW p \in Pages, Load(w, p) \/ LoadAborts(w, p)
      PROVE  Busy'
  BY <1>1 DEF Load, LoadAborts, Open, handler
<1>2. ASSUME NEW w \in Windows, NEW s \in SourceSets, ClickStep(w, s) PROVE Busy'
  <2>1. /\ copied' = copied /\ adding[w] = {} /\ removing[w] = {} /\ w \notin copied
    BY <1>2 DEF ClickStep, FilterSourceset, UnfilterFirst, UnfilterNext, Click
  <2>2. \/ adding' = adding /\ \E S : removing' = [removing EXCEPT ![w] = S]
        \/ removing' = removing /\ \E S : adding' = [adding EXCEPT ![w] = S]
    BY <1>2 DEF ClickStep, FilterSourceset, UnfilterFirst, UnfilterNext
  <2> QED BY <2>1, <2>2 DEF FilteringTypeOK
<1>3. ASSUME NEW w \in Windows, ReadCache(w) PROVE Busy'
  BY <1>3 DEF ReadCache
<1>4. ASSUME NEW w \in Windows, WriteCache(w) PROVE Busy'
  BY <1>4 DEF WriteCache, FilteringTypeOK
<1>5. CASE UNCHANGED vars
  BY <1>5 DEF vars, handler
<1> QED BY <1>1, <1>2, <1>3, <1>4, <1>5 DEF FilteringNext, ClickStep

\* Writing one of the source sets a handler has left, from an up-to-date copy,
\* does not change what it is about to make of the item.
LEMMA WriteMeans ==
  ASSUME FilteringTypeOK, Busy, NEW w \in Windows, WriteCache(w), copy[w] = inactive
  PROVE  Meant(w)' = Meant(w)
<1>1. ASSUME NEW s \in adding[w], inactive' = copy[w] \cup {s},
             adding' = [adding EXCEPT ![w] = @ \ {s}], removing' = removing
      PROVE  Meant(w)' = Meant(w)
  BY <1>1 DEF Meant, FilteringTypeOK
<1>2. ASSUME NEW s \in removing[w], inactive' = copy[w] \ {s},
             removing' = [removing EXCEPT ![w] = @ \ {s}], adding' = adding
      PROVE  Meant(w)' = Meant(w)
  BY <1>2 DEF Meant, FilteringTypeOK, Busy
<1> QED BY <1>1, <1>2 DEF WriteCache

\* A click of w changes its window and what it is about to make of the item alike.
LEMMA ClickAgrees ==
  ASSUME FilteringTypeOK, NEW w \in Windows, NEW s \in SourceSets, ClickStep(w, s),
         w \in loaded, Agrees(w), w \notin copied
  PROVE  Agrees(w)'
<1> USE FilteringAssumption
<1>1. /\ page' = page /\ loaded' = loaded /\ copied' = copied /\ inactive' = inactive
      /\ s \in Buttons[page[w]] /\ page[w] \in Pages
      /\ adding[w] = {} /\ removing[w] = {}
  BY DEF ClickStep, FilterSourceset, UnfilterFirst, UnfilterNext, Click, Idle, FilteringTypeOK
<1>2. active[w] = Buttons[page[w]] \ inactive
  BY <1>1 DEF Agrees, Meant
<1>3. CASE FilterSourceset(w, s)
  BY <1>1, <1>2, <1>3 DEF FilterSourceset, Refresh, Agrees, Meant, FilteringTypeOK
<1>4. CASE UnfilterFirst(w, s)
  <2>1. Together(w, s) \subseteq Buttons[page[w]]
    BY <1>1, TogetherHasButtons
  <2> QED BY <1>1, <1>2, <1>4, <2>1 DEF UnfilterFirst, Refresh, Agrees, Meant, FilteringTypeOK
<1>5. CASE UnfilterNext(w, s)
  BY <1>1, <1>2, <1>5 DEF UnfilterNext, Refresh, Agrees, Meant, FilteringTypeOK
<1> QED BY <1>3, <1>4, <1>5 DEF ClickStep

\* What a window shows is what the item says, as long as no other has written it.
THEOREM ReloadCorrect == FilteringSpec => []ReloadShowsSame
<1> DEFINE Agreed == \A w \in undisturbed : Agrees(w)
<1>1. FilteringInit => Busy /\ Agreed
  BY DEF FilteringInit, Busy
<1>2. FilteringTypeOK /\ Busy /\ Placed /\ Agreed /\ [FilteringNext]_vars => Busy' /\ Agreed'
  <2> SUFFICES ASSUME FilteringTypeOK, Busy, Placed, Agreed, [FilteringNext]_vars,
                      NEW v \in undisturbed'
               PROVE  Agrees(v)'
    BY BusyStep
  <2> USE DEF Agrees
  <2>0. undisturbed \subseteq Windows
    BY DEF FilteringTypeOK
  <2>1. ASSUME NEW w \in Windows, NEW p \in Pages, Load(w, p) \/ LoadAborts(w, p)
        PROVE  Agrees(v)'
    <3>1. Idle(w) /\ w \notin copied /\ UNCHANGED <<inactive, handler>>
      BY <2>1 DEF Load, LoadAborts, Open, Busy
    <3>2. CASE v = w
      BY <2>1, <3>1, <3>2 DEF Load, LoadAborts, Open, handler, Idle, Meant, FilteringTypeOK
    <3>3. CASE v # w
      BY <2>0, <2>1, <3>1, <3>3 DEF Load, LoadAborts, Open, handler, Meant, FilteringTypeOK
    <3> QED BY <3>2, <3>3
  <2>2. ASSUME NEW w \in Windows, NEW s \in SourceSets, ClickStep(w, s)
        PROVE  Agrees(v)'
    <3>1. v \in undisturbed /\ Idle(w) /\ w \notin copied
      BY <2>2 DEF ClickStep, FilterSourceset, UnfilterFirst, UnfilterNext, Click, Busy
    <3>2. w \in loaded
      BY <2>2 DEF ClickStep, FilterSourceset, UnfilterFirst, UnfilterNext, HasEntry, Placed
    <3>3. CASE v = w
      BY <2>2, <3>1, <3>2, <3>3, ClickAgrees
    <3>4. CASE v # w
      <4>1. /\ UNCHANGED <<page, loaded, copied, copy, inactive>>
            /\ active'[v] = active[v] /\ adding'[v] = adding[v] /\ removing'[v] = removing[v]
        BY <2>0, <2>2, <3>1, <3>4 DEF ClickStep, FilterSourceset, UnfilterFirst, UnfilterNext,
           Click, Refresh, FilteringTypeOK
      <4> QED BY <3>1, <4>1 DEF Meant
    <3> QED BY <3>3, <3>4
  <2>3. ASSUME NEW w \in Windows, ReadCache(w) PROVE Agrees(v)'
    BY <2>0, <2>3 DEF ReadCache, shown, Meant, FilteringTypeOK
  <2>4. ASSUME NEW w \in Windows, WriteCache(w) PROVE Agrees(v)'
    <3>1. v = w /\ v \in undisturbed /\ w \in copied /\ w \notin copied' /\ UNCHANGED shown
      BY <2>4 DEF WriteCache
    <3>2. Meant(w)' = Meant(w)
      BY <2>4, <3>1, WriteMeans
    <3> QED BY <3>1, <3>2 DEF shown
  <2>5. CASE UNCHANGED vars
    BY <2>5 DEF vars, shown, handler, Meant
  <2> QED BY <2>1, <2>2, <2>3, <2>4, <2>5 DEF FilteringNext, ClickStep
<1>3. Agreed => ReloadShowsSame
  BY DEF Agrees, Meant, Idle, ReloadShowsSame
<1> QED BY <1>1, <1>2, <1>3, AllPlaced, FilteringTypeCorrect, PTL DEF FilteringSpec
-----------------------------------------------------------------------------
\* Handlers that run at the same time are known to, they do not in one process,
\* and for any other the item is as it has read it.
Apart ==
  /\ \A v, w \in Windows : ~Idle(v) /\ ~Idle(w) => v = w \/ v \in raced
  /\ \A w \in copied \ raced : copy[w] = inactive
  /\ oneProcess => raced = {}

\* Where no other handler is busy, what is intended is what this one means.
LEMMA IntendedIsMeant ==
  ASSUME NEW w \in Windows, \A v \in Windows \ {w} : Idle(v)
  PROVE  Intended = Meant(w)
<1>1. UNION {adding[v] : v \in Windows} = adding[w]
  BY DEF Idle
<1>2. UNION {removing[v] : v \in Windows} = removing[w]
  BY DEF Idle
<1> QED BY <1>1, <1>2 DEF Intended, Meant

LEMMA ApartStep ==
  ASSUME FilteringTypeOK, Busy, Apart, [FilteringNext]_vars
  PROVE  Apart'
<1> USE DEF Apart
<1>0. copied \subseteq Windows
  BY DEF FilteringTypeOK
<1>1. ASSUME NEW w \in Windows, NEW p \in Pages, Load(w, p) \/ LoadAborts(w, p)
      PROVE  Apart'
  BY <1>1 DEF Load, LoadAborts, Open, Turn, handler, Idle
<1>2. ASSUME NEW w \in Windows, NEW s \in SourceSets, ClickStep(w, s) PROVE Apart'
  <2>1. /\ UNCHANGED <<copied, copy, inactive, oneProcess>>
        /\ Idle(w) /\ (oneProcess => Rivals(w) = {})
        /\ raced' = raced \cup IF Rivals(w) = {} THEN {} ELSE Rivals(w) \cup {w}
    BY <1>2 DEF ClickStep, FilterSourceset, UnfilterFirst, UnfilterNext, Click, Turn
  <2>2. \A v \in Windows \ {w} : Idle(v)' <=> Idle(v)
    BY <1>2 DEF ClickStep, FilterSourceset, UnfilterFirst, UnfilterNext, Idle, FilteringTypeOK
  <2>3. \A v \in Windows \ {w} : ~Idle(v) => v \in raced' /\ w \in raced'
    BY <2>1 DEF Rivals
  <2>4. \A v, x \in Windows : ~Idle(v)' /\ ~Idle(x)' => v = x \/ v \in raced'
    BY <2>1, <2>2, <2>3
  <2> QED BY <2>1, <2>4
<1>3. ASSUME NEW w \in Windows, ReadCache(w) PROVE Apart'
  BY <1>0, <1>3 DEF ReadCache, Idle, FilteringTypeOK
<1>4. ASSUME NEW w \in Windows, WriteCache(w) PROVE Apart'
  <2>1. /\ w \in copied /\ copied' = copied \ {w} /\ ~Idle(w)
        /\ oneProcess' = oneProcess /\ copy' = copy
        /\ raced' = raced \/ (Idle(w)' /\ raced' = raced \ {w})
    BY <1>4 DEF WriteCache, Busy, Idle
  <2>2. \A v \in Windows \ {w} : Idle(v)' <=> Idle(v)
    BY <1>4 DEF WriteCache, Idle, FilteringTypeOK
  <2>3. \A v, x \in Windows : ~Idle(v)' /\ ~Idle(x)' => v = x \/ v \in raced'
    BY <2>1, <2>2
  <2>4. copied' \subseteq raced'
    BY <1>0, <2>1 DEF Busy
  <2> QED BY <2>1, <2>3, <2>4
<1>5. CASE UNCHANGED vars
  BY <1>5 DEF vars, handler, Idle
<1> QED BY <1>1, <1>2, <1>3, <1>4, <1>5 DEF FilteringNext, ClickStep

\* A step that meets no other handler is one of SharedChoice or leaves its
\* variables alone. A click changes the choice as a whole; the reads and writes
\* that follow do not.
LEMMA ChoiceStep ==
  ASSUME raced = {}, raced' = {}, FilteringTypeOK, Busy, Apart, [FilteringNext]_vars
  PROVE  [Choice!ChoiceNext]_<<Intended, page, active>>
<1> USE FilteringAssumption
<1>1. ASSUME NEW w \in Windows, NEW p \in Pages, Load(w, p) \/ LoadAborts(w, p)
      PROVE  Choice!OpenPage(w, p) \/ Choice!OpenUnfiltered(w, p)
  <2>1. /\ UNCHANGED <<inactive, handler>> /\ page' = [page EXCEPT ![w] = p]
        /\ Idle(w) /\ \A v \in Windows \ {w} : Idle(v)
    BY <1>1 DEF Load, LoadAborts, Open, Rivals
  <2>2. Intended' = Intended
    BY <2>1 DEF Intended, handler
  <2>3. Intended = inactive
    BY <2>1, IntendedIsMeant DEF Meant, Idle
  <2> QED BY <1>1, <2>1, <2>2, <2>3 DEF Load, LoadAborts, Choice!OpenPage, Choice!OpenUnfiltered
<1>2. ASSUME NEW w \in Windows, NEW s \in SourceSets, ClickStep(w, s)
      PROVE  Choice!Hide(w, s) \/ \E S \in SUBSET SourceSets : Choice!Show(w, S)
  <2>1. /\ UNCHANGED <<inactive, page>> /\ s \in Buttons[page[w]] /\ page[w] \in Pages
        /\ \A v \in Windows : Idle(v)
    BY <1>2 DEF ClickStep, FilterSourceset, UnfilterFirst, UnfilterNext, Click, Rivals,
       FilteringTypeOK
  <2>2. \A v \in Windows \ {w} : Idle(v)'
    BY <1>2, <2>1 DEF ClickStep, FilterSourceset, UnfilterFirst, UnfilterNext, Idle,
       FilteringTypeOK
  <2>3. Intended = inactive
    <3>1. Intended = Meant(w)
      BY <2>1, IntendedIsMeant
    <3>2. adding[w] = {} /\ removing[w] = {}
      BY <2>1 DEF Idle
    <3> QED BY <3>1, <3>2 DEF Meant
  <2>4. Intended' = Meant(w)'
    <3>1. UNION {adding'[v] : v \in Windows} = adding'[w]
      BY <2>2 DEF Idle
    <3>2. UNION {removing'[v] : v \in Windows} = removing'[w]
      BY <2>2 DEF Idle
    <3> QED BY <3>1, <3>2 DEF Intended, Meant
  <2>5. adding[w] = {} /\ removing[w] = {}
    BY <2>1 DEF Idle
  <2>6. CASE FilterSourceset(w, s)
    <3>1. Intended' = Intended \cup {s}
      BY <2>1, <2>3, <2>4, <2>5, <2>6 DEF FilterSourceset, Meant, FilteringTypeOK
    <3> QED BY <2>1, <2>6, <3>1 DEF FilterSourceset, Refresh, Choice!Hide, FilteringTypeOK
  <2>7. CASE UnfilterFirst(w, s)
    <3> DEFINE S == Together(w, s)
    <3>1. S \subseteq Buttons[page[w]] /\ s \in S
      BY <2>1, TogetherHasButtons
    <3> HIDE DEF S
    <3>2. Intended' = Intended \ S
      BY <2>1, <2>3, <2>4, <2>5, <2>7 DEF UnfilterFirst, Meant, FilteringTypeOK, S
    <3>3. Choice!Show(w, S)
      BY <2>1, <2>7, <3>1, <3>2 DEF UnfilterFirst, Refresh, Choice!Show, FilteringTypeOK, S
    <3>4. S \in SUBSET SourceSets
      BY <2>1, <3>1
    <3> QED BY <3>3, <3>4
  <2>8. CASE UnfilterNext(w, s)
    <3>1. Intended' = Intended \ {s}
      BY <2>1, <2>3, <2>4, <2>5, <2>8 DEF UnfilterNext, Meant, FilteringTypeOK
    <3>2. Choice!Show(w, {s})
      BY <2>1, <2>8, <3>1 DEF UnfilterNext, Refresh, Choice!Show, FilteringTypeOK
    <3> QED BY <3>2
  <2> QED BY <1>2, <2>6, <2>7, <2>8 DEF ClickStep
<1>3. ASSUME NEW w \in Windows, ReadCache(w) PROVE UNCHANGED <<Intended, page, active>>
  BY <1>3 DEF ReadCache, shown, Intended
<1>4. ASSUME NEW w \in Windows, WriteCache(w) PROVE UNCHANGED <<Intended, page, active>>
  <2>1. copy[w] = inactive /\ ~Idle(w) /\ UNCHANGED <<page, active>>
    BY <1>4 DEF WriteCache, shown, Apart, Busy
  <2>2. Meant(w)' = Meant(w)
    BY <1>4, <2>1, WriteMeans
  <2>3. \A v \in Windows \ {w} : Idle(v)
    BY <2>1 DEF Apart
  <2>4. \A v \in Windows \ {w} : adding'[v] = {} /\ removing'[v] = {}
    BY <1>4, <2>3 DEF WriteCache, Idle, FilteringTypeOK
  <2>5. Intended' = Meant(w)'
    <3>1. UNION {adding'[v] : v \in Windows} = adding'[w]
      BY <2>4
    <3>2. UNION {removing'[v] : v \in Windows} = removing'[w]
      BY <2>4
    <3> QED BY <3>1, <3>2 DEF Intended, Meant
  <2> QED BY <2>1, <2>2, <2>3, <2>5, IntendedIsMeant
<1>5. CASE UNCHANGED vars
  BY <1>5 DEF vars, shown, handler, Intended
<1>6. CASE \E w \in Windows : \E p \in Pages : Load(w, p) \/ LoadAborts(w, p)
  BY <1>1, <1>6 DEF Choice!ChoiceNext
<1>7. CASE \E w \in Windows : \E s \in SourceSets : ClickStep(w, s)
  BY <1>2, <1>7 DEF Choice!ChoiceNext
<1> QED BY <1>3, <1>4, <1>5, <1>6, <1>7 DEF FilteringNext, ClickStep

\* The windows share one choice, except where handlers of two windows run at the
\* same time: Filtering implements SharedChoice.
THEOREM ChoiceShared == FilteringSpec => SharesChoice
<1> DEFINE Inv == Busy /\ Apart
           Shared == oneProcess \/ (raced = {} /\ raced' = {}) => Choice!ChoiceNext
<1>1. FilteringInit => Choice!ChoiceInit /\ Inv
  <2> SUFFICES ASSUME FilteringInit PROVE Choice!ChoiceInit /\ Busy /\ Apart
    OBVIOUS
  <2>1. \A w \in Windows : Idle(w)
    BY DEF FilteringInit, Idle
  <2>2. Intended = {}
    BY DEF FilteringInit, Intended
  <2> QED BY <2>1, <2>2, FilteringAssumption
        DEF FilteringInit, Choice!ChoiceInit, Busy, Apart
<1>2. FilteringTypeOK /\ Inv /\ [FilteringNext]_vars => Inv' /\ [Shared]_<<Intended, page, active>>
  <2> SUFFICES ASSUME FilteringTypeOK, Inv, [FilteringNext]_vars
               PROVE  Inv' /\ [Shared]_<<Intended, page, active>>
    OBVIOUS
  <2>1. Inv'
    BY BusyStep, ApartStep
  <2>2. oneProcess' = oneProcess
    BY DEF FilteringNext, Load, LoadAborts, Open, FilterSourceset, UnfilterFirst, UnfilterNext,
       Click, ReadCache, WriteCache, vars
  <2>3. oneProcess => raced = {} /\ raced' = {}
    BY <2>1, <2>2 DEF Apart
  <2>4. ASSUME raced = {}, raced' = {} PROVE [Choice!ChoiceNext]_<<Intended, page, active>>
    BY <2>4, ChoiceStep
  <2> QED BY <2>1, <2>3, <2>4
<1> HIDE DEF Inv
<1> QED BY <1>1, <1>2, FilteringTypeCorrect, PTL DEF FilteringSpec, SharesChoice

-----------------------------------------------------------------------------
\* Every source set with a button somewhere has an entry in sourceset_dependencies.
EntriesComplete == \A p \in Pages : Buttons[p] \subseteq DOMAIN Dependencies

\* The missing entry is all that keeps the message from being true: on a site
\* with an entry for every button it helps to click wherever it is shown.
THEOREM MessageHelpsCorrect ==
  ASSUME EntriesComplete
  PROVE  FilteringSpec => []MessageHelps
<1>1. FilteringTypeOK /\ Placed => MessageHelps
  <2> SUFFICES ASSUME FilteringTypeOK, Placed, NEW w \in noticed, NEW s \in Buttons[page[w]]
               PROVE  s \in AfterClick(w, s)
    BY DEF MessageHelps
  <2>1. w \in loaded /\ active[w] = {}
    BY DEF Placed, MessageInPlace, FilteringTypeOK
  <2>2. page[w] \in Pages
    BY <2>1 DEF FilteringTypeOK
  <2>3. HasEntry(w, s)
    BY <2>1, <2>2 DEF HasEntry, EntriesComplete
  <2>4. AfterClick(w, s) = Together(w, s)
    BY <2>1, <2>3 DEF AfterClick
  <2> QED BY <2>4 DEF Together
<1> QED BY <1>1, FilteringTypeCorrect, AllPlaced, PTL

=============================================================================
