----------------------------- MODULE PageProofs -----------------------------
(* What the smaller scripts of the documentation site promise, for any number  *)
(* of icons, clicks and windows.                                               *)
EXTENDS Clipboard, Appearance, TLAPS

\* An icon has no more timers than there were clicks.
TimersCounted == ClipboardTypeOK /\ \A i \in Icons : popupTimers[i] <= clicks

\* A popup that is shown has a timer that will take it away.
PopupTimed == \A i \in popups : popupTimers[i] > 0

LEMMA ClickCounts ==
  ASSUME TimersCounted, NEW i \in Icons, NEW outcome \in {"copied", "refused", "throws"},
         Click(i, outcome)
  PROVE  TimersCounted'
<1> USE ClipboardAssumption DEF TimersCounted, ClipboardTypeOK
<1>1. clicks \in Nat /\ clicks < MaxClicks /\ clicks' = clicks + 1 /\ clicks' \in 0..MaxClicks
  BY DEF Click
<1>2. textareas' = 0 /\ clipboard' \in Icons \cup {Nothing}
  BY DEF Click, CleanUp
<1>3. CASE outcome = "throws"
  <2>1. popups' = popups /\ popupTimers' = popupTimers
    BY <1>3 DEF Click, Popup
  <2> QED BY <1>1, <1>2, <2>1
<1>4. CASE outcome # "throws"
  <2>1. popups' = popups \cup {i} /\ popupTimers' = [popupTimers EXCEPT ![i] = @ + 1]
    BY <1>4 DEF Click, Popup
  <2>2. popupTimers' \in [Icons -> 0..MaxClicks]
    BY <1>1, <2>1
  <2>3. \A j \in Icons : popupTimers'[j] <= clicks'
    BY <1>1, <2>1
  <2> QED BY <1>1, <1>2, <2>1, <2>2, <2>3
<1> QED BY <1>3, <1>4

LEMMA TimersCountedInvariant == ClipboardSpec => []TimersCounted
<1>1. ClipboardInit => TimersCounted
  BY ClipboardAssumption DEF ClipboardInit, TimersCounted, ClipboardTypeOK
<1>2. TimersCounted /\ [ClipboardNext]_clipboardVars => TimersCounted'
  <2> SUFFICES ASSUME TimersCounted, [ClipboardNext]_clipboardVars PROVE TimersCounted'
    OBVIOUS
  <2>1. ASSUME NEW i \in Icons, Expire(i) PROVE TimersCounted'
    <3> USE ClipboardAssumption DEF TimersCounted, ClipboardTypeOK
    <3>1. popupTimers' = [popupTimers EXCEPT ![i] = @ - 1] /\ popupTimers[i] \in 1..MaxClicks
      BY <2>1 DEF Expire
    <3>2. popupTimers' \in [Icons -> 0..MaxClicks] /\ \A j \in Icons : popupTimers'[j] <= clicks
      BY <3>1
    <3> QED BY <2>1, <3>2 DEF Expire
  <2>2. CASE UNCHANGED clipboardVars
    BY <2>2 DEF clipboardVars, TimersCounted, ClipboardTypeOK
  <2> QED BY <2>1, <2>2, ClickCounts DEF ClipboardNext
<1> QED BY <1>1, <1>2, PTL DEF ClipboardSpec

\* The variables of Clipboard keep their types, and no click leaves a textarea in
\* the page, whatever execCommand does.
THEOREM ClipboardTypeCorrect == ClipboardSpec => []ClipboardTypeOK
<1>1. TimersCounted => ClipboardTypeOK
  BY DEF TimersCounted
<1> QED BY <1>1, TimersCountedInvariant, PTL

\* No popup is left without a timer: not by a copy that throws, nor when the timer
\* of an earlier click takes the popup of a later one away (lines 36-49).
THEOREM PopupTimedCorrect == ClipboardSpec => []PopupTimed
<1>1. ClipboardInit => PopupTimed
  BY DEF ClipboardInit, PopupTimed
<1>2. ClipboardTypeOK /\ PopupTimed /\ [ClipboardNext]_clipboardVars => PopupTimed'
  <2> SUFFICES ASSUME ClipboardTypeOK, PopupTimed, [ClipboardNext]_clipboardVars
               PROVE  PopupTimed'
    OBVIOUS
  <2> USE ClipboardAssumption DEF ClipboardTypeOK, PopupTimed
  <2>1. ASSUME NEW i \in Icons, NEW outcome \in {"copied", "refused", "throws"},
               Click(i, outcome)
        PROVE  PopupTimed'
    BY <2>1 DEF Click, Popup
  <2>2. ASSUME NEW i \in Icons, Expire(i) PROVE PopupTimed'
    BY <2>2 DEF Expire
  <2>3. CASE UNCHANGED clipboardVars
    BY <2>3 DEF clipboardVars
  <2> QED BY <2>1, <2>2, <2>3 DEF ClipboardNext
<1> QED BY <1>1, <1>2, ClipboardTypeCorrect, PTL DEF ClipboardSpec

-----------------------------------------------------------------------------
\* What a window shows and what is stored are themes.
Themes ==
  /\ systemDark \in BOOLEAN
  /\ stored \in BOOLEAN \cup {Unset}
  /\ dark \in [Windows -> BOOLEAN]
  /\ opened \subseteq Windows

LEMMA ChosenIsTheme == Themes => Chosen \in BOOLEAN
  BY DEF Themes, Chosen

LEMMA ThemesInvariant == AppearanceSpec => []Themes
<1>1. AppearanceInit => Themes
  BY DEF AppearanceInit, Themes
<1>2. Themes /\ [AppearanceNext]_appearanceVars => Themes'
  <2> SUFFICES ASSUME Themes, [AppearanceNext]_appearanceVars PROVE Themes'
    OBVIOUS
  <2> USE DEF Themes
  <2>1. ASSUME NEW w \in Windows, Open(w) PROVE Themes'
    BY <2>1, ChosenIsTheme DEF Open
  <2>2. ASSUME NEW w \in Windows, Toggle(w) PROVE Themes'
    BY <2>2 DEF Toggle, Stored
  <2>3. ASSUME NEW w \in Windows, Ready(w) \/ ToggleColumn(w) \/ CloseColumn(w) PROVE Themes'
    BY <2>3 DEF Ready, ToggleColumn, CloseColumn
  <2>4. CASE SystemChanges
    BY <2>4 DEF SystemChanges
  <2>5. CASE UNCHANGED appearanceVars
    BY <2>5 DEF appearanceVars
  <2> QED BY <2>1, <2>2, <2>3, <2>4, <2>5 DEF AppearanceNext
<1> QED BY <1>1, <1>2, PTL DEF AppearanceSpec

\* For any number of windows: the theme chosen last is that of the window it was
\* chosen in and of every page opened since.
THEOREM ThemeKeptCorrect == AppearanceSpec => []ThemeKept
<1>1. AppearanceInit => ThemeKept
  BY DEF AppearanceInit, ThemeKept
<1>2. Themes /\ ThemeKept /\ [AppearanceNext]_appearanceVars => ThemeKept'
  <2> SUFFICES ASSUME Themes, ThemeKept, [AppearanceNext]_appearanceVars PROVE ThemeKept'
    OBVIOUS
  <2> USE DEF Themes, ThemeKept
  <2>1. ASSUME NEW w \in Windows, Open(w) PROVE ThemeKept'
    <3>1. stored' = stored /\ opened' = opened \cup {w} /\ dark' = [dark EXCEPT ![w] = Chosen]
      BY <2>1 DEF Open
    <3>2. stored # Unset => Chosen = stored
      BY DEF Chosen
    <3> QED BY <3>1, <3>2
  <2>2. ASSUME NEW w \in Windows, Toggle(w) PROVE ThemeKept'
    <3>1. stored' = ~dark[w] /\ dark' = [dark EXCEPT ![w] = ~dark[w]]
      BY <2>2 DEF Toggle, Stored
    <3>2. dark'[w] = stored' /\ \A v \in Windows \ {w} : dark'[v] = dark[v]
      BY <3>1
    <3>3. CASE stored' = stored
      <4>1. opened' = opened \cup {w}
        BY <2>2, <3>3 DEF Toggle
      <4>2. stored # Unset
        BY <3>1, <3>3, AppearanceAssumption
      <4> QED BY <3>2, <3>3, <4>1, <4>2
    <3>4. CASE stored' # stored
      <4>1. opened' = {w}
        BY <2>2, <3>4 DEF Toggle
      <4> QED BY <3>2, <4>1
    <3> QED BY <3>3, <3>4
  <2>3. ASSUME NEW w \in Windows, Ready(w) \/ ToggleColumn(w) \/ CloseColumn(w)
        PROVE  ThemeKept'
    BY <2>3 DEF Ready, ToggleColumn, CloseColumn
  <2>4. CASE SystemChanges
    BY <2>4 DEF SystemChanges
  <2>5. CASE UNCHANGED appearanceVars
    BY <2>5 DEF appearanceVars
  <2> QED BY <2>1, <2>2, <2>3, <2>4, <2>5 DEF AppearanceNext
<1> QED BY <1>1, <1>2, ThemesInvariant, PTL DEF AppearanceSpec
=============================================================================
