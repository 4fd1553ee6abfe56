----------------------------- MODULE Clipboard ------------------------------
(* The icons beside the members of a page that copy a link to them             *)
(* (docs/0.1.0/scripts/clipboard.js). A click puts the link into a textarea,    *)
(* lets the browser copy it, shows the popup "Link copied to clipboard" and     *)
(* starts a timer that takes the popup away. execCommand may refuse, which it   *)
(* tells by returning false, or throw.                                          *)
EXTENDS Naturals

CONSTANTS Icons,
          Nothing,   \* what the clipboard has before
          MaxClicks  \* bound: how often icons are clicked

ASSUME ClipboardAssumption == Nothing \notin Icons /\ MaxClicks \in Nat

VARIABLES
  clipboard,   \* the icon whose link it has
  textareas,   \* textareas in the body
  popups,      \* icons with active-popup beside them
  popupTimers, \* per icon the timers that run
  clicks       \* clicks so far

clipboardVars == <<clipboard, textareas, popups, popupTimers, clicks>>

ClipboardInit ==
  /\ clipboard = Nothing
  /\ textareas = 0
  /\ popups = {}
  /\ popupTimers = [i \in Icons |-> 0]
  /\ clicks = 0

\* Mutation: the textarea is removed only if all goes well.
CleanUpAfter(outcome) == IF outcome = "throws" THEN 0 ELSE 1

\* How many textareas finally removes, whatever execCommand did.
CleanUp(outcome) == 1

\* Mutation: the popup is shown before the copy is tried.
PopupFirst(i, outcome) ==
  /\ popups' = popups \cup {i}
  /\ popupTimers' = IF outcome = "throws" THEN popupTimers ELSE [popupTimers EXCEPT ![i] = @ + 1]

\* copyAndShowPopup: the popup and its timer, unless execCommand throws.
Popup(i, outcome) ==
  IF outcome = "throws"
    THEN UNCHANGED <<popups, popupTimers>>
    ELSE /\ popups' = popups \cup {i}
         /\ popupTimers' = [popupTimers EXCEPT ![i] = @ + 1]

\* copyTextToClipboard, called by a click.
Click(i, outcome) ==
  /\ clicks < MaxClicks
  /\ clicks' = clicks + 1
  /\ textareas' = textareas + 1 - CleanUp(outcome)
  /\ clipboard' = IF outcome = "copied" THEN i ELSE clipboard
  /\ Popup(i, outcome)

\* 1200 ms after a click, whatever was clicked since.
Expire(i) ==
  /\ popupTimers[i] > 0
  /\ popupTimers' = [popupTimers EXCEPT ![i] = @ - 1]
  /\ popups' = popups \ {i}
  /\ UNCHANGED <<clipboard, textareas, clicks>>

ClipboardNext ==
  \E i \in Icons :
    \/ \E outcome \in {"copied", "refused", "throws"} : Click(i, outcome)
    \/ Expire(i)

\* Timers expire.
ClipboardFairness == \A i \in Icons : WF_clipboardVars(Expire(i))

ClipboardSpec == ClipboardInit /\ [][ClipboardNext]_clipboardVars /\ ClipboardFairness

-----------------------------------------------------------------------------
\* The variables have their types, and no click leaves a textarea in the page.
ClipboardTypeOK ==
  /\ clipboard \in Icons \cup {Nothing}
  /\ textareas = 0
  /\ popups \subseteq Icons
  /\ popupTimers \in [Icons -> 0..MaxClicks]
  /\ clicks \in 0..MaxClicks

\* Every popup goes, although a click may fail half-way and the timers of several
\* clicks work on the same popup.
PopupEnds == \A i \in Icons : i \in popups ~> i \notin popups
=============================================================================
