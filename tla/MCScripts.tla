----------------------------- MODULE MCScripts ------------------------------
(* Finite instances of the scripts of the documentation site. They share no    *)
(* variable, so that a step of one changes nothing that the properties of      *)
(* another speak of: a behaviour of this module is one of one script, with     *)
(* the others at rest.                                                         *)
EXTENDS MCAnchors, MCSymbolParameters, MCSideMenu, Clipboard, Appearance

VARIABLE running   \* the script that runs

scriptsVars ==
  <<running, anchorsVars, symbolVars, menuVars, clipboardVars, appearanceVars>>

Scripts == {"anchors", "symbols", "menu", "clipboard", "appearance"}

MCInit ==
  /\ running \in Scripts
  /\ AnchorsInit /\ SymbolInit /\ MenuInit /\ ClipboardInit /\ AppearanceInit
  /\ running # "anchors" => hash = NoAnchor /\ activeTab = {}
  /\ running # "symbols" => \A w \in Widths : width <= w
  /\ running # "menu" => page = Menu[1]
  /\ running # "appearance" => stored = Unset /\ ~systemDark

MCNext ==
  /\ UNCHANGED running
  /\ \/ /\ running = "anchors" /\ AnchorsNext
        /\ UNCHANGED <<symbolVars, menuVars, clipboardVars, appearanceVars>>
     \/ /\ running = "symbols" /\ SymbolNext
        /\ UNCHANGED <<anchorsVars, menuVars, clipboardVars, appearanceVars>>
     \/ /\ running = "menu" /\ MenuNext
        /\ UNCHANGED <<anchorsVars, symbolVars, clipboardVars, appearanceVars>>
     \/ /\ running = "clipboard" /\ ClipboardNext
        /\ UNCHANGED <<anchorsVars, symbolVars, menuVars, appearanceVars>>
     \/ /\ running = "appearance" /\ AppearanceNext
        /\ UNCHANGED <<anchorsVars, symbolVars, menuVars, clipboardVars>>

\* The fairness of the script that runs.
MCFairness ==
  /\ WF_anchorsVars(running = "anchors" /\ Listen)
  /\ WF_anchorsVars(running = "anchors" /\ (Load \/ LoadAborts))
  /\ WF_anchorsVars(running = "anchors" /\ HashChange)
  /\ WF_anchorsVars(running = "anchors" /\ Timer)
  /\ WF_symbolVars(running = "symbols" /\ WrapAll)
  /\ WF_symbolVars(running = "symbols" /\ ShowMembers)
  /\ WF_symbolVars(running = "symbols" /\ Frame)
  /\ WF_menuVars(running = "menu" /\ Parsed)
  /\ WF_menuVars(running = "menu" /\ DOMContentLoaded)
  /\ WF_menuVars(running = "menu" /\ StartMenu)
  /\ WF_menuVars(running = "menu" /\ ShowMenu)
  /\ \A icon \in Icons : WF_clipboardVars(running = "clipboard" /\ Expire(icon))

MCSpec == MCInit /\ [][MCNext]_scriptsVars /\ MCFairness
=============================================================================
